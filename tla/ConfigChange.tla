----------------------------- MODULE ConfigChange -----------------------------
(***************************************************************************)
(* A change of the display configuration, from the request to the vsync    *)
(* that confirms it:                                                       *)
(*   - the display (libdevice/ExynosDisplay.cpp and                        *)
(*     libmaindisplay/ExynosPrimaryDisplay.cpp) keeps the state of the     *)
(*     request and hands it over when it presents a frame;                 *)
(*   - the DRM interface (libdisplayinterface/ExynosDisplayDrmInterface)   *)
(*     sets the mode with a commit and keeps the vsync worker running      *)
(*     until the new period is seen or the transition has lasted long      *)
(*     enough;                                                             *)
(*   - the vsync worker (libdrmresource/drm/vsyncworker.cpp) waits for     *)
(*     vertical blanks on a thread of its own.                             *)
(* Every operation of the display holds mDisplayMutex, and so does the     *)
(* part of the callback that changes its state: each is one step.          *)
(* A mode stands for its period, which is all that is compared.            *)
(***************************************************************************)
EXTENDS Naturals

CONSTANTS
    Config,          \* the configurations of the panel
    DozeMode,        \* the low power mode: a mode, but no configuration
    None             \* no mode, no pending configuration, no period

ASSUME ConfigAssumption == DozeMode \notin Config /\ None \notin Config /\ DozeMode # None

VARIABLES
    mPowerModeState, mSkipFrame,                 \* of the display
    mConfigRequestState,                         \* hwc_request_state_t
    mActiveConfig, mDesiredConfig, mPendingConfig,
    mVsyncPeriod,                                \* the mode whose period the display reports
    mActiveModeState,                            \* of the interface: the mode that is set, and
                                                 \* whether it must be set again
    mDesiredModeState,                           \* the mode the next commit sets, or None
    mVsyncEnabled, mDesiredVsyncPeriod,          \* of mVsyncCallback
    mModeSetFence,                               \* "None", "Pending", or "Over" its transition
    mEnabled,                                    \* of the worker
    pc, woken                                    \* of the worker's thread

powerVars == <<mPowerModeState, mSkipFrame>>
requestVars == <<mConfigRequestState, mDesiredConfig>>
configVars == <<mActiveConfig, mPendingConfig, mVsyncPeriod>>
modeVars == <<mActiveModeState, mDesiredModeState>>
callbackVars == <<mVsyncEnabled, mDesiredVsyncPeriod, mModeSetFence>>
workerVars == <<mEnabled, woken>>
vars == <<powerVars, requestVars, configVars, modeVars, callbackVars, workerVars, pc>>

Mode == Config \union {DozeMode}

(* After boot the preferred mode is set, or left to the first frame when   *)
(* it changes the resolution; the display is on.                           *)
Init ==
    /\ mPowerModeState = "On" /\ mSkipFrame = FALSE
    /\ mConfigRequestState = "Done"
    /\ mActiveConfig \in Config /\ mDesiredConfig = mActiveConfig /\ mPendingConfig = None
    /\ mVsyncPeriod = mActiveConfig
    /\ \/ mActiveModeState = [mode |-> mActiveConfig, force |-> FALSE] /\ mDesiredModeState = None
       \/ mActiveModeState = [mode |-> None, force |-> FALSE] /\ mDesiredModeState = mActiveConfig
    /\ mVsyncEnabled = FALSE /\ mDesiredVsyncPeriod = None /\ mModeSetFence = "None"
    /\ mEnabled = FALSE
    /\ pc = "Top" /\ woken = FALSE

-----------------------------------------------------------------------------
(* Parts of the operations.                                                *)

(* Mutant: the thread is not signalled.                                    *)
EnableOnly(enabled) ==
    /\ mEnabled' = enabled
    /\ UNCHANGED woken

(* VSyncWorker::VSyncControl: the signal reaches a thread that waits.      *)
VSyncControl(enabled) ==
    /\ mEnabled' = enabled
    /\ woken' = (woken \/ pc = "Wait")

needsModeSet == mDesiredModeState # None

(* ExynosDisplay::resetConfigRequestStateLocked. No period is known of a   *)
(* mode that is no configuration.                                          *)
resetConfigRequestStateLocked(mode) ==
    /\ mVsyncPeriod' = IF mode \in Config THEN mode ELSE None
    /\ mConfigRequestState' = IF mConfigRequestState = "Requested" THEN "Done"
                              ELSE mConfigRequestState

(* setActiveDrmMode: a blocking commit, unless the mode is set already and *)
(* the display was not powered off.                                        *)
SameDrmMode(mode) == ~mSkipFrame /\ mActiveModeState = [mode |-> mode, force |-> FALSE]

setActiveDrmMode(mode, ok) ==
    mActiveModeState' = IF ok /\ ~SameDrmMode(mode) THEN [mode |-> mode, force |-> FALSE]
                        ELSE mActiveModeState

(* ExynosDisplay::setActiveConfigInternal: a failed commit is not          *)
(* reported, the display follows in any case.                              *)
setActiveConfigInternal(config) ==
    /\ \E ok \in BOOLEAN : setActiveDrmMode(config, ok)
    /\ mActiveConfig' = config
    /\ resetConfigRequestStateLocked(config)

(* Mutant: a mode that waits for the next commit is overlooked.            *)
IsActiveMode(config) == mActiveModeState.mode = config

(* The interface's setActiveConfigWithConstraints. The mode that is set    *)
(* already is only confirmed by the next vsync, even if this is a test.    *)
IsSameMode(config) == ~needsModeSet /\ mActiveModeState.mode = config

ConfirmSameMode ==
    /\ mDesiredVsyncPeriod' = mActiveModeState.mode
    /\ VSyncControl(TRUE)
    /\ UNCHANGED <<mVsyncEnabled, mModeSetFence>>

-----------------------------------------------------------------------------
(* The operations of the display.                                          *)

(* ExynosDisplay::setActiveConfigWithConstraints. "tested" says whether    *)
(* the change needs a test first, for a seamless or resolution change.     *)
setActiveConfigWithConstraints(config, tested) ==
    /\ config # mActiveConfig
    /\ mConfigRequestState' = "Pending" /\ mDesiredConfig' = config
    /\ mActiveConfig' = config
    /\ IF tested /\ IsSameMode(config)
       THEN ConfirmSameMode
       ELSE UNCHANGED <<callbackVars, workerVars>>
    /\ UNCHANGED <<powerVars, mPendingConfig, mVsyncPeriod, modeVars, pc>>

(* Mutant: the test for a pending configuration is missing.                *)
PendingOnly == mPendingConfig

(* ExynosPrimaryDisplay::setActiveConfigInternal: while the display is not *)
(* on the configuration waits until it is.                                 *)
CurrentConfig == IF mPendingConfig # None THEN mPendingConfig ELSE mActiveConfig

setActiveConfig(config) ==
    /\ config # CurrentConfig
    /\ IF mPowerModeState # "On"
       THEN /\ mPendingConfig' = config
            /\ UNCHANGED <<mConfigRequestState, mActiveConfig, mVsyncPeriod, mActiveModeState>>
       ELSE /\ config # mActiveConfig
            /\ setActiveConfigInternal(config)
            /\ UNCHANGED mPendingConfig
    /\ UNCHANGED <<powerVars, mDesiredConfig, mDesiredModeState, callbackVars, workerVars, pc>>

(* setPowerOn with applyPendingConfig.                                     *)
setPowerOn ==
    /\ mPowerModeState # "On"
    /\ setActiveConfigInternal(CurrentConfig)
    /\ mPendingConfig' = None
    /\ mPowerModeState' = "On"
    /\ UNCHANGED <<mSkipFrame, mDesiredConfig, mDesiredModeState, callbackVars, workerVars, pc>>

setPowerOff ==
    /\ mPowerModeState # "Off"
    /\ mPowerModeState' = "Off" /\ mSkipFrame' = TRUE
    /\ \E ok \in BOOLEAN :
         mActiveModeState' = [mActiveModeState EXCEPT !.force = @ \/ ok]
    /\ UNCHANGED <<requestVars, configVars, mDesiredModeState, callbackVars, workerVars, pc>>

(* setPowerDoze with setLowPowerMode, which changes the period first; the  *)
(* power mode stays when the commit fails.                                 *)
setPowerDoze ==
    /\ mPowerModeState # "Doze"
    /\ mVsyncPeriod' = DozeMode
    /\ \E ok \in BOOLEAN :
         /\ setActiveDrmMode(DozeMode, ok)
         /\ mPowerModeState' = IF ok \/ SameDrmMode(DozeMode) THEN "Doze" ELSE mPowerModeState
    /\ UNCHANGED <<mSkipFrame, requestVars, mActiveConfig, mPendingConfig, mDesiredModeState,
                   callbackVars, workerVars, pc>>

(* Mutant: the worker is stopped although a change is not confirmed yet.   *)
DisableAtOnce(enabled) ==
    /\ mVsyncEnabled' = enabled
    /\ VSyncControl(enabled)
    /\ UNCHANGED <<powerVars, requestVars, configVars, modeVars, mDesiredVsyncPeriod,
                   mModeSetFence, pc>>

setVsyncEnabled(enabled) ==
    /\ mVsyncEnabled' = enabled
    /\ IF enabled \/ mDesiredVsyncPeriod = None
       THEN VSyncControl(enabled)
       ELSE UNCHANGED workerVars
    /\ UNCHANGED <<powerVars, requestVars, configVars, modeVars, mDesiredVsyncPeriod,
                   mModeSetFence, pc>>

-----------------------------------------------------------------------------
(* presentDisplay, with the validation that ends the skipping of frames.   *)
(* Displays that are off are not presented. A request that is due is       *)
(* handed to the interface before the frame. "NoFrame": there is no layer, *)
(* or the frame is not valid, and the display is cleared. "NotCommitted":  *)
(* the frame is the same as the last one, or its commit fails.             *)
FrameResult == {"Delivered", "NotCommitted", "NoFrame"}

(* The rest of the frame with the desired mode that the hand-over left:    *)
(* the end of deliverWinConfigData, and the display's own configuration.   *)
Commit(result, mode) ==
    IF result = "Delivered" /\ mode # None
    THEN /\ mActiveModeState' = [mode |-> mode,
                                 force |-> mActiveModeState.force \/ mActiveModeState.mode # mode]
         /\ mDesiredModeState' = None
         /\ mDesiredVsyncPeriod' = mode /\ mModeSetFence' = "Pending"
         /\ VSyncControl(TRUE)
         /\ UNCHANGED mVsyncEnabled
    ELSE /\ mDesiredModeState' = mode
         /\ UNCHANGED <<mActiveModeState, callbackVars, workerVars>>

FollowRequest(result) ==
    mActiveConfig' = IF result # "NoFrame" /\ mConfigRequestState' = "Requested"
                     THEN mDesiredConfig ELSE mActiveConfig

(* No request, one that is not due yet, or no blob for its mode.           *)
PresentWithoutRequest(result) ==
    /\ UNCHANGED <<mConfigRequestState, mPendingConfig>>
    /\ Commit(result, mDesiredModeState)
    /\ FollowRequest(result)

(* ExynosPrimaryDisplay::doDisplayConfigInternal. It sets the state to     *)
(* done, but its caller overwrites that.                                   *)
DeferRequest(result) ==
    /\ mConfigRequestState = "Pending" /\ mPowerModeState # "On"
    /\ mPendingConfig' = mDesiredConfig
    /\ mConfigRequestState' = "Requested"
    /\ Commit(result, mDesiredModeState)
    /\ FollowRequest(result)

ConfirmRequest(result) ==
    /\ mConfigRequestState = "Pending" /\ mPowerModeState = "On"
    /\ IsSameMode(mDesiredConfig)
    /\ ConfirmSameMode
    /\ mConfigRequestState' = "Requested"
    /\ FollowRequest(result)
    /\ UNCHANGED <<mPendingConfig, modeVars>>

RequestMode(result) ==
    /\ mConfigRequestState = "Pending" /\ mPowerModeState = "On"
    /\ ~IsSameMode(mDesiredConfig)
    /\ mConfigRequestState' = "Requested"
    /\ Commit(result, mDesiredConfig)
    /\ FollowRequest(result)
    /\ UNCHANGED mPendingConfig

presentDisplay(result) ==
    /\ mPowerModeState # "Off"
    /\ mSkipFrame' = FALSE
    /\ \/ PresentWithoutRequest(result)
       \/ DeferRequest(result)
       \/ ConfirmRequest(result)
       \/ RequestMode(result)
    /\ UNCHANGED <<mPowerModeState, mDesiredConfig, mVsyncPeriod, pc>>

-----------------------------------------------------------------------------
(* The worker's thread.                                                    *)

displayVars == <<powerVars, requestVars, configVars, modeVars, callbackVars>>

Routine ==
    /\ pc = "Top"
    /\ pc' = IF mEnabled THEN "WaitVBlank" ELSE "Wait"
    /\ UNCHANGED <<displayVars, workerVars>>

(* WaitForSignalOrExitLocked does not look at mEnabled again.              *)
WakeUp ==
    /\ pc = "Wait" /\ woken
    /\ pc' = "WaitVBlank" /\ woken' = FALSE
    /\ UNCHANGED <<displayVars, mEnabled>>

SpuriousWakeUp ==
    /\ pc = "Wait" /\ ~woken
    /\ pc' = "WaitVBlank"
    /\ UNCHANGED <<displayVars, workerVars>>

(* drmWaitVBlank, or SyntheticWaitVBlank when it fails, which answers only *)
(* when an earlier timestamp is known.                                     *)
WaitVBlank ==
    /\ pc = "WaitVBlank"
    /\ \/ pc' = "Check"
       \/ mPowerModeState = "Off" /\ pc' = "Top"
    /\ UNCHANGED <<displayVars, workerVars>>

CheckEnabled ==
    /\ pc = "Check"
    /\ pc' = IF mEnabled THEN "Callback" ELSE "Top"
    /\ UNCHANGED <<displayVars, workerVars>>

(* Mutant: only the desired period ends a change.                          *)
TransitionNeverOver(match) == FALSE

(* The interface's Callback with ExynosVsyncCallback::Callback. "match"    *)
(* says whether the measured period is within the margin of the desired    *)
(* one. What the device is told afterwards changes nothing here.           *)
TransitionIsOver(match) == ~match /\ mModeSetFence = "Over"
configApplied(match) == mDesiredVsyncPeriod = None \/ match \/ TransitionIsOver(match)

Callback(match) ==
    /\ pc = "Callback"
    /\ IF configApplied(match)
       THEN /\ IF mDesiredVsyncPeriod # None
               THEN resetConfigRequestStateLocked(mActiveModeState.mode)
               ELSE UNCHANGED <<mConfigRequestState, mVsyncPeriod>>
            /\ mDesiredVsyncPeriod' = None
            /\ mModeSetFence' = IF mDesiredVsyncPeriod # None /\ TransitionIsOver(match)
                                THEN "None" ELSE mModeSetFence
            /\ IF mVsyncEnabled THEN UNCHANGED workerVars ELSE VSyncControl(FALSE)
       ELSE UNCHANGED <<mConfigRequestState, mVsyncPeriod, mDesiredVsyncPeriod, mModeSetFence,
                        workerVars>>
    /\ pc' = "Top"
    /\ UNCHANGED <<powerVars, mDesiredConfig, mActiveConfig, mPendingConfig, modeVars,
                   mVsyncEnabled>>

(* The commit of the mode completes and the transition takes its time.     *)
FenceSignals ==
    /\ mModeSetFence = "Pending"
    /\ mModeSetFence' = "Over"
    /\ UNCHANGED <<powerVars, requestVars, configVars, modeVars, mVsyncEnabled,
                   mDesiredVsyncPeriod, workerVars, pc>>

-----------------------------------------------------------------------------
Display ==
    \/ \E c \in Config, tested \in BOOLEAN : setActiveConfigWithConstraints(c, tested)
    \/ \E c \in Config : setActiveConfig(c)
    \/ setPowerOn \/ setPowerOff \/ setPowerDoze
    \/ \E enabled \in BOOLEAN : setVsyncEnabled(enabled)
    \/ \E result \in FrameResult : presentDisplay(result)

Thread ==
    \/ Routine \/ WakeUp \/ WaitVBlank \/ CheckEnabled
    \/ \E match \in BOOLEAN : Callback(match)

Next == Display \/ Thread \/ SpuriousWakeUp \/ FenceSignals

Spec == Init /\ [][Next]_vars

(* The worker runs with real-time priority, the kernel signals fences, and *)
(* a vsync of the mode that is set is measured sooner or later.            *)
Fairness ==
    /\ WF_vars(Thread)
    /\ WF_vars(FenceSignals)
    /\ SF_vars(mDesiredVsyncPeriod = mActiveModeState.mode /\ Callback(TRUE))

FairSpec == Spec /\ Fairness

-----------------------------------------------------------------------------
(* Properties.                                                             *)

(* The types of all variables; in particular no mode or configuration is   *)
(* taken from an empty slot.                                               *)
TypeOK ==
    /\ mPowerModeState \in {"On", "Doze", "Off"} /\ mSkipFrame \in BOOLEAN
    /\ mConfigRequestState \in {"Done", "Pending", "Requested"}
    /\ mActiveConfig \in Config /\ mDesiredConfig \in Config
    /\ mPendingConfig \in Config \union {None}
    /\ mVsyncPeriod \in Mode \union {None}
    /\ mActiveModeState \in [mode : Mode \union {None}, force : BOOLEAN]
    /\ mDesiredModeState \in Config \union {None}
    /\ mVsyncEnabled \in BOOLEAN /\ mDesiredVsyncPeriod \in Mode \union {None}
    /\ mModeSetFence \in {"None", "Pending", "Over"}
    /\ mEnabled \in BOOLEAN
    /\ pc \in {"Top", "Wait", "WaitVBlank", "Check", "Callback"}
    /\ woken \in BOOLEAN

(* The worker is enabled exactly while vsync is wanted: by the client, or  *)
(* to confirm a configuration change. It is neither stopped while a change *)
(* waits for it nor left running, whatever the order of enabling,          *)
(* disabling, frames and callbacks.                                        *)
VsyncRunsWhenWanted == mEnabled <=> mVsyncEnabled \/ mDesiredVsyncPeriod # None

(* A request that was handed over while the display is on is never         *)
(* forgotten or mixed up with another: either the next commit sets the     *)
(* mode it asks for, or that mode is set and a vsync will confirm it,      *)
(* whatever frames fail and whatever power changes come in between.        *)
RequestIsTracked ==
    mConfigRequestState = "Requested" /\ mPowerModeState = "On" =>
      IF needsModeSet THEN mDesiredModeState = mDesiredConfig
      ELSE mDesiredVsyncPeriod # None /\ mActiveModeState.mode = mDesiredConfig

(* The thread never sleeps through an enabled vsync.                       *)
NoLostSignal == mEnabled /\ pc = "Wait" => woken

(* A change whose mode was set is confirmed and the desired period is      *)
(* cleared, unless modes are set again and again or the display does not   *)
(* stay on.                                                                *)
Confirmable == mModeSetFence # "None" \/ mDesiredVsyncPeriod = mActiveModeState.mode

ChangeIsConfirmed ==
    \/ []<>(mDesiredVsyncPeriod = None \/ mPowerModeState # "On" \/ ~Confirmable)
    \/ []<><<mModeSetFence' = "Pending">>_vars
=============================================================================
