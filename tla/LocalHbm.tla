------------------------------ MODULE LocalHbm ------------------------------
(***************************************************************************)
(* Local high brightness (LHBM): the fingerprint sensor's thread asks for  *)
(* a bright spot, which needs the panel at its peak refresh rate.          *)
(* ExynosPrimaryDisplay::setLhbmState forces the peak configuration, keeps *)
(* the client's in mPendingConfig and turns its requests away meanwhile,   *)
(* and gives the configuration back when the spot goes out.                *)
(*                                                                         *)
(* setLhbmState holds mDisplayMutex only while it changes configurations:  *)
(* between its steps come the client's requests, frames and power changes, *)
(* the kernel's own timeout, and the end of the time for which requests    *)
(* are turned away at most.                                                *)
(***************************************************************************)
EXTENDS Naturals

CONSTANTS
    LhbmConfigs,    \* configurations of one resolution
    Peak,           \* the one getConfigId finds for the peak refresh rate
    NoConfig,       \* UINT_MAX
    DozeMode,       \* mDozeDrmMode, which is not one of mDisplayConfigs
    ModeSetsFail    \* the commit of a mode may fail

ASSUME LhbmAssumption ==
    /\ Peak \in LhbmConfigs /\ NoConfig \notin LhbmConfigs
    /\ DozeMode \notin LhbmConfigs \union {NoConfig}
    /\ ModeSetsFail \in BOOLEAN

VARIABLES
    cfg,        \* active: mActiveConfig, pending: mPendingConfig, set: the mode of the panel
    configRequest, \* state: mConfigRequestState, desired: mDesiredConfig
    turnedAway, \* ~isConfigSettingEnabled()
    lit,        \* power: mPowerModeState, on: mLhbmOn, throttle: the LHBM vote for the delay
    spot,       \* panel: the kernel's state, cmd: what the next commit asks for
    call,       \* setLhbmState: pc, enable: its parameter
    goingOff,   \* setPowerOff has set mPowerModeState but not yet mLhbmOn
    asked       \* the client's last accepted configurations (see Accept)

lhbmVars == <<cfg, configRequest, turnedAway, lit, spot, call, goingOff, asked>>

LhbmInit ==
    /\ \E c \in LhbmConfigs :
           /\ cfg = [active |-> c, pending |-> NoConfig, set |-> c]
           /\ configRequest = [state |-> "done", desired |-> c]
           /\ asked = {c}
    /\ turnedAway = FALSE
    /\ lit = [power |-> "on", on |-> FALSE, throttle |-> FALSE]
    /\ spot = [panel |-> "disabled", cmd |-> "none"]
    /\ call = [pc |-> "idle", enable |-> FALSE]
    /\ goingOff = FALSE

-----------------------------------------------------------------------------
(* Configurations.  mDisplayMutex is held by each of these.                *)

Reported(c) == IF c.pending # NoConfig THEN c.pending ELSE c.active

(* ExynosDisplay::setActiveConfigInternal with force.  The interface's     *)
(* setActiveConfig returns 0 although the commit of the mode failed.       *)
SetForced(config, c) ==
    \E reached \in IF ModeSetsFail THEN {config, cfg.set} ELSE {config} :
        /\ cfg' = [active |-> config, pending |-> c.pending, set |-> reached]
        /\ configRequest' = [configRequest EXCEPT !.state = IF @ = "requested" THEN "done" ELSE @]

(* setActiveConfigWithConstraints, without a change of resolution.  A      *)
(* request that is turned away, or asks for what is active, leaves an      *)
(* earlier one that no vsync has confirmed, and, if it asks for what the   *)
(* panel has, what a frame made active of one that was put off; one that   *)
(* is not turned away leaves what is kept for the end of LHBM.             *)
Replaces(config) == ~turnedAway /\ cfg.active # config

StillOpen(config) ==
    (IF ~turnedAway THEN {cfg.pending} \ {NoConfig} ELSE IF config = cfg.set THEN {cfg.active} ELSE {}) \union
    (IF Replaces(config) \/ configRequest.state = "done" THEN {} ELSE {configRequest.desired})

RequestConfig(config) ==
    /\ ~goingOff
    /\ cfg' = [cfg EXCEPT !.pending = IF turnedAway THEN config ELSE @,
                          !.active = IF Replaces(config) THEN config ELSE @]
    /\ configRequest' = IF Replaces(config) THEN [state |-> "pending", desired |-> config] ELSE configRequest
    /\ asked' = {config} \union StillOpen(config)
    /\ UNCHANGED <<turnedAway, lit, spot, call, goingOff>>

(* doDisplayConfigInternal and the end of presentDisplay.                  *)
HandedOver(c) ==
    CASE configRequest.state = "pending" /\ (lit.power # "on" \/ turnedAway) ->
             [c EXCEPT !.pending = configRequest.desired, !.active = configRequest.desired]
      [] configRequest.state = "pending" -> [c EXCEPT !.set = configRequest.desired, !.active = configRequest.desired]
      [] configRequest.state = "requested" -> [c EXCEPT !.active = configRequest.desired]
      [] OTHER -> c

(* A frame also commits what was asked of the spot.                        *)
Commanded(panel) ==
    CASE spot.cmd = "on" -> IF panel = "disabled" THEN "enabling" ELSE panel
      [] spot.cmd = "off" -> "disabled"
      [] OTHER -> panel

PresentFrame(due) ==
    /\ lit.power # "off"
    /\ IF configRequest.state = "pending" /\ ~due
       THEN UNCHANGED <<cfg, configRequest>>
       ELSE /\ cfg' = HandedOver(cfg)
            /\ configRequest' = [configRequest EXCEPT !.state = IF @ = "pending" THEN "requested" ELSE @]
    /\ spot' = [panel |-> Commanded(spot.panel), cmd |-> "none"]
    /\ UNCHANGED <<turnedAway, lit, call, goingOff, asked>>

VsyncConfirms ==
    /\ configRequest.state = "requested" /\ ~goingOff
    /\ configRequest' = [configRequest EXCEPT !.state = "done"]
    /\ UNCHANGED <<cfg, turnedAway, lit, spot, call, goingOff, asked>>

-----------------------------------------------------------------------------
(* Power.  applyPendingConfig while the display is not on yet does not ask *)
(* whether requests are turned away.                                       *)

SetPowerOn ==
    /\ lit.power # "on" /\ ~goingOff
    /\ SetForced(Reported(cfg), [cfg EXCEPT !.pending = NoConfig])
    /\ lit' = [lit EXCEPT !.power = "on"]
    /\ UNCHANGED <<turnedAway, spot, call, goingOff, asked>>

(* setPowerOff clears the display, with the state of LHBM.                 *)
SetPowerOff ==
    /\ lit.power # "off" /\ ~goingOff
    /\ lit' = [lit EXCEPT !.power = "off"]
    /\ spot' = [panel |-> "disabled", cmd |-> "none"]
    /\ goingOff' = TRUE
    /\ UNCHANGED <<cfg, configRequest, turnedAway, call, asked>>

ForgetLhbm ==
    /\ goingOff
    /\ lit' = [lit EXCEPT !.on = FALSE]
    /\ goingOff' = FALSE
    /\ UNCHANGED <<cfg, configRequest, turnedAway, spot, call, asked>>

(* setLowPowerMode gives the panel the mode for doze and leaves mActive-   *)
(* Config; if that fails, or there is no such mode, nothing has changed.   *)
SetPowerDoze ==
    /\ lit.power # "doze" /\ ~goingOff
    /\ \/ /\ lit' = [lit EXCEPT !.power = "doze", !.on = FALSE]
          /\ spot' = [panel |-> "disabled", cmd |-> "none"]
          /\ cfg' = [cfg EXCEPT !.set = DozeMode]
       \/ UNCHANGED <<lit, spot, cfg>>
    /\ UNCHANGED <<configRequest, turnedAway, call, goingOff, asked>>

-----------------------------------------------------------------------------
(* Time and the kernel.                                                    *)

\* kConfigDisablingMaxDurationMs have passed.
TurningAwayEnds ==
    /\ turnedAway /\ turnedAway' = FALSE
    /\ UNCHANGED <<cfg, configRequest, lit, spot, call, goingOff, asked>>

SpotReachesPeak ==
    /\ spot.panel = "enabling" /\ spot' = [spot EXCEPT !.panel = "enabled"]
    /\ UNCHANGED <<cfg, configRequest, turnedAway, lit, call, goingOff, asked>>

KernelTimeout ==
    /\ spot.panel # "disabled" /\ spot' = [spot EXCEPT !.panel = "disabled"]
    /\ UNCHANGED <<cfg, configRequest, turnedAway, lit, call, goingOff, asked>>

-----------------------------------------------------------------------------
(* setLhbmState.                                                           *)

At(pc) == call.pc = pc
GoTo(pc) == call' = [call EXCEPT !.pc = pc]
LhbmVote(on) == lit' = [lit EXCEPT !.throttle = on]

RequestLhbm(on) == spot' = [spot EXCEPT !.cmd = IF on THEN "on" ELSE "off"]

SetLhbmState(enable) ==
    /\ At("idle") /\ call' = [pc |-> "wait_for_power_on", enable |-> enable]
    /\ UNCHANGED <<cfg, configRequest, turnedAway, lit, spot, goingOff, asked>>

WaitForPowerOn ==
    /\ At("wait_for_power_on")
    /\ GoTo(IF lit.power = "on" THEN "check_status" ELSE "idle")
    /\ UNCHANGED <<cfg, configRequest, turnedAway, lit, spot, goingOff, asked>>

(* Nothing to do, or only the kernel's timer to restart.                   *)
CheckStatus ==
    /\ At("check_status")
    /\ IF call.enable = (spot.panel # "disabled")
       THEN GoTo("idle") /\ IF call.enable THEN RequestLhbm(TRUE) ELSE UNCHANGED spot
       ELSE IF call.enable
       THEN GoTo("set_config") /\ UNCHANGED spot
       ELSE GoTo("wait_for_lhbm_off") /\ RequestLhbm(FALSE)
    /\ UNCHANGED <<cfg, configRequest, turnedAway, lit, goingOff, asked>>

(* ... or at the end of the wait.                                          *)
WaitForLhbmOff ==
    /\ At("wait_for_lhbm_off") /\ GoTo("restore")
    /\ UNCHANGED <<cfg, configRequest, turnedAway, lit, spot, goingOff, asked>>

(* restoreLhbmDisplayConfigLocked.                                         *)
Restored ==
    /\ turnedAway' = FALSE
    /\ IF lit.power = "doze"
       THEN UNCHANGED <<cfg, configRequest>>
       ELSE IF cfg.pending \notin {NoConfig, cfg.set}
       THEN SetForced(cfg.pending, [cfg EXCEPT !.pending = NoConfig])
       ELSE cfg' = [cfg EXCEPT !.pending = NoConfig] /\ UNCHANGED configRequest

Restore ==
    /\ At("restore") /\ Restored /\ GoTo("put_out")
    /\ UNCHANGED <<lit, spot, goingOff, asked>>

PutOut ==
    /\ At("put_out") /\ GoTo("idle")
    /\ lit' = [lit EXCEPT !.throttle = FALSE, !.on = FALSE]
    /\ UNCHANGED <<cfg, configRequest, turnedAway, spot, goingOff, asked>>

(* Mutant: what is active is kept even if something is kept already.       *)
KeepActive(c) == IF c.active # Peak THEN [c EXCEPT !.pending = c.active] ELSE c

(* setLhbmDisplayConfigLocked.  With the mode for doze on the panel there  *)
(* is no peak configuration of its resolution, and setLhbmState ends.      *)
KeepForLater(c) ==
    IF c.pending = NoConfig /\ c.active # Peak THEN [c EXCEPT !.pending = c.active] ELSE c

SetLhbmDisplayConfig ==
    /\ At("set_config") /\ cfg.set # DozeMode /\ GoTo("wait_for_peak_rate")
    /\ IF cfg.set # Peak
       THEN SetForced(Peak, KeepForLater(cfg))
       ELSE cfg' = KeepForLater(cfg) /\ UNCHANGED configRequest
    /\ turnedAway' = TRUE
    /\ UNCHANGED <<lit, spot, goingOff, asked>>

NoLhbmConfig ==
    /\ At("set_config") /\ cfg.set = DozeMode /\ GoTo("idle")
    /\ UNCHANGED <<cfg, configRequest, turnedAway, lit, spot, goingOff, asked>>

(* Polling the rate may time out without harm; without its node, vblanks   *)
(* are waited for, and that may fail.                                      *)
WaitForPeakRate ==
    /\ At("wait_for_peak_rate")
    /\ \/ GoTo("wait_for_lhbm_on") /\ LhbmVote(TRUE) /\ RequestLhbm(TRUE)
       \/ GoTo("enable_err") /\ UNCHANGED <<lit, spot>>
    /\ UNCHANGED <<cfg, configRequest, turnedAway, goingOff, asked>>

WaitForLhbmOn ==
    /\ At("wait_for_lhbm_on")
    /\ \/ spot.panel # "disabled" /\ GoTo("wait_for_peak_brightness") /\ UNCHANGED lit
       \/ GoTo("enable_err") /\ LhbmVote(FALSE)
    /\ UNCHANGED <<cfg, configRequest, turnedAway, spot, goingOff, asked>>

(* This failure leaves the vote.                                           *)
WaitForPeakBrightness ==
    /\ At("wait_for_peak_brightness")
    /\ \/ spot.panel = "enabled" /\ GoTo("lit")
       \/ GoTo("enable_err")
    /\ UNCHANGED <<cfg, configRequest, turnedAway, lit, spot, goingOff, asked>>

\* mLhbmOn is set, and only then the power mode is looked at.
SpotIsLit ==
    /\ At("lit") /\ GoTo("powered")
    /\ lit' = [lit EXCEPT !.on = TRUE]
    /\ UNCHANGED <<cfg, configRequest, turnedAway, spot, goingOff, asked>>

(* Mutant: the power mode is not looked at.                                *)
StayLit ==
    /\ At("powered") /\ GoTo("idle")
    /\ UNCHANGED <<cfg, configRequest, turnedAway, lit, spot, goingOff, asked>>

CheckPower ==
    /\ At("powered") /\ GoTo("idle")
    /\ lit' = [lit EXCEPT !.on = (@ /\ lit.power # "off")]
    /\ UNCHANGED <<cfg, configRequest, turnedAway, spot, goingOff, asked>>

EnableError ==
    /\ At("enable_err") /\ GoTo("restore_after_error")
    /\ spot' = IF lit.power = "off" THEN [spot EXCEPT !.cmd = "none"] ELSE spot
    /\ UNCHANGED <<cfg, configRequest, turnedAway, lit, goingOff, asked>>

RestoreAfterError ==
    /\ At("restore_after_error") /\ Restored /\ GoTo("idle")
    /\ UNCHANGED <<lit, spot, goingOff, asked>>

-----------------------------------------------------------------------------
SensorCall ==
    \/ \E enable \in BOOLEAN : SetLhbmState(enable)
    \/ WaitForPowerOn \/ CheckStatus \/ WaitForLhbmOff \/ Restore \/ PutOut
    \/ SetLhbmDisplayConfig \/ NoLhbmConfig \/ WaitForPeakRate \/ WaitForLhbmOn
    \/ WaitForPeakBrightness \/ SpotIsLit \/ CheckPower \/ EnableError \/ RestoreAfterError

LhbmNext ==
    \/ SensorCall
    \/ \E config \in LhbmConfigs : RequestConfig(config)
    \/ \E due \in BOOLEAN : PresentFrame(due)
    \/ VsyncConfirms \/ TurningAwayEnds \/ SpotReachesPeak \/ KernelTimeout
    \/ SetPowerOn \/ SetPowerOff \/ ForgetLhbm \/ SetPowerDoze

LhbmSpec == LhbmInit /\ [][LhbmNext]_lhbmVars

-----------------------------------------------------------------------------
(* Through enabling and disabling, failures, timeouts and power changes,   *)
(* the configuration the display reports is the one the client asked for   *)
(* last, or one of those the code still held open when it accepted that    *)
(* request: the peak configuration never shows as the client's.            *)
ClientConfigKept == Reported(cfg) \in asked

(* getLhbmState is never true for a display that is off, however the power *)
(* change races the end of enabling.                                       *)
LhbmOffWithDisplay == lit.power = "off" /\ ~goingOff /\ At("idle") => ~lit.on
=============================================================================
