------------------------ MODULE BrightnessController ------------------------
(***************************************************************************)
(* The brightness controller of a display (libdevice/BrightnessController) *)
(* with its callers: the composer thread, which sets the brightness,       *)
(* validates and presents frames; the HWC binder service, which may set it *)
(* too; the binder threads of the HBM and dim modes; the sensor's thread   *)
(* that asks for local HBM (ExynosPrimaryDisplay::setLhbmState); the power *)
(* sequence; and the looper that ends HBM dimming.  A change reaches the   *)
(* panel by the next atomic commit or by a write to the backlight node,    *)
(* which is faster, is made without the mutex and recorded afterwards.     *)
(*                                                                         *)
(* A brightness is a number; from HbmFrom on it lies in the range of HBM.  *)
(* Off (-1) is a request too.                                              *)
(***************************************************************************)
EXTENDS Integers

CONSTANTS
    Brightness,    \* the values that are requested
    HbmFrom,       \* the first of the HBM range
    Peak,          \* brightness 1.0
    DimmingUsage,  \* mBrightnessDimmingUsage
    DbmSupported,  \* mDbmSupported
    SdrDims,       \* whether frames may have dimmed SDR layers
    InstantHbm     \* whether frames may ask for instant HBM

Off == -1

ASSUME BrightnessAssumption ==
    /\ Brightness \subseteq (Nat \ {0}) \union {Off} /\ Peak \in Brightness \ {Off}
    /\ HbmFrom \in Nat \ {0}
    /\ DimmingUsage \in {"NORMAL", "HBM", "NONE"}
    /\ DbmSupported \in BOOLEAN
    /\ SdrDims \subseteq BOOLEAN /\ InstantHbm \subseteq BOOLEAN

VARIABLES
    bc,        \* what mBrightnessMutex guards
    poll,      \* the values of commits that a write waits for, if not yet checked:
               \* mPendingGhbmStatus, mPendingLhbmStatus and mPendingBl
    looper,    \* the dimming thread has made mDimmingLooper
    offMsg,    \* MSG_DIMMING_OFF: none, queued, or not sent for want of the looper
    setter,    \* the writes of the node that are under way
    sensor,    \* where setLhbmState is
    power,     \* mPowerModeState
    clearing,  \* where clearDisplay is, after a frame or in setPowerOff
    commit,    \* the properties of the commit in flight
    panel,     \* what the panel shows
    lost       \* history: what the controller and the panel may disagree about

brightnessVars ==
    <<bc, poll, looper, offMsg, setter, sensor, power, clearing, commit, panel, lost>>
callers == <<setter, sensor, power, clearing>>

Threads == {"composer", "service"}
Writers == Threads \union {"clear"}
NoLevel == -1
NoWrite == [pc |-> "idle", flush |-> FALSE, level |-> 0]

NoCommit == [inFlight |-> FALSE, level |-> NoLevel, adj |-> FALSE, ghbm |-> "none", lhbm |-> "none"]

-----------------------------------------------------------------------------
(* Mutant: a change that waits is not replaced by a newer one.             *)
StoreIfClean(c, x) == IF c.dirty \/ c.v = x THEN c ELSE [v |-> x, dirty |-> TRUE]

(* CtrlValue: a value is dirty until the change has been handed over.      *)
Store(c, x) == IF c.v = x THEN c ELSE [v |-> x, dirty |-> TRUE]
Clean(x) == [v |-> x, dirty |-> FALSE]

IsHbm(b) == b >= HbmFrom

(* queryBrightness: the level of a request; 0 for off, 1 for the dim mode. *)
LowestLevel == 2
LevelOf(s, b) ==
    IF b = Off THEN 0
    ELSE IF DbmSupported /\ s.dim /\ ~IsHbm(b) /\ b + 1 = LowestLevel THEN 1 ELSE b + 1

Wanted(s) == IF s.instant THEN Peak ELSE s.req
WantedHbm(s) ==
    IF ~IsHbm(Wanted(s)) THEN "OFF" ELSE IF s.enhance THEN "ON_IRC_OFF" ELSE "ON_IRC_ON"

(* HBM dimming starts with a change of the HBM mode.                       *)
StartsDimming(s) ==
    /\ DimmingUsage = "HBM"
    /\ s.ghbm.dirty \/ s.ghbm.v # WantedHbm(s)
    /\ ~s.instant /\ ~s.sdr /\ ~s.prevSdr

(* updateStates: from the requests to the states of the next commit.       *)
UpdateStates(s) ==
    [s EXCEPT !.level = Store(@, LevelOf(s, Wanted(s))),
              !.lhbm = Store(@, s.lhbmReq),
              !.ghbm = Store(@, WantedHbm(s)),
              !.hbmDimming = @ \/ StartsDimming(s),
              !.reqDirty = FALSE]

(* What updateStates does besides: the next write of the node shall wait   *)
(* for the HBM modes, and dimming shall end, if its looper is there.       *)
PollFor(s) ==
    [poll EXCEPT !.ghbm = IF s.ghbm.dirty THEN s.ghbm.v ELSE @,
                 !.lhbm = IF ~s.lhbm.dirty THEN @ ELSE IF s.lhbm.v THEN "on" ELSE "off"]
SendOff(starts) == offMsg' = IF ~starts THEN offMsg ELSE IF looper THEN "queued" ELSE "unsent"
Updated(s) ==
    /\ bc' = UpdateStates(s)
    /\ poll' = PollFor(bc')
    /\ SendOff(StartsDimming(s))

BrightnessInit ==
    /\ bc = [enhance |-> FALSE, lhbmReq |-> FALSE, req |-> Off, reqDirty |-> TRUE,
             instant |-> FALSE, sdr |-> FALSE, prevSdr |-> FALSE, dim |-> FALSE,
             level |-> Clean(0), ghbm |-> Clean("OFF"), lhbm |-> Clean(FALSE),
             hbmDimming |-> FALSE, adj |-> FALSE]
    /\ poll = [ghbm |-> "none", lhbm |-> "none", level |-> NoLevel] /\ commit = NoCommit
    /\ looper = FALSE /\ offMsg = "none" /\ lost = {}
    /\ setter = [t \in Writers |-> NoWrite]
    /\ sensor = "idle" /\ power = "ON" /\ clearing = "no"
    /\ panel = [level |-> 0, adj |-> FALSE, ghbm |-> "OFF", lhbm |-> FALSE]

-----------------------------------------------------------------------------
(* Setting the brightness                                                  *)

(* The decision between the two paths: the commit for a change of the HBM  *)
(* mode and for a caller that presents a frame next, the node otherwise.   *)
ByCommit(s, b, waitPresent) == (s.ghbm.v # "OFF") # IsHbm(b) \/ waitPresent

ComposerIsFree == setter["composer"].pc = "idle" /\ clearing \notin {"clear", "cleared"}

(* processDisplayBrightness, the part under the mutex.  The composer of    *)
(* hwc3 presents next, the service does not.                               *)
SetBrightness(t, b) ==
    /\ setter[t].pc = "idle" /\ (t = "composer" => ComposerIsFree) /\ ~(b = bc.req /\ ~bc.reqDirty)
    /\ LET s == [bc EXCEPT !.level.dirty = @ \/ bc.reqDirty, !.req = b, !.reqDirty = TRUE] IN
       IF ByCommit(bc, b, t = "composer")
       THEN Updated(s) /\ UNCHANGED setter
       ELSE /\ bc' = [s EXCEPT !.reqDirty = FALSE]
            /\ setter' = [setter EXCEPT ![t] = [pc |-> "poll", flush |-> FALSE, level |-> LevelOf(bc, b)]]
            /\ UNCHANGED <<poll, offMsg>>
    /\ UNCHANGED <<looper, sensor, power, clearing, commit, panel>>

(* applyPendingChangeViaSysfs: a brightness that came without a frame.     *)
FlushBrightness ==
    /\ ComposerIsFree
    /\ bc.level.dirty /\ ~bc.ghbm.dirty /\ ~bc.lhbm.dirty
    /\ setter' = [setter EXCEPT !["composer"] = [pc |-> "poll", flush |-> TRUE, level |-> bc.level.v]]
    /\ UNCHANGED <<bc, poll, looper, offMsg, sensor, power, clearing, commit, panel>>

(* Mutant: a flush does not wait for the level of the last commit.         *)
PollHbmOnly(t) ==
    /\ setter[t].pc = "poll"
    /\ poll' = IF setter[t].flush THEN [poll EXCEPT !.level = NoLevel]
               ELSE [poll EXCEPT !.ghbm = "none", !.lhbm = "none"]
    /\ setter' = [setter EXCEPT ![t].pc = "write"]
    /\ UNCHANGED <<bc, looper, offMsg, sensor, power, clearing, commit, panel>>

(* checkSysfsStatus before a write: until the panel has the values of the  *)
(* last commit.  The time-out of five vsyncs is longer than a commit, so   *)
(* the poll fails only when nothing is in flight.                          *)
PollPanel(t) ==
    /\ setter[t].pc = "poll"
    /\ IF setter[t].flush
       THEN /\ poll.level \in {NoLevel, panel.level} \/ ~commit.inFlight
            /\ poll' = [poll EXCEPT !.level = NoLevel]
       ELSE /\ \/ /\ poll.ghbm \in {"none", panel.ghbm}
                  /\ poll.lhbm \in {"none", IF panel.lhbm THEN "on" ELSE "off"}
               \/ ~commit.inFlight
            /\ poll' = [poll EXCEPT !.ghbm = "none", !.lhbm = "none"]
    /\ setter' = [setter EXCEPT ![t].pc = "write"]
    /\ UNCHANGED <<bc, looper, offMsg, sensor, power, clearing, commit, panel>>

(* applyBrightnessViaSysfs: the write, without the mutex ...               *)
WriteNode(t) ==
    /\ setter[t].pc = "write"
    /\ panel' = [panel EXCEPT !.level = setter[t].level, !.adj = FALSE]
    /\ setter' = [setter EXCEPT ![t].pc = "record"]
    /\ UNCHANGED <<bc, poll, looper, offMsg, sensor, power, clearing, commit>>

WriteFails(t) ==
    /\ setter[t].pc = "write"
    /\ setter' = [setter EXCEPT ![t] = NoWrite]
    /\ UNCHANGED <<bc, poll, looper, offMsg, sensor, power, clearing, commit, panel>>

(* ... and the record of it.                                               *)
RecordWrite(t) ==
    /\ setter[t].pc = "record"
    /\ bc' = [bc EXCEPT !.level = Clean(setter[t].level)]
    /\ setter' = [setter EXCEPT ![t] = NoWrite]
    /\ UNCHANGED <<poll, looper, offMsg, sensor, power, clearing, commit, panel>>

-----------------------------------------------------------------------------
(* The other requests; each updates the states under the mutex.            *)

EnhancedHbm ==
    /\ Updated([bc EXCEPT !.enhance = ~@])
    /\ UNCHANGED <<looper, callers, commit, panel>>

DimBrightness ==  \* the bit is read only where the dim mode is supported
    /\ Updated([bc EXCEPT !.dim = DbmSupported /\ ~@])
    /\ UNCHANGED <<looper, callers, commit, panel>>

(* The dimming thread, which the constructor starts, makes its looper.     *)
DimmingThreadStarts ==
    /\ ~looper /\ looper' = TRUE
    /\ UNCHANGED <<bc, poll, offMsg, callers, commit, panel>>

(* Mutant: no message when the update starts dimming again.                *)
DimmingOffForGood ==
    /\ offMsg = "queued" /\ offMsg' = "none"
    /\ IF bc.hbmDimming
       THEN bc' = UpdateStates([bc EXCEPT !.hbmDimming = FALSE]) /\ poll' = PollFor(bc')
       ELSE UNCHANGED <<bc, poll>>
    /\ UNCHANGED <<looper, callers, commit, panel>>

(* processDimmingOff, called with MSG_DIMMING_OFF.                         *)
DimmingOff ==
    /\ offMsg = "queued"
    /\ LET s == [bc EXCEPT !.hbmDimming = FALSE] IN
       IF bc.hbmDimming
       THEN /\ bc' = UpdateStates(s) /\ poll' = PollFor(bc')
            /\ offMsg' = IF StartsDimming(s) THEN "queued" ELSE "none"
       ELSE offMsg' = "none" /\ UNCHANGED <<bc, poll>>
    /\ UNCHANGED <<looper, callers, commit, panel>>

(* processLocalHbm: an enabling request goes to the kernel in any case,    *)
(* because the kernel's timer may have disabled local HBM.                 *)
LocalHbm(on) ==
    LET s == [bc EXCEPT !.lhbmReq = on, !.lhbm.dirty = @ \/ on] IN
    IF on \/ bc.lhbmReq # on THEN Updated(s) ELSE UNCHANGED <<bc, poll, offMsg>>

(* updateBrightnessState of a frame: updateFrameStates, processInstantHbm. *)
ValidateFrame(sdr, instant) ==
    /\ ComposerIsFree /\ clearing = "no"
    /\ <<sdr, instant>> # <<bc.sdr, bc.instant>> \/ bc.prevSdr # bc.sdr
    /\ LET s == [bc EXCEPT !.prevSdr = bc.sdr, !.sdr = sdr]
           changed == s.sdr # bc.sdr \/ s.prevSdr # bc.prevSdr
           t == IF changed THEN UpdateStates(s) ELSE s
           u == [t EXCEPT !.instant = instant]
       IN  /\ bc' = IF instant # bc.instant THEN UpdateStates(u) ELSE t
           /\ poll' = IF changed \/ instant # bc.instant THEN PollFor(bc') ELSE poll
           /\ SendOff(\/ changed /\ StartsDimming(s)
                      \/ instant # bc.instant /\ StartsDimming(u))
    /\ UNCHANGED <<looper, callers, commit, panel>>

-----------------------------------------------------------------------------
(* The commit                                                              *)

(* The properties prepareFrameCommit adds.  Local HBM may come with a      *)
(* level of its own, which is undone when it goes off.                     *)
CommitLevel(s, adjusted) ==
    IF s.lhbm.dirty /\ (s.adj \/ adjusted)
    THEN IF adjusted THEN Peak + 2 ELSE s.level.v
    ELSE IF s.level.dirty THEN s.level.v ELSE NoLevel

(* prepareFrameCommit: what the commit takes is no longer dirty.           *)
MayPresent(adjusted) ==
    /\ power = "ON" /\ clearing = "no" /\ ComposerIsFree /\ ~commit.inFlight
    /\ adjusted => bc.lhbm.dirty /\ bc.lhbm.v
PrepareFrameCommit(adjusted) ==
    /\ poll' = [poll EXCEPT !.level = IF CommitLevel(bc, adjusted) = NoLevel THEN @ ELSE CommitLevel(bc, adjusted)]
    /\ bc' = [bc EXCEPT !.lhbm.dirty = FALSE, !.level.dirty = FALSE, !.ghbm.dirty = FALSE,
                        !.adj = IF bc.lhbm.dirty THEN bc.lhbm.v /\ (@ \/ adjusted) ELSE @]

(* The frame's commit, which takes effect later.  One is in flight at a    *)
(* time.                                                                   *)
PresentFrame(adjusted) ==
    /\ MayPresent(adjusted) /\ PrepareFrameCommit(adjusted)
    /\ commit' = [inFlight |-> TRUE, level |-> CommitLevel(bc, adjusted), adj |-> adjusted,
                  ghbm |-> IF bc.ghbm.dirty THEN bc.ghbm.v ELSE "none",
                  lhbm |-> IF ~bc.lhbm.dirty THEN "none" ELSE IF bc.lhbm.v THEN "on" ELSE "off"]
    /\ UNCHANGED <<looper, offMsg, callers, panel>>

(* The commit is refused: the frame is cleared.                            *)
PresentFails(adjusted) ==
    /\ MayPresent(adjusted) /\ PrepareFrameCommit(adjusted)
    /\ clearing' = "clear"
    /\ UNCHANGED <<looper, offMsg, setter, sensor, power, commit, panel>>

(* The kernel: a commit takes effect; a timer of the kernel ends local HBM. *)
CommitDone ==
    /\ commit.inFlight /\ commit' = NoCommit
    /\ panel' = [level |-> IF commit.level = NoLevel THEN panel.level ELSE commit.level,
                 adj |-> IF commit.level = NoLevel THEN panel.adj ELSE commit.adj,
                 ghbm |-> IF commit.ghbm = "none" THEN panel.ghbm ELSE commit.ghbm,
                 lhbm |-> IF commit.lhbm = "none" THEN panel.lhbm ELSE commit.lhbm = "on"]
    /\ UNCHANGED <<bc, poll, looper, offMsg, callers>>

LhbmTimeout ==
    /\ panel.lhbm /\ panel' = [panel EXCEPT !.lhbm = FALSE]
    /\ UNCHANGED <<bc, poll, looper, offMsg, callers, commit>>

-----------------------------------------------------------------------------
(* Local HBM: setLhbmState                                                 *)

otherThanSensor == <<looper, setter, power, clearing, commit, panel>>

(* The wait for the power, and the test of the node.                       *)
SetLhbmState(on) ==
    /\ sensor = "idle" /\ power = "ON" /\ (on \/ panel.lhbm)
    /\ sensor' = IF ~on THEN "disable" ELSE IF panel.lhbm THEN "reenable" ELSE "enable"
    /\ UNCHANGED <<bc, poll, offMsg, otherThanSensor>>

RequestLhbm ==
    /\ sensor \in {"enable", "reenable", "disable"}
    /\ LocalHbm(sensor # "disable")
    /\ sensor' = CASE sensor = "enable" -> "waitOn"
                   [] OTHER -> "idle"  \* a poll follows, whose result changes nothing
    /\ UNCHANGED <<otherThanSensor>>

(* The node has the value, or the poll times out.                          *)
LhbmEnabled ==
    /\ sensor = "waitOn"
    /\ sensor' = IF panel.lhbm THEN "idle" ELSE "failed"
    /\ UNCHANGED <<bc, poll, offMsg, otherThanSensor>>

(* resetLhbmState *)
ResetLhbm(s) == [s EXCEPT !.lhbmReq = FALSE, !.lhbm = Clean(FALSE), !.adj = FALSE]

(* A failed request is withdrawn if the power went off meanwhile.          *)
LhbmFailed ==
    /\ sensor = "failed" /\ sensor' = "idle"
    /\ bc' = IF power = "OFF" THEN ResetLhbm(bc) ELSE bc
    /\ UNCHANGED <<poll, offMsg, otherThanSensor>>

-----------------------------------------------------------------------------
(* Power                                                                   *)

otherThanPower == <<poll, looper, offMsg, sensor>>

(* clearDisplay(false), after a frame without layers: the panel keeps its  *)
(* modes.                                                                  *)
ClearFrame ==
    /\ power = "ON" /\ clearing = "no" /\ ComposerIsFree /\ ~commit.inFlight
    /\ clearing' = "clear"
    /\ UNCHANGED <<otherThanPower, bc, setter, power, commit, panel>>

(* setPowerOff: clearDisplay(true) commits, and waits for the commit in    *)
(* flight.                                                                 *)
ClearDisplay ==
    /\ power # "OFF" /\ clearing = "no" /\ ~commit.inFlight
    /\ clearing' = "off"
    /\ panel' = [panel EXCEPT !.ghbm = "OFF", !.lhbm = FALSE]
    /\ UNCHANGED <<otherThanPower, bc, setter, power, commit>>

(* onClearDisplay: local and instant HBM are forgotten; a level that was   *)
(* not handed over is written.                                             *)
OnClearDisplay ==
    /\ clearing \in {"clear", "off"}
    /\ clearing' = IF clearing = "off" THEN "reset" ELSE "cleared"
    /\ bc' = [ResetLhbm(bc) EXCEPT !.instant = FALSE]
    /\ setter' = IF ~bc.level.dirty THEN setter
                 ELSE [setter EXCEPT !["clear"] = [pc |-> "write", flush |-> FALSE, level |-> bc.level.v]]
    /\ UNCHANGED <<otherThanPower, power, commit, panel>>

FrameCleared ==
    /\ clearing = "cleared" /\ setter["clear"].pc = "idle" /\ clearing' = "no"
    /\ UNCHANGED <<otherThanPower, bc, setter, power, commit, panel>>

(* onClearDisplay(true) resets the rest.                                   *)
ResetStates ==
    /\ clearing = "reset" /\ setter["clear"].pc = "idle" /\ clearing' = "done"
    /\ bc' = [bc EXCEPT !.enhance = FALSE, !.req = Off, !.reqDirty = FALSE,
                        !.level = Clean(0), !.ghbm = Clean("OFF"), !.hbmDimming = FALSE]
    /\ UNCHANGED <<otherThanPower, setter, power, commit, panel>>

PowerOff ==
    /\ clearing = "done" /\ clearing' = "no"
    /\ power' = "OFF"
    /\ UNCHANGED <<otherThanPower, bc, setter, commit, panel>>

(* setPowerDoze: the kernel disables local HBM on its own.                 *)
PowerDoze ==
    /\ power # "DOZE" /\ clearing = "no" /\ ~commit.inFlight
    /\ power' = "DOZE"
    /\ panel' = [panel EXCEPT !.lhbm = FALSE]
    /\ bc' = ResetLhbm(bc)
    /\ UNCHANGED <<otherThanPower, setter, clearing, commit>>

PowerOn ==
    /\ power # "ON" /\ clearing = "no"
    /\ power' = "ON"
    /\ UNCHANGED <<otherThanPower, bc, setter, clearing, commit, panel>>

-----------------------------------------------------------------------------
(* What is lost, and found again                                           *)

Idle == \A t \in Writers : setter[t].pc = "idle"

(* The states follow from the requests, and the panel from the states.     *)
LevelAgrees ==
    /\ ~bc.instant => bc.level.v = LevelOf(bc, bc.req)
    /\ bc.level.dirty \/ panel.adj \/ panel.level = bc.level.v
HbmAgrees ==
    /\ bc.ghbm.v = WantedHbm(bc)
    /\ bc.ghbm.dirty \/ panel.ghbm = bc.ghbm.v
LhbmAgrees == bc.lhbm.dirty \/ ~panel.lhbm \/ bc.lhbm.v

(* A write of the node is overtaken: the level, or what it follows from,   *)
(* changes or another write begins before it is recorded, or a commit with *)
(* a level takes effect after it.  A flush waits for that commit, unless   *)
(* the panel looks as if it had taken effect.                              *)
Asked(s) == <<s.level, s.req, s.instant, s.dim>>
Overtakes ==
    \/ ~Idle /\ ~Idle' /\ Asked(bc') # Asked(bc)
    \/ \E t, u \in Writers : t # u /\ setter'[t].pc # "idle" /\ setter'[u].pc # "idle"
    \/ \E t \in Writers : /\ setter'[t].pc \in {"write", "record"} /\ commit'.level # NoLevel
                          /\ setter'[t].flush => commit'.level = panel'.level

(* What was lost is found when all agree again with nothing on its way.    *)
Loses(parts) ==
    LET found == IF Idle' /\ ~commit'.inFlight
                 THEN (IF LevelAgrees' THEN {"level"} ELSE {}) \union
                      (IF HbmAgrees' THEN {"ghbm"} ELSE {}) \union (IF LhbmAgrees' THEN {"lhbm"} ELSE {})
                 ELSE {} IN
    lost' = (lost \ found) \union parts \union (IF Overtakes THEN {"level"} ELSE {})

(* What a refused commit had taken.                                        *)
Refused(adjusted) ==
    (IF CommitLevel(bc, adjusted) # NoLevel THEN {"level"} ELSE {}) \union
    (IF bc.ghbm.dirty THEN {"ghbm"} ELSE {}) \union (IF bc.lhbm.dirty THEN {"lhbm"} ELSE {})

(* A cleared frame forgets HBM that stays on in the panel.                 *)
Forgotten ==
    IF clearing = "off" THEN {}
    ELSE (IF bc.instant THEN {"level", "ghbm"} ELSE {}) \union (IF panel.lhbm THEN {"lhbm"} ELSE {})

-----------------------------------------------------------------------------
Request ==
    \/ \E t \in Threads, b \in Brightness : SetBrightness(t, b)
    \/ FlushBrightness \/ \E t \in Threads : PollPanel(t)
    \/ \E t \in Writers : WriteNode(t) \/ RecordWrite(t)
    \/ EnhancedHbm \/ DimBrightness \/ DimmingThreadStarts \/ DimmingOff
    \/ \E on \in BOOLEAN : SetLhbmState(on)
    \/ RequestLhbm \/ LhbmEnabled \/ LhbmFailed

Frame ==
    \/ \E sdr \in SdrDims, instant \in InstantHbm : ValidateFrame(sdr, instant)
    \/ \E adjusted \in BOOLEAN : PresentFrame(adjusted)
    \/ CommitDone \/ LhbmTimeout

Power ==
    ClearFrame \/ FrameCleared \/ ClearDisplay \/ ResetStates \/ PowerOff \/ PowerDoze \/ PowerOn

BrightnessNext ==
    \/ (Request \/ Frame \/ Power) /\ Loses({})
    \/ \E t \in Writers : WriteFails(t) /\ Loses({"level"})
    \/ \E adjusted \in BOOLEAN : PresentFails(adjusted) /\ Loses(Refused(adjusted))
    \/ OnClearDisplay /\ Loses(Forgotten)

BrightnessSpec == BrightnessInit /\ [][BrightnessNext]_brightnessVars

-----------------------------------------------------------------------------
(* When nothing is on its way to the panel, the panel has the HBM mode,    *)
(* the level and no more local HBM than the requests of all threads add up *)
(* to, whichever of the two paths they took.  Only these are lost: a level *)
(* whose write failed or was overtaken, what a refused commit had taken,   *)
(* and HBM that a cleared frame forgets; each only until all agree again.  *)
(* A level that came with local HBM is set apart.                          *)
AtRest == Idle /\ ~commit.inFlight /\ power = "ON" /\ clearing = "no" /\ bc.req # Off

PanelFollowsRequests ==
    AtRest => /\ "ghbm" \notin lost => HbmAgrees
              /\ "lhbm" \notin lost => LhbmAgrees
              /\ "level" \notin lost => LevelAgrees

(* Panel dimming for a change of the HBM mode is always going to be turned *)
(* off: the message is queued as long as it is on, unless it could not be  *)
(* sent because the dimming thread was not yet there.                      *)
DimmingWillEnd == bc.hbmDimming => offMsg # "none"
=============================================================================
