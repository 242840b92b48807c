--------------------------- MODULE CrtcBorrowing ---------------------------
(***************************************************************************)
(* The display controllers (crtcs) of a foldable device: while a built-in  *)
(* display is off, an external display borrows its crtc, as colours are    *)
(* managed on those only.  Crtcs change hands when the external display    *)
(* comes or goes (ExynosDevice::onHotPlug), when a built-in display goes   *)
(* on (ExynosPrimaryDisplay::setPowerMode) and when it goes off            *)
(* (ExynosDisplayDrmInterface::setPowerMode).                              *)
(*                                                                         *)
(* The thread of the hotplug holds the external display's mDisplayMutex,   *)
(* the power modes hold the built-in display's: nothing keeps the two      *)
(* apart, and the crtcs change hands between any two steps of either.      *)
(***************************************************************************)
EXTENDS Integers, FiniteSets

CONSTANTS
    Primaries,          \* built-in displays
    External,           \* the external display
    NoDisplay

ASSUME CrtcAssumption ==
    /\ Cardinality(Primaries) >= 2 /\ External \notin Primaries
    /\ NoDisplay \notin Primaries \union {External}

VARIABLES
    crtcs,      \* of: whose crtc each display has, from: mBorrowedCrtcFrom
    power,      \* mPowerModeState of each built-in display
    ext,        \* of the external display: hpd: mHpdStatus, on: mEnabled and mPowerModeState
    connector,  \* what the kernel says: connected, error: of the link training
    report,     \* onHotPlug: pc, status: its parameters, seen: the display it found
    waking,     \* the power change of a built-in display: who, pc
    raced       \* displays whose last power change and a hotplug overlapped

crtcVars == <<crtcs, power, ext, connector, report, waking, raced>>

NoChange == [who |-> NoDisplay, pc |-> "done"]
NoReport == [pc |-> "none", status |-> FALSE, seen |-> NoDisplay]

CrtcInit ==
    /\ crtcs = [of |-> [d \in Primaries \union {External} |-> d], from |-> NoDisplay]
    /\ power = [p \in Primaries |-> "unset"]
    /\ ext = [hpd |-> FALSE, on |-> FALSE]
    /\ connector = [connected |-> FALSE, error |-> FALSE]
    /\ report = NoReport /\ waking = NoChange /\ raced = {}

-----------------------------------------------------------------------------
(* swapCrtcs of the external display.                                      *)
Swapped(c, p) ==
    IF c.from \notin {NoDisplay, p} THEN c
    ELSE [of |-> [c.of EXCEPT ![External] = c.of[p], ![p] = c.of[External]],
          from |-> IF c.from = p THEN NoDisplay ELSE p]

\* Mutant: the display that powers on counts as off.
AnyPoweredOff(except) == {p \in Primaries : power[p] = "off"}

(* findPoweredOffPrimaryDisplay: one that is off, or none if none is.      *)
PoweredOff(except) == {p \in Primaries \ {except} : power[p] = "off"}

PoweredOffOr(except) ==
    IF PoweredOff(except) = {} THEN {NoDisplay} ELSE PoweredOff(except)

-----------------------------------------------------------------------------
(* The external display's power.  It is not powered down while the cable   *)
(* is connected; the call of the kernel may fail.                          *)
Enabled(e) == {e, [e EXCEPT !.on = (@ \/ e.hpd)]}
Disabled(e) == {e, [e EXCEPT !.on = (@ /\ e.hpd)]}

MutexIsFree == report.pc = "none"

SetExternalPower(on) ==
    /\ MutexIsFree /\ ext' \in IF on THEN Enabled(ext) ELSE Disabled(ext)
    /\ UNCHANGED <<crtcs, power, connector, report, waking, raced>>

-----------------------------------------------------------------------------
(* Hotplug.                                                                *)

ConnectorChanges(connected, error) ==
    /\ connector' = [connected |-> connected, error |-> error]
    /\ connector' # connector
    /\ UNCHANGED <<crtcs, power, ext, report, waking, raced>>

(* The status is the connector's; nothing is done unless it changed or     *)
(* there is an error to report.                                            *)
HandleHotplug ==
    /\ MutexIsFree
    /\ ext.hpd # connector.connected \/ connector.error
    /\ ext' \in IF connector.connected THEN {[ext EXCEPT !.hpd = TRUE]}
                ELSE {[hpd |-> FALSE, on |-> FALSE], [ext EXCEPT !.hpd = FALSE]}
    /\ report' = [NoReport EXCEPT !.pc = "read"]
    /\ raced' = raced \union ({waking.who} \ {NoDisplay})
    /\ UNCHANGED <<crtcs, power, connector, waking>>

(* onHotPlug reads mBorrowedCrtcFrom, returns that crtc, and, if the       *)
(* display has come, looks for one that is off and borrows its crtc.       *)
ReadBorrowed ==
    /\ report.pc = "read"
    /\ report' = [pc |-> "return", status |-> ext.hpd /\ ~connector.error, seen |-> crtcs.from]
    /\ connector' = [connector EXCEPT !.error = FALSE]
    /\ UNCHANGED <<crtcs, power, ext, waking, raced>>

SwapSeen == crtcs' = IF report.seen = NoDisplay THEN crtcs ELSE Swapped(crtcs, report.seen)

ReturnOnHotplug ==
    /\ report.pc = "return" /\ SwapSeen
    /\ report' = IF report.status THEN [report EXCEPT !.pc = "find"] ELSE NoReport
    /\ UNCHANGED <<power, ext, connector, waking, raced>>

FindPoweredOff ==
    /\ report.pc = "find"
    /\ \E p \in PoweredOffOr(NoDisplay) : report' = [report EXCEPT !.pc = "lend", !.seen = p]
    /\ UNCHANGED <<crtcs, power, ext, connector, waking, raced>>

LendOnHotplug ==
    /\ report.pc = "lend" /\ SwapSeen /\ report' = NoReport
    /\ UNCHANGED <<power, ext, connector, waking, raced>>

-----------------------------------------------------------------------------
(* The built-in displays' power.                                           *)

Starts(p, pc) ==
    /\ waking = NoChange /\ waking' = [who |-> p, pc |-> pc]
    /\ raced' = IF MutexIsFree THEN raced \ {p} ELSE raced \union {p}
    /\ UNCHANGED <<crtcs, power, ext, connector, report>>

From(pc, next) == waking.pc = pc /\ waking' = [waking EXCEPT !.pc = next]

(* A display that powers on takes its crtc back if it was borrowed; one    *)
(* that powers off lends its own if the external display is on and has     *)
(* borrowed none.                                                          *)
PowerOn(p) ==
    /\ power[p] # "on" /\ Starts(p, IF crtcs.from = p THEN "disable to return" ELSE "on")

PowerOff(p) ==
    /\ power[p] # "off"
    /\ Starts(p, IF ext.on /\ crtcs.from = NoDisplay THEN "disable to lend" ELSE "off")

(* The external display is off during the exchange; its power waits for    *)
(* its mutex.                                                              *)
DisableExternal ==
    /\ From("disable to return", "return") \/ From("disable to lend", "lend own")
    /\ MutexIsFree /\ ext' \in Disabled(ext)
    /\ UNCHANGED <<crtcs, power, connector, report, raced>>

TakeCrtcBack ==
    /\ From("return", "lend other") /\ crtcs' = Swapped(crtcs, waking.who)
    /\ UNCHANGED <<power, ext, connector, report, raced>>

LendOther ==
    /\ From("lend other", "enable, on")
    /\ \E p \in PoweredOffOr(waking.who) : crtcs' = IF p = NoDisplay THEN crtcs ELSE Swapped(crtcs, p)
    /\ UNCHANGED <<power, ext, connector, report, raced>>

LendOwn ==
    /\ From("lend own", "enable, off") /\ crtcs' = Swapped(crtcs, waking.who)
    /\ UNCHANGED <<power, ext, connector, report, raced>>

EnableExternal ==
    /\ From("enable, on", "on") \/ From("enable, off", "off")
    /\ MutexIsFree /\ ext' \in Enabled(ext)
    /\ UNCHANGED <<crtcs, power, connector, report, raced>>

PowerIsSet ==
    /\ waking.pc \in {"on", "off"} /\ waking' = NoChange
    /\ power' = [power EXCEPT ![waking.who] = waking.pc]
    /\ UNCHANGED <<crtcs, ext, connector, report, raced>>

(* A doze has no such step.                                                *)
PowerDoze(p) ==
    /\ power[p] # "doze" /\ waking = NoChange
    /\ power' = [power EXCEPT ![p] = "doze"]
    /\ UNCHANGED <<crtcs, ext, connector, report, waking, raced>>

-----------------------------------------------------------------------------
CrtcNext ==
    \/ \E on \in BOOLEAN : SetExternalPower(on)
    \/ \E connected, error \in BOOLEAN : ConnectorChanges(connected, error)
    \/ HandleHotplug \/ ReadBorrowed \/ ReturnOnHotplug \/ FindPoweredOff \/ LendOnHotplug
    \/ \E p \in Primaries : PowerOn(p) \/ PowerOff(p) \/ PowerDoze(p)
    \/ DisableExternal \/ TakeCrtcBack \/ LendOther \/ LendOwn \/ EnableExternal \/ PowerIsSet

CrtcSpec == CrtcInit /\ [][CrtcNext]_crtcVars

-----------------------------------------------------------------------------
HasOwnCrtc(p) == crtcs.of[p] = p

(* However the steps of hotplugs, failed link trainings and power changes  *)
(* interleave, the record of who lent a crtc says who has which one, and a *)
(* built-in display that is on has its own ("this will ensure primary      *)
(* displays remain on the same initially assigned decons"), unless a       *)
(* hotplug was handled while that display changed its power: such a        *)
(* display, and no other, may be on with the external display's crtc.      *)
CrtcsComeHome ==
    /\ crtcs.of = [d \in Primaries \union {External} |->
           CASE d = External /\ crtcs.from # NoDisplay -> crtcs.from
             [] d = crtcs.from -> External
             [] OTHER -> d]
    /\ \A p \in Primaries \ raced : power[p] = "on" /\ waking.who # p => HasOwnCrtc(p)
=============================================================================
