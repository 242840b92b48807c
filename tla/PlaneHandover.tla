---------------------------- MODULE PlaneHandover ----------------------------
(***************************************************************************)
(* Two built-in panels share the channels (ExynosMPP) and with them the    *)
(* planes of the display controller.  The resource manager reserves each   *)
(* channel for the main or the minor panel; which panels these are changes *)
(* when a panel goes on or off.  A panel that comes on while another is on *)
(* first clears the planes that will be its own (triggerClearDisplayPlanes)*)
(* and every commit disables the planes its panel does not use, unless     *)
(* they are reserved for the other panel.                                  *)
(***************************************************************************)
EXTENDS Naturals, FiniteSets

CONSTANTS
    Panels,             \* the built-in displays, two at most
    FirstPanel,         \* the one with the smallest mIndex
    Channels,
    ReservedTo,         \* mPreAssignDisplayInfo: "main" or "minor"
    NoPanel,
    DozeFromOff,        \* a panel that is off may go to doze
    FramesInterrupted   \* power changes come between the validation and the present
                        \* of a frame

ASSUME HandoverAssumption ==
    /\ FirstPanel \in Panels /\ IsFiniteSet(Panels) /\ Cardinality(Panels) <= 2
    /\ NoPanel \notin Panels
    /\ ReservedTo \in [Channels -> {"main", "minor"}]
    /\ {DozeFromOff, FramesInterrupted} \subseteq BOOLEAN

VARIABLES
    screen,      \* per panel: power, mRenderingState, the channels of its last assignment
    list,       \* per channel: mPreAssignDisplayList
    reserved,   \* per channel: mReservedDisplay
    plane,      \* per channel: the panel whose crtc its plane is on
    changed     \* mGeometryChanged: "power" and "other" flags

handoverVars == <<screen, list, reserved, plane, changed>>

HandoverInit ==
    /\ screen = [p \in Panels |-> [power |-> "unset", rendering |-> "NONE", used |-> {}]]
    /\ list = [c \in Channels |-> NoPanel]
    /\ reserved = [c \in Channels |-> NoPanel]
    /\ plane = [c \in Channels |-> NoPanel]
    /\ changed = {}

Powered(p) == screen[p].power \notin {"unset", "off"}
PoweredPanels == {p \in Panels : Powered(p)}

-----------------------------------------------------------------------------
(* decideMainAndMinorDisplay of the panels that are available.             *)
MainOf(available) == IF FirstPanel \in available THEN FirstPanel ELSE CHOOSE p \in available : TRUE
MinorOf(available) ==
    IF Cardinality(available) = 2 THEN CHOOSE p \in available : p # FirstPanel
    ELSE MainOf(available)

\* updatePreAssignDisplayList.
UpdatedList(available) ==
    IF available = {} THEN list
    ELSE [c \in Channels |->
            IF ReservedTo[c] = "main" THEN MainOf(available) ELSE MinorOf(available)]

(* prepareResources: the reservations start anew.  A channel is reserved   *)
(* for the panel of its list if that panel is on already: the one that is  *)
(* about to go on counts for the lists, but not here.                      *)
PrepareResources(available, update) ==
    LET new == IF update THEN UpdatedList(available) ELSE list IN
    /\ list' = new
    /\ reserved' = [c \in Channels |->
           IF new[c] # NoPanel /\ Powered(new[c]) THEN new[c] ELSE NoPanel]

\* The planes that a commit of p disables: clearDisplayPlanes with r reserved.
Cleared(p, r) == {c \in Channels : r[c] \in {p, NoPanel}}

-----------------------------------------------------------------------------
BetweenFrames(p) == screen[p].rendering # "VALIDATED"
MayChangePower == FramesInterrupted \/ \A p \in Panels : BetweenFrames(p)

FlagUnless(flag, condition) == IF condition THEN {} ELSE {flag}

\* Mutant: the planes stay with the panel that had them.
TriggerNothing(p, r) == plane

TriggerClearDisplayPlanes(p, r) ==
    [c \in Channels |-> IF c \in Cleared(p, r) THEN NoPanel ELSE plane[c]]

(* setPowerOn.  Only the first power-on of the first panel leaves the      *)
(* resources alone: the code relies on the first panel being the first to  *)
(* go on at all, as the framework does at boot.                            *)
SetPanelOn(p) ==
    LET others == PoweredPanels \ {p}
        first == p = FirstPanel /\ screen[p].power = "unset"
    IN
    /\ MayChangePower /\ screen[p].power # "on"
    /\ p = FirstPanel \/ screen[FirstPanel].power # "unset"
    /\ IF others # {} /\ ~first
       THEN /\ PrepareResources(PoweredPanels \cup {p}, TRUE)
            /\ plane' = TriggerClearDisplayPlanes(p, reserved')
       ELSE UNCHANGED <<list, reserved, plane>>
    /\ changed' = changed \cup FlagUnless("power", Powered(p))
    /\ screen' = [screen EXCEPT ![p].power = "on"]

\* setPowerOff, with clearDisplay.
SetPanelOff(p) ==
    /\ MayChangePower /\ Powered(p)
    /\ plane' = [c \in Channels |-> IF c \in Cleared(p, reserved) THEN NoPanel ELSE plane[c]]
    /\ changed' = changed \cup {"power"}
    /\ screen' = [screen EXCEPT ![p].power = "off", ![p].rendering = "NONE"]
    /\ UNCHANGED <<list, reserved>>

\* setPowerDoze: neither the resources nor the flags are touched.
SetPanelDoze(p) ==
    /\ MayChangePower
    /\ screen[p].power = "on" \/ (DozeFromOff /\ screen[p].power = "off")
    /\ screen' = [screen EXCEPT ![p].power = "doze"]
    /\ UNCHANGED <<list, reserved, plane, changed>>

-----------------------------------------------------------------------------
\* setGeometryChanged of a layer or display.
GeometryChanges ==
    /\ changed' = changed \cup {"other"}
    /\ UNCHANGED <<screen, list, reserved, plane>>

IsFirstValidate == \A p \in PoweredPanels : screen[p].rendering \in {"NONE", "PRESENTED"}
IsLastValidate(p) == \A q \in PoweredPanels \ {p} : screen[q].rendering = "VALIDATED"

(* The channels isAssignableState leaves to p: those reserved for it, and  *)
(* those that nobody has.                                                  *)
Assignable(p, r) ==
    {c \in Channels : r[c] = p \/ (r[c] = NoPanel /\ \A q \in Panels \ {p} :
                                     ~(screen[q].rendering = "VALIDATED" /\ c \in screen[q].used))}

(* validateDisplay with assignResource, which does nothing unless          *)
(* something changed.  The panel uses any of the channels it may have, one *)
(* at least.                                                               *)
ValidateScreen(p) ==
    /\ Powered(p) /\ BetweenFrames(p)
    /\ IF changed = {} /\ screen[p].rendering # "NONE"
       THEN /\ screen' = [screen EXCEPT ![p].rendering = "VALIDATED"]
            /\ UNCHANGED <<list, reserved, changed>>
       ELSE /\ IF IsFirstValidate THEN PrepareResources(PoweredPanels, "power" \in changed)
               ELSE UNCHANGED <<list, reserved>>
            /\ \E used \in SUBSET Assignable(p, reserved') :
                  /\ used # {} \/ Assignable(p, reserved') = {}
                  /\ screen' = [screen EXCEPT ![p].rendering = "VALIDATED", ![p].used = used]
            /\ changed' = IF IsLastValidate(p) THEN {} ELSE changed
    /\ UNCHANGED plane

\* deliverWinConfigData: the commit of the frame.
CommitScreen(p) ==
    plane' = [c \in Channels |-> IF c \in screen[p].used THEN p
                                 ELSE IF c \in Cleared(p, reserved) THEN NoPanel
                                 ELSE plane[c]]

PresentScreen(p) ==
    /\ Powered(p) /\ screen[p].rendering = "VALIDATED"
    /\ CommitScreen(p)
    /\ screen' = [screen EXCEPT ![p].rendering = "PRESENTED"]
    /\ UNCHANGED <<list, reserved, changed>>

\* presentDisplay without a validation (canSkipValidate of the device).
PresentAgain(p) ==
    /\ Powered(p) /\ BetweenFrames(p) /\ changed = {}
    /\ \A q \in PoweredPanels : screen[q].rendering # "NONE"
    /\ CommitScreen(p)
    /\ screen' = [screen EXCEPT ![p].rendering = "PRESENTED"]
    /\ UNCHANGED <<list, reserved, changed>>

HandoverNext ==
    \/ \E p \in Panels :
          SetPanelOn(p) \/ SetPanelOff(p) \/ SetPanelDoze(p)
          \/ ValidateScreen(p) \/ PresentScreen(p) \/ PresentAgain(p)
    \/ GeometryChanges

HandoverSpec == HandoverInit /\ [][HandoverNext]_handoverVars

-----------------------------------------------------------------------------
NoPlaneIsTaken ==
    \A c \in Channels : NoPanel \in {plane[c], plane'[c]} \/ plane'[c] = plane[c]

EveryPanelIsServed ==
    \A p \in Panels : screen[p].rendering = "VALIDATED" => screen[p].used # {}

(* No commit takes a plane that another panel shows something on: a plane  *)
(* that changes its panel is disabled in between.  And a panel whose frame *)
(* has been validated has a channel to show it on.                         *)
PlanesAreHandedOver == [][NoPlaneIsTaken /\ EveryPanelIsServed']_handoverVars
=============================================================================
