----------------------------- MODULE FrameCycle -----------------------------
(***************************************************************************)
(* The frame of a display: ExynosDisplay::validateDisplay, accept and      *)
(* presentDisplay with the layers (ExynosLayer), the flag of geometry      *)
(* changes that all displays share (ExynosDevice), the gate of the         *)
(* resource assignment, the reuse of a client target whose layers did not  *)
(* change, and the composer (hwc3) that drives them for SurfaceFlinger.    *)
(*                                                                         *)
(* The result of the assignment is free: any layer may be composed by the  *)
(* display ("device") or by SurfaceFlinger into the client target          *)
(* ("client").  Memory-to-memory compositors are not part of this module.   *)
(*                                                                         *)
(* A layer's buffer is one of two handles, which SurfaceFlinger uses in    *)
(* turn, so that the same handle may come back with a new content; the     *)
(* handle is kept as its relation to the one recorded for the reuse of the *)
(* client target.  fresh[d] is the set of layers whose present content the *)
(* client target of d holds.                                               *)
(***************************************************************************)
EXTENDS Integers, FiniteSets

CONSTANTS
    Displays,
    Layers,
    DisplayOf,     \* the display of each layer
    Devices        \* the devices: the layers that SurfaceFlinger may create and those
                   \* that exist, exynosHWCControl.skipStaticLayers, and whether the
                   \* trusted UI may take the displays over

ASSUME FrameAssumption ==
    /\ DisplayOf \in [Layers -> Displays] /\ IsFiniteSet(Layers) /\ IsFiniteSet(Displays)
    /\ Devices \subseteq [may : SUBSET Layers, layers : SUBSET Layers, skipStatic : BOOLEAN, hasTui : BOOLEAN]
    /\ \A device \in Devices : device.layers \subseteq device.may

VARIABLES
    geometry,      \* ExynosDevice::mGeometryChanged is not 0
    disp,          \* per display: mRenderingState, power, what decides on skipping the
                   \* client composition, the client target, the fences held
    layer,         \* per layer: mExynosCompositionType as told and as validated, fences
    flinger,       \* what SurfaceFlinger does on each display
    fresh,         \* the layers whose present content a client target holds
    fds,           \* how many fences the HWC has open
    device,        \* the device, chosen at first, with the layers of now
    tui,           \* mIsInTUI: the trusted UI has the displays
    unassigned     \* history: displays that changed after their last assignment

frameVars == <<geometry, disp, layer, flinger, fresh, fds, device, tui, unassigned>>

Shown == device.layers
Plugged == {DisplayOf[l] : l \in device.may}
LayersOf(d) == {l \in Shown : DisplayOf[l] = d}
Type == {"client", "device"}

One(b) == IF b THEN 1 ELSE 0
Num(S) == Cardinality(S)

(* A layer after createLayer and its first setLayerBuffer.                 *)
NewLayer ==
    [type |-> "device", valid |-> "none", acquire |-> TRUE, release |-> FALSE]

FrameInit ==
    /\ geometry = TRUE /\ device \in Devices /\ tui = FALSE
    /\ fds = 2 * Num(Shown) /\ unassigned = Displays
    /\ disp = [d \in Displays |->
         [rendering |-> "NONE", power |-> TRUE, skipFrame |-> FALSE, enableSkip |-> TRUE,
          skipInit |-> FALSE, skip |-> FALSE, source |-> [l \in Layers |-> "none"],
          target |-> "none", targetFence |-> FALSE, retire |-> FALSE]]
    /\ layer = [l \in Layers |-> NewLayer]
    /\ flinger = [d \in Displays |-> "idle"]
    /\ fresh = [d \in Displays |-> {}]

-----------------------------------------------------------------------------
SetGeometry(D) == geometry' = TRUE /\ unassigned' = unassigned \union D

On(d) == disp[d].power
ClientLayers(d) == {l \in LayersOf(d) : layer[l].valid = "client"}

(* getLayerCompositionTypeForValidationType: the layers of a client target *)
(* that is reused count as the display's.                                  *)
Reported(d, l) ==
    IF layer[l].valid = "client" /\ disp[d].skip THEN "device" ELSE layer[l].valid

-----------------------------------------------------------------------------
(* SurfaceFlinger prepares a frame                                         *)

(* A layer that was recorded is not again as it was.                       *)
Moved(h) == IF h = "none" THEN "none" ELSE "moved"

(* setLayerDisplayFrame, setLayerTransform, setLayerBlendMode, ...: the    *)
(* layer no longer looks as the client target has it, nor as the recorded  *)
(* source says.                                                            *)
SetLayerGeometry(l) ==
    /\ flinger[DisplayOf[l]] = "idle"
    /\ SetGeometry({DisplayOf[l]})
    /\ disp' = [disp EXCEPT ![DisplayOf[l]].source[l] = Moved(@)]
    /\ fresh' = [fresh EXCEPT ![DisplayOf[l]] = @ \ {l}]
    /\ UNCHANGED <<layer, flinger, fds, device, tui>>

(* createLayer and the first buffer of the layer, with its fence.          *)
CreateLayer(l) ==
    /\ flinger[DisplayOf[l]] = "idle" /\ l \notin Shown
    /\ SetGeometry({DisplayOf[l]})
    /\ device' = [device EXCEPT !.layers = @ \union {l}]
    /\ layer' = [layer EXCEPT ![l] = NewLayer]
    /\ fds' = fds + 2
    /\ UNCHANGED <<disp, flinger, fresh, tui>>

(* destroyLayer: the layer's destructor closes its fences.                 *)
DestroyLayer(l) ==
    /\ flinger[DisplayOf[l]] = "idle" /\ l \in Shown
    /\ SetGeometry({DisplayOf[l]})
    /\ device' = [device EXCEPT !.layers = @ \ {l}]
    /\ layer' = [layer EXCEPT ![l] = NewLayer]
    /\ disp' = [disp EXCEPT ![DisplayOf[l]].source[l] = Moved(@)]
    /\ fresh' = [fresh EXCEPT ![DisplayOf[l]] = @ \ {l}]
    /\ fds' = fds - 1 - One(layer[l].acquire)
    /\ UNCHANGED <<flinger, tui>>

(* setLayerBuffer: a new content with a new fence.  The layer also keeps a *)
(* duplicate of the fence for frames that come without a new buffer.       *)
SetLayerBuffer(r) == [r EXCEPT !.acquire = TRUE, !.release = FALSE]
Swap(h) == CASE h = "same" -> "other" [] h = "other" -> "same" [] OTHER -> h

(* The commands of a frame: new buffers, setLayerCompositionType, then     *)
(* presentOrValidateDisplay, which validates without a try if the display  *)
(* must be validated (mustValidateDisplay).                                *)
BeginFrame(d, posted, types, next) ==
    /\ flinger[d] = "idle" /\ On(d)
    /\ IF \E l \in LayersOf(d) : layer[l].type # types[l]
       THEN SetGeometry({d}) ELSE UNCHANGED <<geometry, unassigned>>
    /\ layer' = [l \in Layers |->
         IF l \notin LayersOf(d) THEN layer[l]
         ELSE LET r == IF l \in posted THEN SetLayerBuffer(layer[l]) ELSE layer[l] IN
              [r EXCEPT !.type = types[l]]]
    /\ disp' = [disp EXCEPT ![d].source = [l \in Layers |-> IF l \in posted THEN Swap(@[l]) ELSE @[l]]]
    /\ fds' = fds + Num({l \in posted : ~layer[l].acquire})
    /\ fresh' = [fresh EXCEPT ![d] = @ \ posted]
    /\ flinger' = [flinger EXCEPT ![d] = next]
    /\ UNCHANGED <<device, tui>>

-----------------------------------------------------------------------------
(* validateDisplay                                                         *)

(* setSrcAcquireFence: a layer without a new fence takes a duplicate.      *)
Taken(d) == Num({l \in LayersOf(d) : ~layer[l].acquire})

(* assignResource: the types of the layers are chosen again when anything  *)
(* changed on any display.  A layer that SurfaceFlinger composes stays so. *)
Assignments(d) ==
    IF ~geometry THEN {[l \in LayersOf(d) |-> layer[l].valid]}
    ELSE {a \in [LayersOf(d) -> Type] :
            \A l \in LayersOf(d) : layer[l].type = "client" => a[l] = "client"}

(* isLastValidate: every other display that is on waits for its present.   *)
IsLastValidate(d) ==
    \A e \in Plugged \ {d} : On(e) => disp[e].rendering \in {"VALIDATED", "ACCEPTED"}

(* Mutant: the buffers are not compared.                                   *)
SameLayers(r, clients) == {l \in Layers : r.source[l] # "none"} = clients

(* skipStaticLayers: the client target of the last frame can be shown      *)
(* again if it has the same layers with the same buffers.                  *)
SameSource(r, clients) == r.source = [l \in Layers |-> IF l \in clients THEN "same" ELSE "none"]

SkipStaticLayers(r, clients) ==
    IF ~device.skipStatic \/ ~r.enableSkip \/ clients = {}
    THEN [r EXCEPT !.skip = FALSE, !.skipInit = FALSE]
    ELSE IF r.skipInit
    THEN LET same == SameSource(r, clients) IN [r EXCEPT !.skip = same, !.skipInit = same]
    ELSE [r EXCEPT !.skip = FALSE, !.skipInit = TRUE,
                   !.source = [l \in Layers |-> IF l \in clients THEN "same" ELSE "none"]]

(* doPreProcessing: no reuse while SurfaceFlinger composes a layer itself. *)
EnableSkip(d) == \A l \in LayersOf(d) : layer[l].type # "client"

(* A failed assignment leaves everything to the client target and makes    *)
(* sure that the next frame is assigned again.                             *)
ValidateDisplay(d, fails) ==
    /\ flinger[d] = "validate"
    /\ \E a \in Assignments(d) :
         LET types == IF fails THEN [l \in LayersOf(d) |-> "client"] ELSE a
             clients == {l \in LayersOf(d) : types[l] = "client"}
             r == [disp[d] EXCEPT !.enableSkip = EnableSkip(d), !.rendering = "VALIDATED",
                                  !.skipFrame = FALSE]
             s == IF fails THEN [r EXCEPT !.skip = FALSE, !.skipInit = FALSE]
                           ELSE SkipStaticLayers(r, clients) IN
         /\ disp' = [disp EXCEPT ![d] = s]
         /\ layer' = [l \in Layers |-> IF l \in LayersOf(d)
                                       THEN [layer[l] EXCEPT !.acquire = TRUE, !.valid = types[l]] ELSE layer[l]]
         /\ flinger' = [flinger EXCEPT ![d] =
              IF clients # {} \/ \E l \in LayersOf(d) : types[l] # layer[l].type
              THEN "compose" ELSE "present"]
    /\ geometry' = (fails \/ (geometry /\ ~IsLastValidate(d)))
    /\ unassigned' = unassigned \ {d}
    /\ fds' = fds + Taken(d)
    /\ UNCHANGED <<fresh, device, tui>>

(* acceptDisplayChanges and, if SurfaceFlinger then composes layers, the   *)
(* client target with the fence of its rendering (setClientTarget).        *)
AcceptDisplayChanges(d) ==
    /\ flinger[d] = "compose" /\ disp[d].rendering = "VALIDATED"
    /\ LET types == [l \in LayersOf(d) |-> Reported(d, l)]
           clients == {l \in LayersOf(d) : types[l] = "client"} IN
       /\ layer' = [l \in Layers |-> IF l \in LayersOf(d)
                      THEN [layer[l] EXCEPT !.type = types[l]] ELSE layer[l]]
       /\ disp' = [disp EXCEPT ![d].rendering = "ACCEPTED", ![d].target = IF clients = {} THEN @ ELSE "new",
                               ![d].targetFence = (@ \/ clients # {})]
       /\ fresh' = IF clients = {} THEN fresh ELSE [fresh EXCEPT ![d] = clients]
       /\ fds' = fds + One(clients # {} /\ ~disp[d].targetFence)
    /\ flinger' = [flinger EXCEPT ![d] = "present"]
    /\ UNCHANGED <<geometry, device, tui, unassigned>>

-----------------------------------------------------------------------------
(* presentDisplay                                                          *)

(* HalImpl::presentDisplay accepts first if SurfaceFlinger did not.        *)
Accepted(d) ==
    disp[d].rendering # "VALIDATED"
Presents(d) == flinger[d] \in {"try", "present"} /\ Accepted(d)
HalAccepts(d) ==
    /\ flinger[d] \in {"try", "present"} /\ ~Accepted(d)
    /\ layer' = [l \in Layers |-> IF l \in LayersOf(d)
                   THEN [layer[l] EXCEPT !.type = Reported(d, l)] ELSE layer[l]]
    /\ disp' = [disp EXCEPT ![d].rendering = "ACCEPTED"]
    /\ UNCHANGED <<geometry, flinger, fresh, fds, device, tui, unassigned>>

Acquired(d) == {l \in LayersOf(d) : layer[l].acquire}
Released(d) == {l \in LayersOf(d) : layer[l].release}
WithoutFences(d) ==
    [l \in Layers |-> IF l \in LayersOf(d)
                      THEN [layer[l] EXCEPT !.acquire = FALSE, !.release = FALSE] ELSE layer[l]]

EndOfTry(d, presented) ==
    flinger' = [flinger EXCEPT ![d] = IF presented \/ @ = "present" THEN "idle" ELSE "validate"]

(* A frame while the trusted UI shows: closeFencesForSkipFrame.            *)
PresentDropped(d) ==
    /\ Presents(d) /\ tui
    /\ layer' = [l \in Layers |-> IF l \in LayersOf(d) THEN [layer[l] EXCEPT !.acquire = FALSE] ELSE layer[l]]
    /\ disp' = [disp EXCEPT ![d].rendering = "PRESENTED", ![d].targetFence = FALSE]
    /\ fds' = fds - Num(Acquired(d)) - One(disp[d].targetFence)
    /\ EndOfTry(d, TRUE)
    /\ UNCHANGED <<geometry, fresh, device, tui, unassigned>>

(* The first frames after the power was off, up to the next validate.      *)
PresentSkipFrame(d) ==
    /\ Presents(d) /\ ~tui /\ disp[d].skipFrame
    /\ layer' = WithoutFences(d)
    /\ disp' = [disp EXCEPT ![d].rendering = "PRESENTED", ![d].targetFence = FALSE]
    /\ fds' = fds - Num(Acquired(d)) - One(disp[d].targetFence)
    /\ SetGeometry({d})
    /\ EndOfTry(d, disp[d].rendering = "NONE")
    /\ UNCHANGED <<fresh, device, tui>>

(* ExynosDevice::canSkipValidate asks every display that is on.            *)
CanSkipValidate ==
    \A d \in Plugged : On(d) =>
        /\ disp[d].rendering # "NONE" /\ ~geometry
        /\ \A l \in LayersOf(d) : Reported(d, l) # "client"
        /\ (disp[d].skipInit /\ disp[d].skip) => SameSource(disp[d], ClientLayers(d))
        /\ ClientLayers(d) # {} => disp[d].target # "none"

Validated(d) == disp[d].rendering = "ACCEPTED"

PresentNotValidated(d) ==
    /\ Presents(d) /\ ~tui /\ ~disp[d].skipFrame /\ ~Validated(d) /\ ~CanSkipValidate
    /\ disp' = [e \in Displays |-> [disp[e] EXCEPT
                  !.enableSkip = IF On(e) THEN EnableSkip(e) ELSE @,
                  !.rendering = IF e = d THEN "NONE" ELSE @]]
    /\ EndOfTry(d, FALSE)
    /\ UNCHANGED <<geometry, layer, fresh, fds, device, tui, unassigned>>

Composable(d) ==
    /\ Presents(d) /\ ~tui /\ ~disp[d].skipFrame
    /\ Validated(d) \/ CanSkipValidate

(* handleStaticLayers: a reused client target must be the last one.        *)
TargetChanged(d) ==
    ClientLayers(d) # {} /\ disp[d].skip /\ disp[d].target # "shown"

(* setReleaseFences: the driver returns a retire fence and a release fence *)
(* for each window, one window a layer of the display and one for the      *)
(* client target, whose fence is duplicated for its layers and closed with *)
(* the acquire fences.  SurfaceFlinger gets the retire fence.              *)
SetReleaseFences(d) ==
    Num(LayersOf(d)) - Num(Acquired(d)) - One(disp[d].targetFence)

(* A frame reaches the panel.  The copy of the last retire fence is        *)
(* replaced by one of the new.                                             *)
PresentFrame(d) ==
    /\ Composable(d) /\ LayersOf(d) # {} /\ ~TargetChanged(d)
    /\ fds' = fds + SetReleaseFences(d) + 1 - One(disp[d].retire)
    /\ layer' = [l \in Layers |-> IF l \in LayersOf(d)
                   THEN [layer[l] EXCEPT !.acquire = FALSE, !.release = TRUE] ELSE layer[l]]
    /\ disp' = [disp EXCEPT ![d].rendering = "PRESENTED", ![d].targetFence = FALSE, ![d].retire = TRUE,
                            ![d].target = IF ClientLayers(d) # {} /\ ~disp[d].skip THEN "shown" ELSE @]
    /\ flinger' = [flinger EXCEPT ![d] = "fences"]
    /\ UNCHANGED <<geometry, fresh, device, tui, unassigned>>

(* A display without layers is cleared; SurfaceFlinger gets no fence.      *)
PresentNoLayers(d) ==
    /\ Composable(d) /\ LayersOf(d) = {}
    /\ fds' = fds - One(disp[d].retire)
    /\ disp' = [disp EXCEPT ![d].rendering = "PRESENTED", ![d].retire = FALSE,
                            ![d].skipInit = FALSE, ![d].skip = FALSE]
    /\ EndOfTry(d, TRUE)
    /\ UNCHANGED <<geometry, layer, fresh, device, tui, unassigned>>

(* getReleaseFences, which the composer calls after each present.          *)
GetReleaseFences(d) ==
    /\ flinger[d] = "fences"
    /\ fds' = fds - Num(Released(d))
    /\ layer' = [l \in Layers |-> IF l \in LayersOf(d) THEN [layer[l] EXCEPT !.release = FALSE] ELSE layer[l]]
    /\ flinger' = [flinger EXCEPT ![d] = "idle"]
    /\ UNCHANGED <<geometry, disp, fresh, device, tui, unassigned>>

(* Mutant: the fence of the client target is forgotten.                    *)
CloseLayerFences(d) ==
    /\ fds' = fds - Num(Acquired(d)) - Num(Released(d)) - One(disp[d].retire)
    /\ layer' = WithoutFences(d)

(* closeFences, on any error of a present.                                 *)
CloseFences(d) ==
    /\ fds' = fds - Num(Acquired(d)) - Num(Released(d)) - One(disp[d].targetFence) - One(disp[d].retire)
    /\ layer' = WithoutFences(d)

(* The error of handleStaticLayers: the next frame will be assigned.       *)
PresentFails(d) ==
    /\ Composable(d) /\ TargetChanged(d)
    /\ CloseFences(d)
    /\ disp' = [disp EXCEPT ![d].rendering = "PRESENTED", ![d].targetFence = FALSE,
                            ![d].retire = FALSE, ![d].skipInit = FALSE]
    /\ SetGeometry({d})
    /\ EndOfTry(d, FALSE)
    /\ UNCHANGED <<fresh, device, tui>>

(* The error of the driver: the display is cleared, with it the reuse of   *)
(* the client target.                                                      *)
CommitFails(d) ==
    /\ Composable(d) /\ LayersOf(d) # {} /\ ~TargetChanged(d)
    /\ CloseFences(d)
    /\ disp' = [disp EXCEPT ![d].rendering = "PRESENTED", ![d].targetFence = FALSE,
                            ![d].retire = FALSE, ![d].skipInit = FALSE, ![d].skip = FALSE,
                            ![d].target = IF ClientLayers(d) # {} /\ ~disp[d].skip THEN "shown" ELSE @]
    /\ EndOfTry(d, FALSE)
    /\ UNCHANGED <<geometry, fresh, device, tui, unassigned>>

-----------------------------------------------------------------------------
(* Power, the trusted UI and the death of the client                       *)

(* setPowerOff, between two frames of SurfaceFlinger's main thread.        *)
PowerOff(d) ==
    /\ On(d) /\ flinger[d] = "idle"
    /\ LET inFrame == disp[d].rendering \in {"VALIDATED", "ACCEPTED"} IN
       /\ layer' = [l \in Layers |-> IF l \in LayersOf(d) /\ inFrame
                      THEN [layer[l] EXCEPT !.acquire = FALSE] ELSE layer[l]]
       /\ fds' = fds - One(disp[d].retire) - (IF inFrame THEN Num(Acquired(d)) ELSE 0)
    /\ disp' = [disp EXCEPT ![d].power = FALSE, ![d].rendering = "NONE", ![d].skipFrame = TRUE,
                            ![d].retire = FALSE, ![d].skipInit = FALSE, ![d].skip = FALSE]
    /\ SetGeometry({d})
    /\ UNCHANGED <<flinger, fresh, device, tui>>

PowerOn(d) ==
    /\ ~On(d) /\ disp' = [disp EXCEPT ![d].power = TRUE]
    /\ SetGeometry({d})
    /\ UNCHANGED <<layer, flinger, fresh, fds, device, tui>>

SwitchTui ==
    /\ device.hasTui /\ tui' = ~tui
    /\ UNCHANGED <<geometry, disp, layer, flinger, fresh, fds, device, unassigned>>

(* SurfaceFlinger dies: ~ComposerClient invalidates the client targets     *)
(* (cleanupAfterClientDeath), destroys the layers and validates, accepts   *)
(* and presents a frame without layers on each display.  The fence of a    *)
(* client target that was not presented stays for the successor's first.   *)
ClientDies ==
    /\ ~tui /\ \A d \in Plugged : On(d) /\ flinger[d] # "fences"
    /\ device' = [device EXCEPT !.layers = {}]
    /\ layer' = [l \in Layers |-> NewLayer]
    /\ disp' = [d \in Displays |-> IF d \notin Plugged THEN disp[d] ELSE [disp[d] EXCEPT
                  !.target = "none", !.skipInit = FALSE, !.skip = FALSE, !.enableSkip = TRUE,
                  !.skipFrame = FALSE, !.rendering = "PRESENTED", !.retire = FALSE]]
    /\ flinger' = [d \in Displays |-> "idle"]
    /\ fds' = fds - Num(Shown) - Num({l \in Shown : layer[l].acquire})
                  - Num({d \in Plugged : disp[d].retire})
    /\ geometry' \in BOOLEAN /\ unassigned' = unassigned \ Plugged
    /\ fresh' = [d \in Displays |-> {}]
    /\ UNCHANGED tui

-----------------------------------------------------------------------------
FrameNext ==
    \/ \E l \in Shown : SetLayerGeometry(l) \/ DestroyLayer(l)
    \/ \E l \in device.may : CreateLayer(l)
    \/ \E d \in Plugged :
         \/ \E posted \in SUBSET LayersOf(d), types \in [LayersOf(d) -> Type], next \in {"try", "validate"} :
              BeginFrame(d, posted, types, next)
         \/ \E fails \in BOOLEAN : ValidateDisplay(d, fails)
         \/ AcceptDisplayChanges(d) \/ HalAccepts(d)
         \/ PresentDropped(d) \/ PresentSkipFrame(d) \/ PresentNotValidated(d)
         \/ PresentFrame(d) \/ PresentNoLayers(d) \/ PresentFails(d) \/ CommitFails(d) \/ GetReleaseFences(d)
         \/ PowerOff(d) \/ PowerOn(d)
    \/ SwitchTui \/ ClientDies

FrameSpec == FrameInit /\ [][FrameNext]_frameVars

-----------------------------------------------------------------------------
(* Each fence the HWC has open belongs to exactly one holder: no path of a *)
(* frame, dropped, skipped, failed or presented, loses a fence or closes   *)
(* one twice.                                                              *)
EveryFenceHasOneOwner ==
    fds = Num(Shown) + Num({l \in Shown : layer[l].acquire})
          + Num({l \in Shown : layer[l].release}) + Num({d \in Displays : disp[d].targetFence})
          + Num({d \in Displays : disp[d].retire})

(* What a frame shows: each layer of the client target with the content it *)
(* has now, each other layer with the fence of its buffer, and each layer  *)
(* where SurfaceFlinger expects it.                                        *)
ShowsLatest(d) ==
    /\ disp[d].rendering # "NONE"
    /\ ClientLayers(d) # {} =>
         /\ disp[d].target # "none"
         /\ ~device.hasTui => ClientLayers(d) \subseteq fresh[d]
    /\ \A l \in LayersOf(d) :
         /\ Validated(d) => layer[l].acquire
         /\ layer[l].type = Reported(d, l)

(* A frame is presented, with or without validation, only if it shows the  *)
(* latest state of every layer, assigned after the last change of the      *)
(* display's geometry.                                                     *)
FramesShowLatest ==
    [][\A d \in Displays : PresentFrame(d) => ShowsLatest(d) /\ d \notin unassigned]_frameVars
=============================================================================
