---------------------------- MODULE WindowUpdate ----------------------------
(***************************************************************************)
(* The partial update of a display: SurfaceFlinger declares what changed   *)
(* in each layer's buffer, ExynosDisplay::handleWindowUpdate merges that   *)
(* into the region of the panel the next commit updates, and setupPartial- *)
(* Region puts the region into the commit.                                 *)
(*                                                                         *)
(* One dimension stands for both: the code treats x and y alike.  A rect   *)
(* is a pair <<l, r>> of the pixels l .. r - 1.  outdated is the set of    *)
(* the panel's pixels that no longer show their layers' contents.          *)
(***************************************************************************)
EXTENDS Integers, FiniteSets, FiniteSetsExt

CONSTANTS
    XRes,          \* mXres
    Windows,       \* the layers, each with a window of its own
    Shapes,        \* the display frames and source crops of a layer
    Damages        \* the damage SurfaceFlinger declares, a set of rects of the buffer

ASSUME UpdateAssumption ==
    /\ XRes \in Nat \ {0} /\ IsFiniteSet(Windows)
    /\ Shapes \subseteq [frame : Nat \X Nat, crop : Nat \X Nat]
    /\ \A s \in Shapes : s.frame[1] < s.frame[2] /\ s.frame[2] <= XRes /\ s.crop[1] < s.crop[2]
    /\ \A damage \in Damages : damage \subseteq Int \X Int /\ IsFiniteSet(damage)

VARIABLES
    win,           \* the layers: their shape, buffer and damage
    changedShape,  \* ExynosDisplay::mGeometryChanged
    composed,      \* how the layers were assigned
    lastConfig,    \* mLastDpuData
    updating,      \* a frame is prepared
    mSkipFrame,    \* the display went off since the last validateDisplay
    outdated,      \* the pixels of the panel to be updated
    forgotten      \* those of them that a frame without a trace should have updated

updateVars == <<win, changedShape, composed, lastConfig, updating, mSkipFrame, outdated, forgotten>>

Panel == 0 .. XRes - 1
Pixels(r) == r[1] .. r[2] - 1
Length(r) == r[2] - r[1]
Hull(S) == <<Min({r[1] : r \in S}), Max({r[2] : r \in S})>>
FullSize == <<0, XRes>>

(* Damage: no rect at all is an unknown change, an empty one is no change. *)
Unknown == {}
Nothing == {<<0, 0>>}

(* configureHandle: the window of a layer.                                 *)
ConfigureHandle(w) == [dst |-> w.shape.frame, src |-> w.shape.crop, fd |-> w.buffer, on |-> TRUE]
Disabled == [dst |-> <<0, 0>>, src |-> <<0, 0>>, fd |-> "a", on |-> FALSE]
NoConfigs == [i \in Windows |-> Disabled]

(* The pixels of the panel that show any of the buffer's pixels in S.      *)
ShownPixels(shape, S) ==
    {p \in Pixels(shape.frame) : \E s \in S \intersect Pixels(shape.crop) :
        /\ (s - shape.crop[1]) * Length(shape.frame) < (p + 1 - shape.frame[1]) * Length(shape.crop)
        /\ (s + 1 - shape.crop[1]) * Length(shape.frame) > (p - shape.frame[1]) * Length(shape.crop)}

ChangedBy(w) ==
    IF w.damage = Unknown THEN Pixels(w.shape.frame)
    ELSE ShownPixels(w.shape, UNION {Pixels(r) : r \in w.damage})

UpdateInit ==
    /\ win \in [Windows -> {[shape |-> s, buffer |-> "a", damage |-> Unknown] : s \in Shapes}]
    /\ changedShape = TRUE /\ composed \in {"windows", "target", "cursor"}
    /\ lastConfig = NoConfigs /\ updating = FALSE /\ mSkipFrame = FALSE
    /\ outdated = Panel /\ forgotten = {}

-----------------------------------------------------------------------------
(* handleWindowUpdate                                                      *)

(* windowUpdateExceptions: a client or G2D target, and scaled layers.  The *)
(* quotient is an integer's.                                               *)
Scaled(c) == Length(c.src) \div Length(c.dst) # 1
Exceptions(configs) == composed = "target" \/ \E i \in Windows : Scaled(configs[i])

ValidRect(w, r) == /\ r[1] >= 0 /\ r[2] >= 0 /\ r[1] < r[2]
                   /\ Length(r) <= Length(w.shape.crop)

(* getLayerRegion by damage: "full", "skip" or "partial".                  *)
RegionKind(w) ==
    CASE w.damage = Unknown -> "full"
      [] w.damage = Nothing -> "skip"
      [] OTHER -> IF \A r \in w.damage : ValidRect(w, r) THEN "partial" ELSE "full"

NotNegative(n) == IF n < 0 THEN 0 ELSE n

(* Mutant: the damage is not moved to where the layer is shown.            *)
UnmovedRegion(w) == Hull(w.damage)

(* The damage of the buffer where the layer is shown.                      *)
LayerRegion(w) ==
    LET moved(x) == NotNegative(w.shape.frame[1] + x - w.shape.crop[1]) IN
    Hull({<<moved(r[1]), moved(r[2])>> : r \in w.damage})

(* checkConfigDstChanged                                                   *)
ContentChanged(old, new) == old.on # new.on \/ old.fd # new.fd
PositionChanged(old, new) == old.dst # new.dst \/ old.src # new.src

(* The parts of the panel that a layer's change makes the commit update.   *)
RegionsOf(i, configs) ==
    CASE RegionKind(win[i]) = "partial" -> {LayerRegion(win[i])}
      [] RegionKind(win[i]) = "full"    -> {win[i].shape.frame}
      [] OTHER -> IF PositionChanged(lastConfig[i], configs[i])
                  THEN {win[i].shape.frame, lastConfig[i].dst} ELSE {}

(* The region is the whole panel if the geometry changed, for a cursor and *)
(* the exceptions, or if a layer without damage has another buffer.        *)
UpdateRegion(configs) ==
    LET regions == UNION {RegionsOf(i, configs) : i \in Windows}
        merged == Hull(regions) IN
    IF \/ changedShape \/ composed = "cursor" \/ Exceptions(configs)
       \/ \E i \in Windows : RegionKind(win[i]) = "skip" /\ ContentChanged(lastConfig[i], configs[i])
       \/ regions = {}
    THEN FullSize
    ELSE <<NotNegative(merged[1]), IF merged[2] > XRes THEN XRes ELSE merged[2]>>

-----------------------------------------------------------------------------
(* Mutant: a moved layer does not count as a change of the geometry.       *)
MoveOnly(i, shape) ==
    /\ win' = [win EXCEPT ![i].shape = shape, ![i].damage = Nothing]
    /\ outdated' = Panel /\ UNCHANGED changedShape

(* setLayerDisplayFrame, setLayerSourceCrop: a change of the geometry.     *)
MoveLayer(i, shape) ==
    /\ win' = [win EXCEPT ![i].shape = shape, ![i].damage = Nothing]
    /\ outdated' = Panel /\ changedShape' = TRUE

SetShape(i, shape) ==
    /\ ~updating /\ shape # win[i].shape /\ MoveLayer(i, shape)
    /\ UNCHANGED <<composed, lastConfig, updating, mSkipFrame, forgotten>>

(* setLayerBuffer and setLayerSurfaceDamage of the layers of a frame; a    *)
(* layer without a new content has no damage.  The layers are assigned     *)
(* again only after a change of the geometry (assignResource).             *)
PrepareFrame(damage, flips) ==
    /\ ~updating /\ updating' = TRUE /\ mSkipFrame' = FALSE
    /\ win' = [i \in Windows |-> [win[i] EXCEPT !.damage = damage[i],
                 !.buffer = IF i \notin flips THEN @ ELSE IF @ = "a" THEN "b" ELSE "a"]]
    /\ outdated' = outdated \union UNION {ChangedBy(win'[i]) : i \in Windows}
    /\ composed' \in (IF changedShape THEN {"windows", "target", "cursor"} ELSE {composed})
    /\ UNCHANGED <<changedShape, lastConfig, forgotten>>

Configs == [i \in Windows |-> ConfigureHandle(win[i])]

(* Mutant: the geometry of the next frame counts as unchanged.             *)
KeepAfterError == lastConfig' = NoConfigs /\ changedShape' = FALSE

(* The error path of presentDisplay: the next frame is drawn as a whole.   *)
AfterError == lastConfig' = NoConfigs /\ changedShape' = TRUE

(* clearDisplay: the panel goes black, or stays as it is on an error.      *)
ClearDisplay == lastConfig' = NoConfigs /\ outdated' \in {outdated, Panel}

Presents == updating /\ updating' = FALSE /\ UNCHANGED <<win, composed, mSkipFrame>>

(* setWinConfigData, handleWindowUpdate, deliverWinConfigData and          *)
(* doPostProcessing of a frame the driver takes.                           *)
PresentWindows ==
    /\ Presents /\ ~mSkipFrame
    /\ outdated' = outdated \ Pixels(UpdateRegion(Configs))
    /\ forgotten' = forgotten \ Pixels(UpdateRegion(Configs))
    /\ lastConfig' = Configs /\ changedShape' = FALSE

(* A frame that the driver does not take clears the display, and goes on   *)
(* to doPostProcessing as if it had been taken.                            *)
DeliveryFails ==
    /\ Presents /\ ~mSkipFrame /\ ClearDisplay
    /\ changedShape' = FALSE /\ forgotten' = outdated'

(* An error before the commit: the panel keeps the last frame.             *)
PresentFails ==
    /\ Presents /\ ~mSkipFrame /\ AfterError
    /\ UNCHANGED <<outdated, forgotten>>

(* The display went off after the frame was validated.                     *)
PresentSkipped ==
    /\ Presents /\ mSkipFrame /\ changedShape' = TRUE
    /\ UNCHANGED <<lastConfig, outdated, forgotten>>

(* The device is in the trusted user interface: the frame leaves nothing   *)
(* behind.  (A frame dropped for a paused display or during a change of    *)
(* the resolution finds changedShape set.)                                 *)
PresentDropped ==
    /\ Presents /\ forgotten' = IF changedShape THEN forgotten ELSE outdated
    /\ UNCHANGED <<changedShape, lastConfig, outdated>>

(* setPowerOff                                                             *)
PowerOff ==
    /\ ClearDisplay /\ changedShape' = TRUE /\ mSkipFrame' = TRUE
    /\ UNCHANGED <<win, composed, updating, forgotten>>

UpdateNext ==
    \/ \E i \in Windows, s \in Shapes : SetShape(i, s)
    \/ \E damage \in [Windows -> Damages], flips \in SUBSET Windows : PrepareFrame(damage, flips)
    \/ PresentWindows \/ DeliveryFails \/ PresentFails \/ PresentSkipped \/ PresentDropped \/ PowerOff

UpdateSpec == UpdateInit /\ [][UpdateNext]_updateVars

-----------------------------------------------------------------------------
(* What the integer quotient of windowUpdateExceptions relies on: a layer  *)
(* that it takes for unscaled is.  A layer shrunk by less than a half is   *)
(* not: its damage is moved without being scaled, and pixels that changed  *)
(* may be left out of the region.                                          *)
QuotientTells ==
    \A s \in Shapes : Length(s.crop) \div Length(s.frame) = 1 => Length(s.crop) = Length(s.frame)

(* After a frame every pixel of the panel shows what its layers have now:  *)
(* the partial region covers all that this frame changed, and what changed *)
(* in frames that failed on the way, that were skipped after the power was *)
(* off, or that moved layers.  The exception are pixels of frames dropped  *)
(* in the trusted user interface or refused by the driver: nothing keeps   *)
(* their damage, and they stay as they are until a later region has them.  *)
(* (Of layers for which QuotientTells.)                                    *)
PanelIsUpToDate == (~updating /\ ~changedShape) => outdated \subseteq forgotten
=============================================================================
