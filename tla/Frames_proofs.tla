---------------------------- MODULE Frames_proofs ----------------------------
(***************************************************************************)
(* What is proved of the frame of a display, for any displays and layers,  *)
(* and of the power hints that go with it.                                 *)
(***************************************************************************)
EXTENDS FrameCycle, PowerHints, FiniteSetTheorems, TLAPS

USE DEF frameVars

-----------------------------------------------------------------------------
(* Sizes of finite sets.                                                   *)

LEMMA NumWithout ==
  ASSUME NEW A, IsFiniteSet(A), NEW S
  PROVE  /\ IsFiniteSet(A \ S) /\ IsFiniteSet(A \cap S)
         /\ Num(A) \in Nat /\ Num(A \ S) \in Nat /\ Num(A \cap S) \in Nat
         /\ Num(A \ S) = Num(A) - Num(A \cap S)
BY FS_Difference, FS_CardinalityType, FS_Intersection DEF Num

LEMMA NumWith ==
  ASSUME NEW A, IsFiniteSet(A), NEW S, IsFiniteSet(S)
  PROVE  /\ IsFiniteSet(A \cup S) /\ Num(S \ A) \in Nat
         /\ Num(A \cup S) = Num(A) + Num(S \ A)
<1>1. A \cup S = A \cup (S \ A) /\ A \cap (S \ A) = {}
  OBVIOUS
<1>2. IsFiniteSet(S \ A)
  BY FS_Difference
<1>3. Cardinality(A \cup (S \ A)) = Cardinality(A) + Cardinality(S \ A) - Cardinality({})
  BY <1>1, <1>2, FS_Union
<1>4. Cardinality({}) = 0
  BY FS_EmptySet
<1> QED BY <1>1, <1>2, <1>3, <1>4, FS_Union, FS_CardinalityType DEF Num

\* A set that gains or loses one element, or does not.
LEMMA NumOne ==
  ASSUME NEW A, IsFiniteSet(A), NEW d
  PROVE  /\ Num(A) \in Nat
         /\ Num(A \cup {d}) = Num(A) + One(d \notin A)
         /\ Num(A \ {d}) = Num(A) - One(d \in A)
<1>1. CASE d \in A
  <2>1. A \cup {d} = A
    BY <1>1
  <2>2. Num(A \ {d}) = Num(A) - 1
    BY <1>1, FS_RemoveElement DEF Num
  <2>3. One(d \notin A) = 0 /\ One(d \in A) = 1
    BY <1>1 DEF One
  <2>4. Num(A) \in Nat
    BY FS_CardinalityType DEF Num
  <2>5. Num(A \cup {d}) = Num(A)
    BY <2>1, Zenon
  <2> QED BY <2>2, <2>3, <2>4, <2>5
<1>2. CASE d \notin A
  <2>1. A \ {d} = A
    BY <1>2
  <2> QED BY <1>2, <2>1, FS_AddElement, FS_CardinalityType DEF Num, One
<1> QED BY <1>1, <1>2

-----------------------------------------------------------------------------
LayerStatus == [type : {"none"} \cup Type, valid : {"none"} \cup Type, acquire : BOOLEAN, release : BOOLEAN]

DisplayStatus ==
  [rendering : {"NONE", "VALIDATED", "ACCEPTED", "PRESENTED"}, power : BOOLEAN,
   skipFrame : BOOLEAN, enableSkip : BOOLEAN, skipInit : BOOLEAN, skip : BOOLEAN,
   source : [Layers -> {"none", "same", "other", "moved"}], target : {"none", "new", "shown"},
   targetFence : BOOLEAN, retire : BOOLEAN]

DeviceStatus == [may : SUBSET Layers, layers : SUBSET Layers, skipStatic : BOOLEAN, hasTui : BOOLEAN]

FrameType ==
  /\ device \in DeviceStatus /\ device.layers \subseteq device.may
  /\ layer \in [Layers -> LayerStatus]
  /\ disp \in [Displays -> DisplayStatus]
  /\ flinger \in [Displays -> {"idle", "try", "validate", "compose", "present", "fences"}]

\* The layers and displays that hold a fence of each kind.
WithAcquire == {l \in Shown : layer[l].acquire}
WithRelease == {l \in Shown : layer[l].release}
WithTarget == {d \in Displays : disp[d].targetFence}
WithRetire == {d \in Displays : disp[d].retire}

(* Release fences are there only between a present and getReleaseFences.   *)
FencesInv ==
  /\ FrameType
  /\ \A l \in Shown : layer[l].release => flinger[DisplayOf[l]] = "fences"
  /\ fds = Num(Shown) + Num(WithAcquire) + Num(WithRelease) + Num(WithTarget) + Num(WithRetire)

LEMMA ShownFacts ==
  ASSUME FrameType
  PROVE  /\ Shown \subseteq Layers /\ IsFiniteSet(Shown) /\ Plugged \subseteq Displays
         /\ \A d : LayersOf(d) \subseteq Shown /\ IsFiniteSet(LayersOf(d))
         /\ IsFiniteSet(WithAcquire) /\ IsFiniteSet(WithRelease)
         /\ IsFiniteSet(WithTarget) /\ IsFiniteSet(WithRetire)
<1>1. Shown \subseteq Layers
  BY DEF FrameType, DeviceStatus, Shown
<1>2. Plugged \subseteq Displays
  BY FrameAssumption DEF Plugged, FrameType, DeviceStatus
<1>3. \A d : LayersOf(d) \subseteq Shown
  BY DEF LayersOf
<1>4. WithAcquire \subseteq Shown /\ WithRelease \subseteq Shown
      /\ WithTarget \subseteq Displays /\ WithRetire \subseteq Displays
  BY DEF WithAcquire, WithRelease, WithTarget, WithRetire
<1>5. IsFiniteSet(Shown)
  BY <1>1, FrameAssumption, FS_Subset
<1> QED BY <1>1, <1>2, <1>3, <1>4, <1>5, FrameAssumption, FS_Subset

(* What a step does to the number of layers with a fence.                  *)
LEMMA LayerBooks ==
  ASSUME FrameType, device' = device, NEW A \in SUBSET Shown
  PROVE  /\ (\A l \in Shown : layer'[l].acquire = (layer[l].acquire /\ l \notin A))
              => Num(WithAcquire)' = Num(WithAcquire) - Num(WithAcquire \cap A)
         /\ (\A l \in Shown : layer'[l].acquire = (layer[l].acquire \/ l \in A))
              => Num(WithAcquire)' = Num(WithAcquire) + Num(A \ WithAcquire)
         /\ (\A l \in Shown : layer'[l].release = (layer[l].release /\ l \notin A))
              => Num(WithRelease)' = Num(WithRelease) - Num(WithRelease \cap A)
         /\ (\A l \in Shown : layer'[l].release = (layer[l].release \/ l \in A))
              => Num(WithRelease)' = Num(WithRelease) + Num(A \ WithRelease)
<1>1. Shown' = Shown
  BY DEF Shown
<1>2. IsFiniteSet(WithAcquire) /\ IsFiniteSet(WithRelease) /\ IsFiniteSet(A)
  BY ShownFacts, FS_Subset
<1>3. ASSUME \A l \in Shown : layer'[l].acquire = (layer[l].acquire /\ l \notin A)
      PROVE  Num(WithAcquire)' = Num(WithAcquire) - Num(WithAcquire \cap A)
  <2>1. WithAcquire' = WithAcquire \ A
    BY <1>1, <1>3 DEF WithAcquire
  <2> QED BY <1>2, <2>1, NumWithout
<1>4. ASSUME \A l \in Shown : layer'[l].acquire = (layer[l].acquire \/ l \in A)
      PROVE  Num(WithAcquire)' = Num(WithAcquire) + Num(A \ WithAcquire)
  <2>1. WithAcquire' = WithAcquire \cup A
    BY <1>1, <1>4 DEF WithAcquire
  <2> QED BY <1>2, <2>1, NumWith
<1>5. ASSUME \A l \in Shown : layer'[l].release = (layer[l].release /\ l \notin A)
      PROVE  Num(WithRelease)' = Num(WithRelease) - Num(WithRelease \cap A)
  <2>1. WithRelease' = WithRelease \ A
    BY <1>1, <1>5 DEF WithRelease
  <2> QED BY <1>2, <2>1, NumWithout
<1>6. ASSUME \A l \in Shown : layer'[l].release = (layer[l].release \/ l \in A)
      PROVE  Num(WithRelease)' = Num(WithRelease) + Num(A \ WithRelease)
  <2>1. WithRelease' = WithRelease \cup A
    BY <1>1, <1>6 DEF WithRelease
  <2> QED BY <1>2, <2>1, NumWith
<1> QED BY <1>3, <1>4, <1>5, <1>6

(* What a step of display d does to the number of displays with a fence.   *)
LEMMA DisplayBooks ==
  ASSUME FrameType, NEW d \in Displays, disp' \in [Displays -> DisplayStatus],
         \A e \in Displays \ {d} : /\ disp'[e].targetFence = disp[e].targetFence
                                   /\ disp'[e].retire = disp[e].retire
  PROVE  /\ Num(WithTarget)' = Num(WithTarget) + One(disp'[d].targetFence) - One(disp[d].targetFence)
         /\ Num(WithRetire)' = Num(WithRetire) + One(disp'[d].retire) - One(disp[d].retire)
<1>1. /\ disp[d].targetFence \in BOOLEAN /\ disp[d].retire \in BOOLEAN
      /\ disp'[d].targetFence \in BOOLEAN /\ disp'[d].retire \in BOOLEAN
  BY DEF FrameType, DisplayStatus
<1>2. (d \in WithTarget <=> disp[d].targetFence) /\ (d \in WithRetire <=> disp[d].retire)
  BY DEF WithTarget, WithRetire
<1>3. WithTarget' = IF disp'[d].targetFence THEN WithTarget \cup {d} ELSE WithTarget \ {d}
  BY DEF WithTarget
<1>4. WithRetire' = IF disp'[d].retire THEN WithRetire \cup {d} ELSE WithRetire \ {d}
  BY DEF WithRetire
<1>5. IsFiniteSet(WithTarget) /\ IsFiniteSet(WithRetire)
  BY ShownFacts
<1>6. /\ Num(WithTarget) \in Nat
      /\ Num(WithTarget \cup {d}) = Num(WithTarget) + One(d \notin WithTarget)
      /\ Num(WithTarget \ {d}) = Num(WithTarget) - One(d \in WithTarget)
  BY <1>5, NumOne
<1>7. /\ Num(WithRetire) \in Nat
      /\ Num(WithRetire \cup {d}) = Num(WithRetire) + One(d \notin WithRetire)
      /\ Num(WithRetire \ {d}) = Num(WithRetire) - One(d \in WithRetire)
  BY <1>5, NumOne
<1>8. Num(WithTarget)' = Num(WithTarget) + One(disp'[d].targetFence) - One(disp[d].targetFence)
  <2>1. CASE disp'[d].targetFence
    BY <2>1, <1>1, <1>2, <1>3, <1>6 DEF One
  <2>2. CASE ~disp'[d].targetFence
    BY <2>2, <1>1, <1>2, <1>3, <1>6 DEF One
  <2> QED BY <2>1, <2>2
<1>9. Num(WithRetire)' = Num(WithRetire) + One(disp'[d].retire) - One(disp[d].retire)
  <2>1. CASE disp'[d].retire
    BY <2>1, <1>1, <1>2, <1>4, <1>7 DEF One
  <2>2. CASE ~disp'[d].retire
    BY <2>2, <1>1, <1>2, <1>4, <1>7 DEF One
  <2> QED BY <2>1, <2>2
<1> QED BY <1>8, <1>9

-----------------------------------------------------------------------------
(* The steps keep the types.                                               *)

LEMMA SkipStatus ==
  ASSUME NEW r \in DisplayStatus, NEW clients
  PROVE  SkipStaticLayers(r, clients) \in DisplayStatus
<1>1. [l \in Layers |-> IF l \in clients THEN "same" ELSE "none"] \in [Layers -> {"none", "same", "other", "moved"}]
  OBVIOUS
<1> DEFINE sources == [l \in Layers |-> IF l \in clients THEN "same" ELSE "none"]
<1> HIDE DEF sources
<1>2. [r EXCEPT !.skip = FALSE, !.skipInit = FALSE] \in DisplayStatus
  BY DEF DisplayStatus
<1>3. ASSUME NEW same \in BOOLEAN PROVE [r EXCEPT !.skip = same, !.skipInit = same] \in DisplayStatus
  BY DEF DisplayStatus
<1>4. [r EXCEPT !.skip = FALSE, !.skipInit = TRUE, !.source = sources] \in DisplayStatus
  BY <1>1 DEF DisplayStatus, sources
<1>5. SameSource(r, clients) \in BOOLEAN
  BY DEF SameSource
<1> QED BY <1>2, <1>3, <1>4, <1>5 DEF SkipStaticLayers, sources

(* A layer that moves, or goes, is no longer as it was recorded.           *)
MovedIn(l) == disp' = [disp EXCEPT ![DisplayOf[l]].source[l] = Moved(@)]

LEMMA MovedType ==
  ASSUME FrameType, NEW l \in Layers, MovedIn(l)
  PROVE  /\ disp' \in [Displays -> DisplayStatus]
         /\ \A e \in Displays : disp'[e].targetFence = disp[e].targetFence /\ disp'[e].retire = disp[e].retire
<1> DEFINE d == DisplayOf[l]
           sources == [disp[d].source EXCEPT ![l] = Moved(@)]
           r == [disp[d] EXCEPT !.source = sources]
<1>1. d \in Displays /\ disp[d] \in DisplayStatus
  BY FrameAssumption DEF FrameType
<1>2. sources \in [Layers -> {"none", "same", "other", "moved"}]
  BY <1>1 DEF DisplayStatus, Moved
<1>3. disp' = [disp EXCEPT ![d] = r]
  BY DEF MovedIn
<1> HIDE DEF d, sources
<1>4. r \in DisplayStatus /\ r.targetFence = disp[d].targetFence /\ r.retire = disp[d].retire
  BY <1>1, <1>2 DEF DisplayStatus
<1> HIDE DEF r
<1> QED BY <1>1, <1>3, <1>4 DEF FrameType

LEMMA GeometryType ==
  ASSUME FrameType, NEW l \in Shown, SetLayerGeometry(l)
  PROVE  FrameType'
<1>1. l \in Layers /\ MovedIn(l)
  BY ShownFacts DEF SetLayerGeometry, MovedIn
<1>2. disp' \in [Displays -> DisplayStatus]
  BY <1>1, MovedType
<1> QED BY <1>2 DEF FrameType, SetLayerGeometry

LEMMA BeginType ==
  ASSUME FrameType, NEW d \in Displays, NEW posted, NEW types \in [LayersOf(d) -> Type],
         NEW next \in {"try", "validate"}, BeginFrame(d, posted, types, next)
  PROVE  FrameType'
<1>1. ASSUME NEW l \in Layers PROVE layer'[l] \in LayerStatus
  <2>1. layer[l] \in LayerStatus
    BY DEF FrameType
  <2>2. SetLayerBuffer(layer[l]) \in LayerStatus
    BY <2>1 DEF SetLayerBuffer, LayerStatus
  <2>3. CASE l \in LayersOf(d)
    <3>1. \A r \in LayerStatus : [r EXCEPT !.type = types[l]] \in LayerStatus
      BY <2>3 DEF LayerStatus
    <3> QED BY <2>1, <2>2, <2>3, <3>1 DEF BeginFrame
  <2>4. CASE l \notin LayersOf(d)
    BY <2>1, <2>4 DEF BeginFrame
  <2> QED BY <2>3, <2>4
<1>2. layer' \in [Layers -> LayerStatus]
  BY <1>1 DEF BeginFrame
<1>3. disp' \in [Displays -> DisplayStatus]
  <2> DEFINE sources == [l \in Layers |-> IF l \in posted THEN Swap(disp[d].source[l]) ELSE disp[d].source[l]]
  <2>1. disp[d] \in DisplayStatus
    BY DEF FrameType
  <2>2. sources \in [Layers -> {"none", "same", "other", "moved"}]
    BY <2>1 DEF DisplayStatus, Swap
  <2>3. disp' = [disp EXCEPT ![d].source = sources]
    BY DEF BeginFrame
  <2> HIDE DEF sources
  <2>4. [disp[d] EXCEPT !.source = sources] \in DisplayStatus
    BY <2>1, <2>2 DEF DisplayStatus
  <2> QED BY <2>3, <2>4 DEF FrameType
<1> QED BY <1>2, <1>3 DEF FrameType, BeginFrame

LEMMA ValidateType ==
  ASSUME FrameType, NEW d \in Displays, NEW fails \in BOOLEAN, ValidateDisplay(d, fails)
  PROVE  FrameType'
<1>1. PICK a \in Assignments(d) :
        LET types == IF fails THEN [l \in LayersOf(d) |-> "client"] ELSE a
            clients == {l \in LayersOf(d) : types[l] = "client"}
            r == [disp[d] EXCEPT !.enableSkip = EnableSkip(d), !.rendering = "VALIDATED",
                                 !.skipFrame = FALSE]
            s == IF fails THEN [r EXCEPT !.skip = FALSE, !.skipInit = FALSE]
                          ELSE SkipStaticLayers(r, clients) IN
        /\ disp' = [disp EXCEPT ![d] = s]
        /\ layer' = [l \in Layers |-> IF l \in LayersOf(d)
                                      THEN [layer[l] EXCEPT !.acquire = TRUE, !.valid = types[l]] ELSE layer[l]]
        /\ flinger' = [flinger EXCEPT ![d] =
              IF clients # {} \/ \E l \in LayersOf(d) : types[l] # layer[l].type
              THEN "compose" ELSE "present"]
  BY DEF ValidateDisplay
<1> DEFINE types == IF fails THEN [l \in LayersOf(d) |-> "client"] ELSE a
           clients == {l \in LayersOf(d) : types[l] = "client"}
           r == [disp[d] EXCEPT !.enableSkip = EnableSkip(d), !.rendering = "VALIDATED",
                                !.skipFrame = FALSE]
           s == IF fails THEN [r EXCEPT !.skip = FALSE, !.skipInit = FALSE] ELSE SkipStaticLayers(r, clients)
<1>2. \A l \in LayersOf(d) : types[l] \in {"none"} \cup Type
  BY ShownFacts DEF Assignments, Type, FrameType, LayerStatus
<1>3. /\ disp' = [disp EXCEPT ![d] = s]
      /\ layer' = [l \in Layers |-> IF l \in LayersOf(d)
                                    THEN [layer[l] EXCEPT !.acquire = TRUE, !.valid = types[l]] ELSE layer[l]]
      /\ flinger' \in [Displays -> {"idle", "try", "validate", "compose", "present", "fences"}]
  BY <1>1 DEF FrameType
<1> HIDE DEF types, clients
<1>4. layer' \in [Layers -> LayerStatus]
  <2>1. \A l \in Layers : layer[l] \in LayerStatus
    BY DEF FrameType
  <2>2. \A l \in Layers : layer'[l] \in LayerStatus
    BY <1>2, <1>3, <2>1 DEF LayerStatus
  <2> QED BY <1>3, <2>2
<1>5. s \in DisplayStatus
  <2>1. r \in DisplayStatus
    <3>1. EnableSkip(d) \in BOOLEAN
      BY DEF EnableSkip
    <3>2. disp[d] \in DisplayStatus
      BY DEF FrameType
    <3>3. \A b \in BOOLEAN : [disp[d] EXCEPT !.enableSkip = b, !.rendering = "VALIDATED",
                                            !.skipFrame = FALSE] \in DisplayStatus
      BY <3>2 DEF DisplayStatus
    <3> QED BY <3>1, <3>3
  <2> HIDE DEF r
  <2>2. [r EXCEPT !.skip = FALSE, !.skipInit = FALSE] \in DisplayStatus
    BY <2>1 DEF DisplayStatus
  <2> QED BY <2>1, <2>2, SkipStatus DEF s
<1> HIDE DEF s
<1> QED BY <1>3, <1>4, <1>5 DEF FrameType, ValidateDisplay

(* The layers of d change as f says, the display itself as r.              *)
LEMMA StepType ==
  ASSUME FrameType, NEW d \in Displays, NEW r \in DisplayStatus, disp' = [disp EXCEPT ![d] = r],
         layer' \in [Layers -> LayerStatus],
         NEW at \in {"idle", "try", "validate", "compose", "present", "fences"},
         flinger' = [flinger EXCEPT ![d] = at], device' = device
  PROVE  FrameType'
BY DEF FrameType

-----------------------------------------------------------------------------
(* The steps keep the books.                                               *)

(* The books are balanced if the step opens and closes as many fences as   *)
(* layers and displays gain and lose.                                      *)
LEMMA Books ==
  ASSUME FencesInv, FrameType', device' = device,
         \A l \in Shown : layer'[l].release => flinger'[DisplayOf[l]] = "fences",
         fds' = fds + (Num(WithAcquire)' - Num(WithAcquire)) + (Num(WithRelease)' - Num(WithRelease))
                    + (Num(WithTarget)' - Num(WithTarget)) + (Num(WithRetire)' - Num(WithRetire))
  PROVE  FencesInv'
<1>1. Shown' = Shown
  BY DEF Shown
<1>2. /\ Num(Shown) \in Nat /\ Num(WithAcquire) \in Nat /\ Num(WithRelease) \in Nat
      /\ Num(WithTarget) \in Nat /\ Num(WithRetire) \in Nat
  BY ShownFacts, FS_CardinalityType DEF Num, FencesInv
<1>3. FrameType' => /\ Num(WithAcquire)' \in Nat /\ Num(WithRelease)' \in Nat
                    /\ Num(WithTarget)' \in Nat /\ Num(WithRetire)' \in Nat
  <2>1. /\ IsFiniteSet(Shown') /\ IsFiniteSet(Displays)
        /\ WithAcquire' \subseteq Shown' /\ WithRelease' \subseteq Shown'
        /\ WithTarget' \subseteq Displays /\ WithRetire' \subseteq Displays
    BY <1>1, ShownFacts, FrameAssumption DEF WithAcquire, WithRelease, WithTarget, WithRetire, FencesInv
  <2> QED BY <2>1, FS_Subset, FS_CardinalityType DEF Num
<1> QED BY <1>1, <1>2, <1>3 DEF FencesInv

LEMMA EmptyNum == Num({}) = 0 /\ \A S : S \cap {} = {} /\ {} \ S = {}
BY FS_EmptySet DEF Num

(* A step that leaves the fences alone.                                    *)
LEMMA SameBooks ==
  ASSUME FencesInv, FrameType', device' = device, fds' = fds,
         \A l \in Shown : layer'[l].acquire = layer[l].acquire /\ layer'[l].release = layer[l].release,
         \A d \in Displays : disp'[d].targetFence = disp[d].targetFence /\ disp'[d].retire = disp[d].retire,
         \A l \in Shown : layer[l].release => flinger'[DisplayOf[l]] = "fences"
  PROVE  FencesInv'
<1>1. Shown' = Shown
  BY DEF Shown
<1>2. /\ WithAcquire' = WithAcquire /\ WithRelease' = WithRelease
      /\ WithTarget' = WithTarget /\ WithRetire' = WithRetire
  BY <1>1 DEF WithAcquire, WithRelease, WithTarget, WithRetire
<1> QED BY <1>1, <1>2 DEF FencesInv

\* What a step of d may ask about its layers.
LEMMA OwnLayers ==
  ASSUME FencesInv, NEW d \in Displays
  PROVE  /\ LayersOf(d) \in SUBSET Shown /\ IsFiniteSet(LayersOf(d))
         /\ \A l \in Shown : l \in LayersOf(d) <=> DisplayOf[l] = d
         /\ Acquired(d) = WithAcquire \cap LayersOf(d)
         /\ Released(d) = WithRelease \cap LayersOf(d)
         /\ flinger[d] # "fences" => Released(d) = {}
         /\ flinger[d] # "fences" => \A l \in LayersOf(d) : layer[l].release = FALSE
<1>1. /\ LayersOf(d) \in SUBSET Shown /\ IsFiniteSet(LayersOf(d))
      /\ \A l \in Shown : l \in LayersOf(d) <=> DisplayOf[l] = d
      /\ Acquired(d) = WithAcquire \cap LayersOf(d)
      /\ Released(d) = WithRelease \cap LayersOf(d)
  BY ShownFacts DEF FencesInv, LayersOf, Acquired, Released, WithAcquire, WithRelease
<1>2. flinger[d] # "fences" => \A l \in LayersOf(d) : layer[l].release = FALSE
  BY ShownFacts DEF FencesInv, LayersOf, FrameType, LayerStatus
<1> QED BY <1>1, <1>2 DEF Released

LEMMA OwnNums ==
  ASSUME FencesInv
  PROVE  /\ Num(WithAcquire) \in Nat /\ Num(WithRelease) \in Nat
         /\ Num(WithTarget) \in Nat /\ Num(WithRetire) \in Nat
         /\ \A S \in SUBSET Shown : Num(S) \in Nat
         /\ \A S \in SUBSET Shown : Num(WithAcquire \cap S) \in Nat /\ Num(S \ WithAcquire) \in Nat
         /\ \A S \in SUBSET Shown : Num(WithRelease \cap S) \in Nat /\ Num(S \ WithRelease) \in Nat
         /\ fds \in Int
<1>1. /\ IsFiniteSet(Shown) /\ IsFiniteSet(WithAcquire) /\ IsFiniteSet(WithRelease)
      /\ IsFiniteSet(WithTarget) /\ IsFiniteSet(WithRetire)
  BY ShownFacts DEF FencesInv
<1>2. ASSUME NEW S \in SUBSET Shown
      PROVE  /\ IsFiniteSet(S)
             /\ IsFiniteSet(WithAcquire \cap S) /\ IsFiniteSet(S \ WithAcquire)
             /\ IsFiniteSet(WithRelease \cap S) /\ IsFiniteSet(S \ WithRelease)
  BY <1>1, FS_Subset, FS_Intersection, FS_Difference
<1>3. \A S : IsFiniteSet(S) => Num(S) \in Nat
  BY FS_CardinalityType DEF Num
<1>4. /\ Num(WithAcquire) \in Nat /\ Num(WithRelease) \in Nat
      /\ Num(WithTarget) \in Nat /\ Num(WithRetire) \in Nat /\ Num(Shown) \in Nat
  BY <1>1, <1>3
<1>5. ASSUME NEW S \in SUBSET Shown
      PROVE  /\ Num(S) \in Nat
             /\ Num(WithAcquire \cap S) \in Nat /\ Num(S \ WithAcquire) \in Nat
             /\ Num(WithRelease \cap S) \in Nat /\ Num(S \ WithRelease) \in Nat
  BY <1>2, <1>3
<1>6. fds \in Int
  BY <1>4 DEF FencesInv
<1> QED BY <1>4, <1>5, <1>6

LEMMA GeometryBooks ==
  ASSUME FencesInv, NEW l \in Shown, SetLayerGeometry(l)
  PROVE  FencesInv'
<1>1. FrameType'
  BY GeometryType DEF FencesInv
<1>2. l \in Layers /\ MovedIn(l)
  BY ShownFacts DEF FencesInv, SetLayerGeometry, MovedIn
<1>3. \A e \in Displays : disp'[e].targetFence = disp[e].targetFence /\ disp'[e].retire = disp[e].retire
  BY <1>2, MovedType DEF FencesInv
<1> QED BY <1>1, <1>3, SameBooks DEF SetLayerGeometry, FencesInv

LEMMA CreateBooks ==
  ASSUME FencesInv, NEW l \in device.may, CreateLayer(l)
  PROVE  FencesInv'
<1>1. /\ l \in Layers /\ l \notin Shown /\ DisplayOf[l] \in Displays /\ flinger[DisplayOf[l]] = "idle"
      /\ fds' = fds + 2 /\ layer' = [layer EXCEPT ![l] = NewLayer] /\ UNCHANGED <<disp, flinger>>
  BY FrameAssumption DEF CreateLayer, FencesInv, FrameType, DeviceStatus
<1>0. NewLayer \in LayerStatus /\ NewLayer.acquire = TRUE /\ NewLayer.release = FALSE
  BY DEF NewLayer, LayerStatus, Type
<1>2. Shown' = Shown \cup {l} /\ FrameType'
  BY <1>0, <1>1 DEF CreateLayer, FencesInv, FrameType, DeviceStatus, Shown
<1>3. /\ layer'[l].acquire = TRUE /\ layer'[l].release = FALSE
      /\ \A k \in Shown : layer'[k] = layer[k]
  BY <1>0, <1>1, ShownFacts DEF FencesInv, FrameType
<1>4. /\ WithAcquire' = WithAcquire \cup {l} /\ WithRelease' = WithRelease
      /\ WithTarget' = WithTarget /\ WithRetire' = WithRetire
  BY <1>1, <1>2, <1>3 DEF WithAcquire, WithRelease, WithTarget, WithRetire
<1>5. IsFiniteSet(Shown) /\ IsFiniteSet(WithAcquire) /\ l \notin WithAcquire
  BY <1>1, ShownFacts DEF FencesInv, WithAcquire
<1>6. /\ Num(Shown)' = Num(Shown) + 1 /\ Num(WithAcquire)' = Num(WithAcquire) + 1
      /\ Num(Shown) \in Nat /\ Num(WithAcquire) \in Nat
  BY <1>1, <1>2, <1>4, <1>5, NumOne DEF One
<1>7. Num(WithRelease)' = Num(WithRelease) /\ Num(WithTarget)' = Num(WithTarget) /\ Num(WithRetire)' = Num(WithRetire)
  BY <1>4
<1>8. fds' = Num(Shown)' + Num(WithAcquire)' + Num(WithRelease)' + Num(WithTarget)' + Num(WithRetire)'
  BY <1>1, <1>6, <1>7, OwnNums DEF FencesInv
<1>9. \A k \in Shown' : layer'[k].release => flinger'[DisplayOf[k]] = "fences"
  BY <1>1, <1>2, <1>3 DEF FencesInv
<1> QED BY <1>2, <1>8, <1>9 DEF FencesInv

LEMMA DestroyBooks ==
  ASSUME FencesInv, NEW l \in Shown, DestroyLayer(l)
  PROVE  FencesInv'
<1>1. /\ l \in Layers /\ DisplayOf[l] \in Displays /\ MovedIn(l) /\ flinger[DisplayOf[l]] = "idle"
      /\ fds' = fds - 1 - One(layer[l].acquire) /\ UNCHANGED flinger
      /\ layer' = [layer EXCEPT ![l] = NewLayer]
  BY ShownFacts, FrameAssumption DEF DestroyLayer, MovedIn, FencesInv
<1>2. NewLayer \in LayerStatus
  BY DEF NewLayer, LayerStatus, Type
<1>3. /\ disp' \in [Displays -> DisplayStatus]
      /\ \A e \in Displays : disp'[e].targetFence = disp[e].targetFence /\ disp'[e].retire = disp[e].retire
  BY <1>1, MovedType DEF FencesInv
<1>4. Shown' = Shown \ {l} /\ FrameType'
  BY <1>1, <1>2, <1>3 DEF DestroyLayer, FencesInv, FrameType, DeviceStatus, Shown
<1>5. \A k \in Layers \ {l} : layer'[k] = layer[k]
  BY <1>1 DEF FencesInv, FrameType
<1>6. layer[l].release = FALSE
  BY <1>1 DEF FencesInv, FrameType, LayerStatus
<1>7. /\ WithAcquire' = WithAcquire \ {l} /\ WithRelease' = WithRelease
      /\ WithTarget' = WithTarget /\ WithRetire' = WithRetire
  <2>1. Shown \subseteq Layers
    BY ShownFacts DEF FencesInv
  <2> QED BY <1>3, <1>4, <1>5, <1>6, <2>1 DEF WithAcquire, WithRelease, WithTarget, WithRetire
<1>8. IsFiniteSet(Shown) /\ IsFiniteSet(WithAcquire) /\ (l \in WithAcquire <=> layer[l].acquire)
  BY <1>1, ShownFacts DEF FencesInv, WithAcquire
<1>9. /\ Num(Shown)' = Num(Shown) - 1 /\ Num(WithAcquire)' = Num(WithAcquire) - One(layer[l].acquire)
      /\ Num(Shown) \in Nat /\ Num(WithAcquire) \in Nat /\ One(layer[l].acquire) \in Int
  <2>1. Num(Shown \ {l}) = Num(Shown) - One(l \in Shown) /\ Num(Shown) \in Nat
    BY <1>8, NumOne
  <2>2. Num(WithAcquire \ {l}) = Num(WithAcquire) - One(l \in WithAcquire) /\ Num(WithAcquire) \in Nat
    BY <1>8, NumOne
  <2>3. One(l \in Shown) = 1 /\ One(l \in WithAcquire) = One(layer[l].acquire) /\ One(layer[l].acquire) \in Int
    BY <1>8 DEF One
  <2>4. Num(Shown)' = Num(Shown \ {l}) /\ Num(WithAcquire)' = Num(WithAcquire \ {l})
    BY <1>4, <1>7
  <2> QED BY <2>1, <2>2, <2>3, <2>4
<1>10. Num(WithRelease)' = Num(WithRelease) /\ Num(WithTarget)' = Num(WithTarget) /\ Num(WithRetire)' = Num(WithRetire)
  BY <1>7
<1>11. fds' = Num(Shown)' + Num(WithAcquire)' + Num(WithRelease)' + Num(WithTarget)' + Num(WithRetire)'
  BY <1>1, <1>9, <1>10, OwnNums DEF FencesInv
<1>12. \A k \in Shown' : layer'[k].release => flinger'[DisplayOf[k]] = "fences"
  BY <1>1, <1>4, <1>5, ShownFacts DEF FencesInv
<1> QED BY <1>4, <1>11, <1>12 DEF FencesInv

LEMMA BeginBooks ==
  ASSUME FencesInv, NEW d \in Displays, NEW posted \in SUBSET LayersOf(d), NEW types \in [LayersOf(d) -> Type],
         NEW next \in {"try", "validate"}, BeginFrame(d, posted, types, next)
  PROVE  FencesInv'
<1>1. FrameType'
  BY BeginType DEF FencesInv
<1>2. \A l \in Shown : /\ layer'[l].acquire = (layer[l].acquire \/ l \in posted)
                       /\ layer'[l].release = layer[l].release
  <2>1. SUFFICES ASSUME NEW l \in Shown
                 PROVE  /\ layer'[l].acquire = (layer[l].acquire \/ l \in posted)
                        /\ layer'[l].release = layer[l].release
    OBVIOUS
  <2>2. l \in Layers /\ layer[l] \in LayerStatus
    BY ShownFacts DEF FencesInv, FrameType
  <2>3. CASE l \notin LayersOf(d)
    BY <2>2, <2>3 DEF BeginFrame, LayerStatus
  <2>4. CASE l \in posted
    <3>1. layer'[l] = [SetLayerBuffer(layer[l]) EXCEPT !.type = types[l]]
      BY <2>2, <2>4 DEF BeginFrame
    <3>2. layer'[l].acquire = TRUE /\ layer'[l].release = FALSE
      BY <2>2, <3>1 DEF SetLayerBuffer, LayerStatus
    <3> QED BY <2>2, <2>4, <3>2, OwnLayers DEF BeginFrame
  <2>5. CASE l \in LayersOf(d) \ posted
    <3>1. layer'[l] = [layer[l] EXCEPT !.type = types[l]]
      BY <2>2, <2>5 DEF BeginFrame
    <3> QED BY <2>2, <2>5, <3>1 DEF LayerStatus
  <2> QED BY <2>3, <2>4, <2>5
<1>3. \A e \in Displays : disp'[e].targetFence = disp[e].targetFence /\ disp'[e].retire = disp[e].retire
  <2>1. \A e \in Displays : disp[e] \in DisplayStatus
    BY DEF FencesInv, FrameType
  <2> DEFINE sources == [l \in Layers |-> IF l \in posted THEN Swap(disp[d].source[l]) ELSE disp[d].source[l]]
  <2>2. disp' = [disp EXCEPT ![d].source = sources]
    BY DEF BeginFrame
  <2> HIDE DEF sources
  <2> QED BY <2>1, <2>2 DEF DisplayStatus, FencesInv, FrameType
<1>4. {l \in posted : ~layer[l].acquire} = posted \ WithAcquire /\ posted \in SUBSET Shown
  BY OwnLayers DEF WithAcquire
<1>5. fds' = fds + Num(posted \ WithAcquire)
  BY <1>4 DEF BeginFrame
<1>6. \A l \in Shown : layer'[l].release => flinger'[DisplayOf[l]] = "fences"
  <2>1. flinger' = [flinger EXCEPT ![d] = next] /\ flinger[d] = "idle"
    BY DEF BeginFrame
  <2> QED BY <1>2, <2>1, ShownFacts DEF FencesInv, FrameType
<1>7. /\ Num(WithAcquire)' = Num(WithAcquire) + Num(posted \ WithAcquire)
      /\ Num(WithRelease)' = Num(WithRelease)
      /\ Num(WithTarget)' = Num(WithTarget) /\ Num(WithRetire)' = Num(WithRetire)
  <2>1. device' = device
    BY DEF BeginFrame
  <2>2. Num(WithAcquire)' = Num(WithAcquire) + Num(posted \ WithAcquire)
    BY <1>2, <1>4, <2>1, LayerBooks DEF FencesInv
  <2>3. WithRelease' = WithRelease /\ WithTarget' = WithTarget /\ WithRetire' = WithRetire
    BY <1>2, <1>3, <2>1 DEF WithRelease, WithTarget, WithRetire, Shown
  <2> QED BY <2>2, <2>3
<1> QED BY <1>1, <1>5, <1>6, <1>7, OwnNums, <1>4, Books DEF BeginFrame

\* Of the layers that are shown, those of other displays keep what they have.
LEMMA ValidateBooks ==
  ASSUME FencesInv, NEW d \in Displays, NEW fails \in BOOLEAN, ValidateDisplay(d, fails)
  PROVE  FencesInv'
<1>1. FrameType' /\ device' = device
  BY ValidateType DEF FencesInv, ValidateDisplay
<1>2. PICK a \in Assignments(d) :
        LET types == IF fails THEN [l \in LayersOf(d) |-> "client"] ELSE a
            clients == {l \in LayersOf(d) : types[l] = "client"}
            r == [disp[d] EXCEPT !.enableSkip = EnableSkip(d), !.rendering = "VALIDATED",
                                 !.skipFrame = FALSE]
            s == IF fails THEN [r EXCEPT !.skip = FALSE, !.skipInit = FALSE]
                          ELSE SkipStaticLayers(r, clients) IN
        /\ disp' = [disp EXCEPT ![d] = s]
        /\ layer' = [l \in Layers |-> IF l \in LayersOf(d)
                                      THEN [layer[l] EXCEPT !.acquire = TRUE, !.valid = types[l]] ELSE layer[l]]
        /\ flinger' = [flinger EXCEPT ![d] =
              IF clients # {} \/ \E l \in LayersOf(d) : types[l] # layer[l].type
              THEN "compose" ELSE "present"]
  BY DEF ValidateDisplay
<1> DEFINE types == IF fails THEN [l \in LayersOf(d) |-> "client"] ELSE a
           clients == {l \in LayersOf(d) : types[l] = "client"}
           r == [disp[d] EXCEPT !.enableSkip = EnableSkip(d), !.rendering = "VALIDATED",
                                !.skipFrame = FALSE]
           s == IF fails THEN [r EXCEPT !.skip = FALSE, !.skipInit = FALSE] ELSE SkipStaticLayers(r, clients)
<1>3. /\ disp' = [disp EXCEPT ![d] = s]
      /\ layer' = [l \in Layers |-> IF l \in LayersOf(d)
                                    THEN [layer[l] EXCEPT !.acquire = TRUE, !.valid = types[l]] ELSE layer[l]]
      /\ flinger' \in {[flinger EXCEPT ![d] = "compose"], [flinger EXCEPT ![d] = "present"]}
  BY <1>2
<1>4. s.targetFence = disp[d].targetFence /\ s.retire = disp[d].retire
  <2> HIDE DEF clients
  <2>1. disp[d] \in DisplayStatus
    BY DEF FencesInv, FrameType
  <2>2. \A b \in BOOLEAN :
          LET q == [disp[d] EXCEPT !.enableSkip = b, !.rendering = "VALIDATED", !.skipFrame = FALSE]
          IN  q \in DisplayStatus /\ q.targetFence = disp[d].targetFence /\ q.retire = disp[d].retire
    BY <2>1 DEF DisplayStatus
  <2>3. r \in DisplayStatus /\ r.targetFence = disp[d].targetFence /\ r.retire = disp[d].retire
    <3>1. EnableSkip(d) \in BOOLEAN
      BY DEF EnableSkip
    <3> QED BY <2>2, <3>1
  <2> HIDE DEF r
  <2>4. /\ SkipStaticLayers(r, clients).targetFence = r.targetFence
        /\ SkipStaticLayers(r, clients).retire = r.retire
    BY <2>3 DEF SkipStaticLayers, DisplayStatus
  <2>5. LET q == [r EXCEPT !.skip = FALSE, !.skipInit = FALSE]
        IN  q.targetFence = r.targetFence /\ q.retire = r.retire
    BY <2>3 DEF DisplayStatus
  <2> QED BY <2>3, <2>4, <2>5
<1> HIDE DEF types, s
<1>5. \A l \in Shown : /\ layer'[l].acquire = (layer[l].acquire \/ l \in LayersOf(d))
                       /\ layer'[l].release = layer[l].release
  <2>1. \A l \in Shown : l \in Layers /\ layer[l] \in LayerStatus
    BY ShownFacts DEF FencesInv, FrameType
  <2> QED BY <1>3, <2>1 DEF LayerStatus
<1>6. \A e \in Displays : disp'[e].targetFence = disp[e].targetFence /\ disp'[e].retire = disp[e].retire
  BY <1>3, <1>4 DEF FencesInv, FrameType
<1>7. Taken(d) = Num(LayersOf(d) \ WithAcquire)
  <2>1. {l \in LayersOf(d) : ~layer[l].acquire} = LayersOf(d) \ WithAcquire
    BY OwnLayers DEF WithAcquire
  <2> QED BY <2>1 DEF Taken
<1>8. /\ Num(WithAcquire)' = Num(WithAcquire) + Num(LayersOf(d) \ WithAcquire)
      /\ WithRelease' = WithRelease /\ WithTarget' = WithTarget /\ WithRetire' = WithRetire
  <2>1. Num(WithAcquire)' = Num(WithAcquire) + Num(LayersOf(d) \ WithAcquire)
    BY <1>1, <1>5, OwnLayers, LayerBooks DEF FencesInv
  <2>2. WithRelease' = WithRelease /\ WithTarget' = WithTarget /\ WithRetire' = WithRetire
    BY <1>1, <1>5, <1>6 DEF WithRelease, WithTarget, WithRetire, Shown
  <2> QED BY <2>1, <2>2
<1>9. \A l \in Shown : layer'[l].release => flinger'[DisplayOf[l]] = "fences"
  <2>1. flinger[d] = "validate"
    BY DEF ValidateDisplay
  <2>2. \A l \in Shown : DisplayOf[l] \in Displays
    BY ShownFacts, FrameAssumption DEF FencesInv
  <2> QED BY <1>3, <1>5, <2>1, <2>2 DEF FencesInv, FrameType
<1>10. fds' = fds + Num(LayersOf(d) \ WithAcquire)
  BY <1>7 DEF ValidateDisplay
<1>11. Num(LayersOf(d) \ WithAcquire) \in Nat
  BY OwnNums, OwnLayers
<1> QED BY <1>1, <1>8, <1>9, <1>10, <1>11, OwnNums, Books

LEMMA AcceptBooks ==
  ASSUME FencesInv, NEW d \in Displays, AcceptDisplayChanges(d)
  PROVE  FencesInv'
<1> DEFINE clients == {l \in LayersOf(d) : [k \in LayersOf(d) |-> Reported(d, k)][l] = "client"}
           r == [disp[d] EXCEPT !.rendering = "ACCEPTED", !.target = IF clients = {} THEN @ ELSE "new",
                                !.targetFence = (@ \/ clients # {})]
<1>1. /\ layer' = [l \in Layers |-> IF l \in LayersOf(d)
                      THEN [layer[l] EXCEPT !.type = Reported(d, l)] ELSE layer[l]]
      /\ disp' = [disp EXCEPT ![d] = r]
      /\ fds' = fds + One(clients # {} /\ ~disp[d].targetFence)
      /\ device' = device
  <2>1. \A l \in LayersOf(d) : [k \in LayersOf(d) |-> Reported(d, k)][l] = Reported(d, l)
    OBVIOUS
  <2>2. /\ disp' = [disp EXCEPT ![d] = r]
        /\ fds' = fds + One(clients # {} /\ ~disp[d].targetFence) /\ device' = device
        /\ layer' = [l \in Layers |-> IF l \in LayersOf(d)
                        THEN [layer[l] EXCEPT !.type = [k \in LayersOf(d) |-> Reported(d, k)][l]] ELSE layer[l]]
    BY DEF AcceptDisplayChanges
  <2> QED BY <2>1, <2>2
<1> HIDE DEF clients
<1>2. /\ r \in DisplayStatus /\ r.retire = disp[d].retire
      /\ r.targetFence = (disp[d].targetFence \/ clients # {})
  <2>1. disp[d] \in DisplayStatus
    BY DEF FencesInv, FrameType
  <2>2. \A q \in {"none", "new", "shown"}, b \in BOOLEAN :
          LET s == [disp[d] EXCEPT !.rendering = "ACCEPTED", !.target = q, !.targetFence = b]
          IN  s \in DisplayStatus /\ s.retire = disp[d].retire /\ s.targetFence = b
    BY <2>1 DEF DisplayStatus
  <2>3. /\ (IF clients = {} THEN disp[d].target ELSE "new") \in {"none", "new", "shown"}
        /\ (disp[d].targetFence \/ clients # {}) \in BOOLEAN
    BY <2>1 DEF DisplayStatus
  <2> QED BY <2>2, <2>3
<1> HIDE DEF r
<1>3. \A l \in Layers : layer'[l] \in LayerStatus /\ layer'[l].acquire = layer[l].acquire
                        /\ layer'[l].release = layer[l].release
  <2>1. \A l \in Layers : layer[l] \in LayerStatus
    BY DEF FencesInv, FrameType
  <2>2. \A l \in LayersOf(d) : Reported(d, l) \in {"none"} \cup Type
    BY <2>1, ShownFacts DEF Reported, Type, LayerStatus, FencesInv
  <2> QED BY <1>1, <2>1, <2>2 DEF LayerStatus
<1>4. FrameType'
  <2>1. flinger' = [flinger EXCEPT ![d] = "present"]
    BY DEF AcceptDisplayChanges
  <2> QED BY <1>1, <1>2, <1>3, <2>1, StepType DEF FencesInv
<1>5. \A e \in Displays \ {d} : disp'[e].targetFence = disp[e].targetFence /\ disp'[e].retire = disp[e].retire
  BY <1>1
<1>6. /\ disp'[d].targetFence = (disp[d].targetFence \/ clients # {}) /\ disp'[d].retire = disp[d].retire
  BY <1>1, <1>2 DEF FencesInv, FrameType
<1>7. /\ Num(WithTarget)' = Num(WithTarget) + One(disp'[d].targetFence) - One(disp[d].targetFence)
      /\ Num(WithRetire)' = Num(WithRetire) + One(disp'[d].retire) - One(disp[d].retire)
  BY <1>4, <1>5, DisplayBooks DEF FencesInv, FrameType
<1>8. WithAcquire' = WithAcquire /\ WithRelease' = WithRelease
  BY <1>1, <1>3, ShownFacts DEF WithAcquire, WithRelease, Shown, FencesInv
<1>9. One(disp'[d].targetFence) - One(disp[d].targetFence) = One(clients # {} /\ ~disp[d].targetFence)
      /\ One(disp'[d].retire) - One(disp[d].retire) = 0
  <2>1. disp[d].targetFence \in BOOLEAN
    BY DEF FencesInv, FrameType, DisplayStatus
  <2>2. One(disp'[d].retire) = One(disp[d].retire) /\ One(disp[d].retire) \in Int
    BY <1>6 DEF One
  <2>3. CASE disp[d].targetFence = TRUE
    <3>1. disp'[d].targetFence = TRUE /\ (clients # {} /\ ~disp[d].targetFence) = FALSE
      BY <2>3, <1>6
    <3> QED BY <2>2, <2>3, <3>1 DEF One
  <2>4. CASE disp[d].targetFence = FALSE
    <3>1. CASE clients # {}
      <4>1. disp'[d].targetFence = TRUE /\ (clients # {} /\ ~disp[d].targetFence) = TRUE
        BY <2>4, <3>1, <1>6
      <4> QED BY <2>2, <2>4, <4>1 DEF One
    <3>2. CASE clients = {}
      <4>1. disp'[d].targetFence = FALSE /\ (clients # {} /\ ~disp[d].targetFence) = FALSE
        BY <2>4, <3>2, <1>6
      <4> QED BY <2>2, <2>4, <4>1 DEF One
    <3> QED BY <3>1, <3>2
  <2> QED BY <2>1, <2>3, <2>4
<1>10. \A l \in Shown : layer'[l].release => flinger'[DisplayOf[l]] = "fences"
  <2>1. flinger' = [flinger EXCEPT ![d] = "present"] /\ flinger[d] = "compose"
    BY DEF AcceptDisplayChanges
  <2> QED BY <1>3, <2>1, ShownFacts DEF FencesInv, FrameType
<1>11. /\ One(disp'[d].targetFence) \in Int /\ One(disp[d].targetFence) \in Int
       /\ One(disp'[d].retire) \in Int /\ One(disp[d].retire) \in Int
  BY DEF One
<1>12. /\ Num(WithTarget)' = Num(WithTarget) + One(clients # {} /\ ~disp[d].targetFence)
       /\ Num(WithRetire)' = Num(WithRetire)
  BY <1>7, <1>9, <1>11, OwnNums
<1>13. One(clients # {} /\ ~disp[d].targetFence) \in Int
  BY DEF One
<1> QED BY <1>1, <1>4, <1>8, <1>10, <1>12, <1>13, OwnNums, Books

LEMMA HalAcceptBooks ==
  ASSUME FencesInv, NEW d \in Displays, HalAccepts(d)
  PROVE  FencesInv'
<1>1. /\ layer' = [l \in Layers |-> IF l \in LayersOf(d)
                   THEN [layer[l] EXCEPT !.type = Reported(d, l)] ELSE layer[l]]
      /\ disp' = [disp EXCEPT ![d].rendering = "ACCEPTED"]
      /\ UNCHANGED <<flinger, fds, device>>
  BY DEF HalAccepts
<1>2. \A l \in Layers : layer'[l] \in LayerStatus /\ layer'[l].acquire = layer[l].acquire
                        /\ layer'[l].release = layer[l].release
  <2>1. \A l \in Layers : layer[l] \in LayerStatus
    BY DEF FencesInv, FrameType
  <2>2. \A l \in LayersOf(d) : Reported(d, l) \in {"none"} \cup Type
    BY <2>1, ShownFacts DEF Reported, Type, LayerStatus, FencesInv
  <2> QED BY <1>1, <2>1, <2>2 DEF LayerStatus
<1>3. \A e \in Displays : disp'[e] \in DisplayStatus /\ disp'[e].targetFence = disp[e].targetFence
                          /\ disp'[e].retire = disp[e].retire
  <2>1. \A e \in Displays : disp[e] \in DisplayStatus
    BY DEF FencesInv, FrameType
  <2>2. LET q == [disp[d] EXCEPT !.rendering = "ACCEPTED"]
        IN  /\ q \in DisplayStatus /\ q.targetFence = disp[d].targetFence
            /\ q.retire = disp[d].retire
    BY <2>1 DEF DisplayStatus
  <2>3. \A e \in Displays : disp'[e] = IF e = d THEN [disp[d] EXCEPT !.rendering = "ACCEPTED"] ELSE disp[e]
    BY <1>1 DEF FencesInv, FrameType
  <2> QED BY <2>1, <2>2, <2>3
<1>4. FrameType'
  BY <1>1, <1>2, <1>3 DEF FencesInv, FrameType
<1> QED BY <1>1, <1>2, <1>3, <1>4, ShownFacts, SameBooks DEF FencesInv

LEMMA NotValidatedBooks ==
  ASSUME FencesInv, NEW d \in Displays, PresentNotValidated(d)
  PROVE  FencesInv'
<1>1. /\ disp' = [e \in Displays |-> [disp[e] EXCEPT
                  !.enableSkip = IF On(e) THEN EnableSkip(e) ELSE @,
                  !.rendering = IF e = d THEN "NONE" ELSE @]]
      /\ UNCHANGED <<layer, fds, device>>
      /\ flinger[d] \in {"try", "present"}
      /\ flinger' \in {[flinger EXCEPT ![d] = "idle"], [flinger EXCEPT ![d] = "validate"]}
  BY DEF PresentNotValidated, Presents, EndOfTry
<1>2. ASSUME NEW e \in Displays
      PROVE  disp'[e] \in DisplayStatus /\ disp'[e].targetFence = disp[e].targetFence
             /\ disp'[e].retire = disp[e].retire
  <2>1. disp[e] \in DisplayStatus
    BY DEF FencesInv, FrameType
  <2>2. \A b \in BOOLEAN, s \in {"NONE", "VALIDATED", "ACCEPTED", "PRESENTED"} :
          LET q == [disp[e] EXCEPT !.enableSkip = b, !.rendering = s]
          IN  q \in DisplayStatus /\ q.targetFence = disp[e].targetFence /\ q.retire = disp[e].retire
    BY <2>1 DEF DisplayStatus
  <2>3. /\ (IF On(e) THEN EnableSkip(e) ELSE disp[e].enableSkip) \in BOOLEAN
        /\ (IF e = d THEN "NONE" ELSE disp[e].rendering) \in {"NONE", "VALIDATED", "ACCEPTED", "PRESENTED"}
    BY <2>1 DEF DisplayStatus, EnableSkip
  <2> QED BY <1>1, <2>2, <2>3
<1>3. FrameType'
  BY <1>1, <1>2 DEF FencesInv, FrameType
<1>4. \A l \in Shown : layer[l].release => flinger'[DisplayOf[l]] = "fences"
  <2>1. \A l \in Shown : DisplayOf[l] \in Displays
    BY ShownFacts, FrameAssumption DEF FencesInv
  <2> QED BY <1>1, <2>1 DEF FencesInv, FrameType
<1> QED BY <1>1, <1>2, <1>3, <1>4, SameBooks

LEMMA OneValues == One(TRUE) = 1 /\ One(FALSE) = 0 /\ \A b \in BOOLEAN : One(b) \in Int
BY DEF One

(* The display of a step becomes r.                                        *)
LEMMA DisplayStep ==
  ASSUME FencesInv, NEW d \in Displays, NEW r \in DisplayStatus, disp' = [disp EXCEPT ![d] = r]
  PROVE  /\ disp' \in [Displays -> DisplayStatus]
         /\ r.targetFence = FALSE => Num(WithTarget)' = Num(WithTarget) - One(disp[d].targetFence)
         /\ r.targetFence = disp[d].targetFence => Num(WithTarget)' = Num(WithTarget)
         /\ r.retire = FALSE => Num(WithRetire)' = Num(WithRetire) - One(disp[d].retire)
         /\ r.retire = TRUE => Num(WithRetire)' = Num(WithRetire) + 1 - One(disp[d].retire)
         /\ r.retire = disp[d].retire => Num(WithRetire)' = Num(WithRetire)
         /\ One(disp[d].targetFence) \in Int /\ One(disp[d].retire) \in Int
<1>1. disp' \in [Displays -> DisplayStatus] /\ disp'[d] = r
      /\ \A e \in Displays \ {d} : disp'[e] = disp[e]
  BY DEF FencesInv, FrameType
<1>2. /\ Num(WithTarget)' = Num(WithTarget) + One(r.targetFence) - One(disp[d].targetFence)
      /\ Num(WithRetire)' = Num(WithRetire) + One(r.retire) - One(disp[d].retire)
  BY <1>1, DisplayBooks DEF FencesInv
<1>3. One(disp[d].targetFence) \in Int /\ One(disp[d].retire) \in Int
  BY DEF One
<1>4. Num(WithTarget) \in Nat /\ Num(WithRetire) \in Nat
  BY OwnNums
<1>5. /\ r.targetFence = FALSE => One(r.targetFence) = 0
      /\ r.targetFence = disp[d].targetFence => One(r.targetFence) = One(disp[d].targetFence)
      /\ r.retire = FALSE => One(r.retire) = 0
      /\ r.retire = TRUE => One(r.retire) = 1
      /\ r.retire = disp[d].retire => One(r.retire) = One(disp[d].retire)
  BY DEF One
<1> QED BY <1>1, <1>2, <1>3, <1>4, <1>5

(* The layers of a step's display get rid of their acquire fences, have no *)
(* release fences, and may get some.                                       *)
LEMMA LayersStep ==
  ASSUME FencesInv, NEW d \in Displays, device' = device, flinger[d] # "fences",
         layer' \in [Layers -> LayerStatus], NEW gain \in BOOLEAN,
         \A l \in Shown \ LayersOf(d) : layer'[l] = layer[l],
         \A l \in LayersOf(d) : layer'[l].acquire = FALSE /\ layer'[l].release = gain
  PROVE  /\ Num(WithAcquire)' = Num(WithAcquire) - Num(Acquired(d))
         /\ gain = TRUE => Num(WithRelease)' = Num(WithRelease) + Num(LayersOf(d))
         /\ gain = FALSE => Num(WithRelease)' = Num(WithRelease)
         /\ Num(Acquired(d)) \in Nat /\ Num(LayersOf(d)) \in Nat /\ Num(Released(d)) = 0
<1>1. LayersOf(d) \in SUBSET Shown /\ Acquired(d) = WithAcquire \cap LayersOf(d)
      /\ \A l \in LayersOf(d) : layer[l].release = FALSE
  BY OwnLayers
<1>2. \A l \in Shown : layer[l].acquire \in BOOLEAN /\ layer[l].release \in BOOLEAN
  BY ShownFacts DEF FencesInv, FrameType, LayerStatus
<1>3. \A l \in Shown : layer'[l].acquire = (layer[l].acquire /\ l \notin LayersOf(d))
  BY <1>2
<1>4. Num(WithAcquire)' = Num(WithAcquire) - Num(Acquired(d))
  BY <1>1, <1>3, LayerBooks DEF FencesInv
<1>5. ASSUME gain = TRUE PROVE Num(WithRelease)' = Num(WithRelease) + Num(LayersOf(d))
  <2>1. \A l \in Shown : layer'[l].release = (layer[l].release \/ l \in LayersOf(d))
    BY <1>2, <1>5
  <2>2. LayersOf(d) \ WithRelease = LayersOf(d)
    BY <1>1 DEF WithRelease
  <2>3. Num(WithRelease)' = Num(WithRelease) + Num(LayersOf(d) \ WithRelease)
    BY <1>1, <2>1, LayerBooks DEF FencesInv
  <2> QED BY <2>2, <2>3
<1>6. ASSUME gain = FALSE PROVE Num(WithRelease)' = Num(WithRelease)
  <2>1. WithRelease' = WithRelease
    BY <1>1, <1>6 DEF WithRelease, Shown
  <2> QED BY <2>1
<1>7. Num(Released(d)) = 0
  BY OwnLayers, EmptyNum
<1>8. Num(Acquired(d)) \in Nat /\ Num(LayersOf(d)) \in Nat
  BY <1>1, OwnNums
<1> QED BY <1>4, <1>5, <1>6, <1>7, <1>8

LEMMA EndFacts ==
  ASSUME FencesInv, NEW d \in Displays, NEW presented \in BOOLEAN, EndOfTry(d, presented),
         flinger[d] \in {"try", "present"}
  PROVE  \E at \in {"idle", "validate"} : flinger' = [flinger EXCEPT ![d] = at]
BY DEF EndOfTry, FencesInv, FrameType

\* The steps of a display that end without a release fence.
LEMMA NoneReleased ==
  ASSUME FencesInv, NEW d \in Displays, flinger[d] # "fences", NEW at, flinger' = [flinger EXCEPT ![d] = at],
         layer' \in [Layers -> LayerStatus],
         \A l \in Shown : layer'[l].release => layer[l].release \/ (at = "fences" /\ DisplayOf[l] = d)
  PROVE  \A l \in Shown : layer'[l].release => flinger'[DisplayOf[l]] = "fences"
<1>1. \A l \in Shown : DisplayOf[l] \in Displays
  BY ShownFacts, FrameAssumption DEF FencesInv
<1> QED BY <1>1 DEF FencesInv, FrameType

LEMMA DroppedBooks ==
  ASSUME FencesInv, NEW d \in Displays, PresentDropped(d)
  PROVE  FencesInv'
<1> DEFINE r == [disp[d] EXCEPT !.rendering = "PRESENTED", !.targetFence = FALSE]
<1>1. disp' = [disp EXCEPT ![d] = r] /\ device' = device /\ flinger[d] \in {"try", "present"}
      /\ fds' = fds - Num(Acquired(d)) - One(disp[d].targetFence)
  BY DEF PresentDropped, Presents
<1>2. r \in DisplayStatus /\ r.targetFence = FALSE /\ r.retire = disp[d].retire
  <2>1. disp[d] \in DisplayStatus
    BY DEF FencesInv, FrameType
  <2> QED BY <2>1 DEF DisplayStatus
<1> HIDE DEF r
<1>3. PICK at \in {"idle", "validate"} : flinger' = [flinger EXCEPT ![d] = at]
  BY <1>1, EndFacts DEF PresentDropped
<1>4. layer' = [l \in Layers |-> IF l \in LayersOf(d) THEN [layer[l] EXCEPT !.acquire = FALSE] ELSE layer[l]]
  BY DEF PresentDropped
<1>5. \A l \in Layers : layer[l] \in LayerStatus
  BY DEF FencesInv, FrameType
<1>6. /\ layer' \in [Layers -> LayerStatus]
      /\ \A l \in Shown \ LayersOf(d) : layer'[l] = layer[l]
      /\ \A l \in LayersOf(d) : layer'[l].acquire = FALSE /\ layer'[l].release = FALSE
  <2>1. \A l \in LayersOf(d) : l \in Layers /\ layer[l].release = FALSE
    BY <1>1, ShownFacts, OwnLayers DEF FencesInv
  <2>2. Shown \subseteq Layers
    BY ShownFacts DEF FencesInv
  <2> QED BY <1>4, <1>5, <2>1, <2>2 DEF LayerStatus
<1>7. /\ Num(WithAcquire)' = Num(WithAcquire) - Num(Acquired(d))
      /\ Num(WithRelease)' = Num(WithRelease) /\ Num(Acquired(d)) \in Nat
  BY <1>1, <1>6, LayersStep, OwnNums
<1>8. FrameType'
  BY <1>1, <1>2, <1>3, <1>6, StepType DEF FencesInv
<1>9. \A l \in Shown : layer'[l].release => flinger'[DisplayOf[l]] = "fences"
  BY <1>1, <1>3, <1>6, NoneReleased
<1>10. /\ Num(WithTarget)' = Num(WithTarget) - One(disp[d].targetFence)
       /\ Num(WithRetire)' = Num(WithRetire) /\ One(disp[d].targetFence) \in Int
  BY <1>1, <1>2, DisplayStep
<1> QED BY <1>1, <1>7, <1>8, <1>9, <1>10, OwnNums, Books

LEMMA SkipBooks ==
  ASSUME FencesInv, NEW d \in Displays, PresentSkipFrame(d)
  PROVE  FencesInv'
<1> DEFINE r == [disp[d] EXCEPT !.rendering = "PRESENTED", !.targetFence = FALSE]
<1>1. disp' = [disp EXCEPT ![d] = r] /\ device' = device /\ flinger[d] \in {"try", "present"}
      /\ fds' = fds - Num(Acquired(d)) - One(disp[d].targetFence)
  BY DEF PresentSkipFrame, Presents
<1>2. r \in DisplayStatus /\ r.targetFence = FALSE /\ r.retire = disp[d].retire
  <2>1. disp[d] \in DisplayStatus
    BY DEF FencesInv, FrameType
  <2> QED BY <2>1 DEF DisplayStatus
<1> HIDE DEF r
<1>3. PICK at \in {"idle", "validate"} : flinger' = [flinger EXCEPT ![d] = at]
  BY <1>1, EndFacts DEF PresentSkipFrame
<1>4. layer' = WithoutFences(d)
  BY DEF PresentSkipFrame
<1>5. \A l \in Layers : layer[l] \in LayerStatus
  BY DEF FencesInv, FrameType
<1>6. /\ layer' \in [Layers -> LayerStatus]
      /\ \A l \in Shown \ LayersOf(d) : layer'[l] = layer[l]
      /\ \A l \in LayersOf(d) : layer'[l].acquire = FALSE /\ layer'[l].release = FALSE
  BY <1>4, <1>5, ShownFacts DEF LayerStatus, FencesInv, WithoutFences
<1>7. /\ Num(WithAcquire)' = Num(WithAcquire) - Num(Acquired(d))
      /\ Num(WithRelease)' = Num(WithRelease) /\ Num(Acquired(d)) \in Nat
  BY <1>1, <1>6, LayersStep, OwnNums
<1>8. FrameType'
  BY <1>1, <1>2, <1>3, <1>6, StepType DEF FencesInv
<1>9. \A l \in Shown : layer'[l].release => flinger'[DisplayOf[l]] = "fences"
  BY <1>1, <1>3, <1>6, NoneReleased
<1>10. /\ Num(WithTarget)' = Num(WithTarget) - One(disp[d].targetFence)
       /\ Num(WithRetire)' = Num(WithRetire) /\ One(disp[d].targetFence) \in Int
  BY <1>1, <1>2, DisplayStep
<1> QED BY <1>1, <1>7, <1>8, <1>9, <1>10, OwnNums, Books

LEMMA PresentBooks ==
  ASSUME FencesInv, NEW d \in Displays, PresentFrame(d)
  PROVE  FencesInv'
<1> DEFINE r == [disp[d] EXCEPT !.rendering = "PRESENTED", !.targetFence = FALSE, !.retire = TRUE,
                            !.target = IF ClientLayers(d) # {} /\ ~disp[d].skip THEN "shown" ELSE @]
<1>1. disp' = [disp EXCEPT ![d] = r] /\ device' = device /\ flinger[d] \in {"try", "present"}
      /\ fds' = fds + SetReleaseFences(d) + 1 - One(disp[d].retire)
      /\ flinger' = [flinger EXCEPT ![d] = "fences"]
  BY DEF PresentFrame, Presents, Composable
<1>2. r \in DisplayStatus /\ r.targetFence = FALSE /\ r.retire = TRUE
  <2>1. disp[d] \in DisplayStatus
    BY DEF FencesInv, FrameType
  <2>2. (IF ClientLayers(d) # {} /\ ~disp[d].skip THEN "shown" ELSE disp[d].target) \in {"none", "new", "shown"}
    BY <2>1 DEF DisplayStatus
  <2>3. \A q \in {"none", "new", "shown"} :
          LET s == [disp[d] EXCEPT !.rendering = "PRESENTED", !.targetFence = FALSE, !.retire = TRUE,
                                   !.target = q]
          IN  s \in DisplayStatus /\ s.targetFence = FALSE /\ s.retire = TRUE
    BY <2>1 DEF DisplayStatus
  <2> QED BY <2>2, <2>3
<1> HIDE DEF r
<1>4. layer' = [l \in Layers |-> IF l \in LayersOf(d)
                   THEN [layer[l] EXCEPT !.acquire = FALSE, !.release = TRUE] ELSE layer[l]]
  BY DEF PresentFrame
<1>5. \A l \in Layers : layer[l] \in LayerStatus
  BY DEF FencesInv, FrameType
<1>6. /\ layer' \in [Layers -> LayerStatus]
      /\ \A l \in Shown \ LayersOf(d) : layer'[l] = layer[l]
      /\ \A l \in LayersOf(d) : layer'[l].acquire = FALSE /\ layer'[l].release = TRUE
  BY <1>4, <1>5, ShownFacts DEF LayerStatus, FencesInv
<1>7. /\ Num(WithAcquire)' = Num(WithAcquire) - Num(Acquired(d))
      /\ Num(WithRelease)' = Num(WithRelease) + Num(LayersOf(d))
      /\ Num(Acquired(d)) \in Nat /\ Num(LayersOf(d)) \in Nat
  BY <1>1, <1>6, LayersStep, OwnNums
<1>8. FrameType'
  BY <1>1, <1>2, <1>6, StepType DEF FencesInv
<1>9. \A l \in Shown : layer'[l].release => flinger'[DisplayOf[l]] = "fences"
  <2>1. \A l \in Shown : layer'[l].release => layer[l].release \/ DisplayOf[l] = d
    BY <1>6, OwnLayers
  <2> QED BY <1>1, <1>6, <2>1, NoneReleased
<1>10. /\ Num(WithTarget)' = Num(WithTarget) - One(disp[d].targetFence)
       /\ Num(WithRetire)' = Num(WithRetire) + 1 - One(disp[d].retire)
       /\ One(disp[d].targetFence) \in Int /\ One(disp[d].retire) \in Int
  BY <1>1, <1>2, DisplayStep
<1> QED BY <1>1, <1>7, <1>8, <1>9, <1>10, OwnNums, Books DEF SetReleaseFences

LEMMA ClosedBooks ==
  ASSUME FencesInv, NEW d \in Displays, CloseFences(d), device' = device, flinger[d] \in {"try", "present"},
         EndOfTry(d, FALSE), NEW r \in DisplayStatus, disp' = [disp EXCEPT ![d] = r],
         r.targetFence = FALSE, r.retire = FALSE
  PROVE  FencesInv'
<1>1. layer' = WithoutFences(d)
      /\ fds' = fds - Num(Acquired(d)) - Num(Released(d)) - One(disp[d].targetFence) - One(disp[d].retire)
  BY DEF CloseFences
<1>3. PICK at \in {"idle", "validate"} : flinger' = [flinger EXCEPT ![d] = at]
  BY EndFacts
<1>5. \A l \in Layers : layer[l] \in LayerStatus
  BY DEF FencesInv, FrameType
<1>6. /\ layer' \in [Layers -> LayerStatus]
      /\ \A l \in Shown \ LayersOf(d) : layer'[l] = layer[l]
      /\ \A l \in LayersOf(d) : layer'[l].acquire = FALSE /\ layer'[l].release = FALSE
  BY <1>1, <1>5, ShownFacts DEF LayerStatus, FencesInv, WithoutFences
<1>7. /\ Num(WithAcquire)' = Num(WithAcquire) - Num(Acquired(d))
      /\ Num(WithRelease)' = Num(WithRelease) /\ Num(Acquired(d)) \in Nat /\ Num(Released(d)) = 0
  BY <1>6, LayersStep, OwnNums
<1>8. FrameType'
  BY <1>3, <1>6, StepType DEF FencesInv
<1>9. \A l \in Shown : layer'[l].release => flinger'[DisplayOf[l]] = "fences"
  BY <1>3, <1>6, NoneReleased
<1>10. /\ Num(WithTarget)' = Num(WithTarget) - One(disp[d].targetFence)
       /\ Num(WithRetire)' = Num(WithRetire) - One(disp[d].retire)
       /\ One(disp[d].targetFence) \in Int /\ One(disp[d].retire) \in Int
  BY DisplayStep
<1> QED BY <1>1, <1>7, <1>8, <1>9, <1>10, OwnNums, Books

LEMMA NoLayersBooks ==
  ASSUME FencesInv, NEW d \in Displays, PresentNoLayers(d)
  PROVE  FencesInv'
<1> DEFINE r == [disp[d] EXCEPT !.rendering = "PRESENTED", !.retire = FALSE, !.skipInit = FALSE, !.skip = FALSE]
<1>1. disp' = [disp EXCEPT ![d] = r] /\ UNCHANGED <<layer, device>> /\ flinger[d] \in {"try", "present"}
      /\ fds' = fds - One(disp[d].retire)
  BY DEF PresentNoLayers, Presents, Composable
<1>2. r \in DisplayStatus /\ r.targetFence = disp[d].targetFence /\ r.retire = FALSE
  <2>1. disp[d] \in DisplayStatus
    BY DEF FencesInv, FrameType
  <2> QED BY <2>1 DEF DisplayStatus
<1> HIDE DEF r
<1>3. PICK at \in {"idle", "validate"} : flinger' = [flinger EXCEPT ![d] = at]
  BY <1>1, EndFacts DEF PresentNoLayers
<1>4. WithAcquire' = WithAcquire /\ WithRelease' = WithRelease
  BY <1>1 DEF WithAcquire, WithRelease, Shown
<1>5. layer' \in [Layers -> LayerStatus] /\ FrameType'
  BY <1>1, <1>2, <1>3, StepType DEF FencesInv, FrameType
<1>6. \A l \in Shown : layer'[l].release => flinger'[DisplayOf[l]] = "fences"
  BY <1>1, <1>3, <1>5, NoneReleased
<1>7. /\ Num(WithTarget)' = Num(WithTarget) /\ Num(WithRetire)' = Num(WithRetire) - One(disp[d].retire)
      /\ One(disp[d].retire) \in Int
  BY <1>1, <1>2, DisplayStep
<1> QED BY <1>1, <1>4, <1>5, <1>6, <1>7, OwnNums, Books

LEMMA FailBooks ==
  ASSUME FencesInv, NEW d \in Displays, PresentFails(d) \/ CommitFails(d)
  PROVE  FencesInv'
<1>1. disp[d] \in DisplayStatus
  BY DEF FencesInv, FrameType
<1>2. CASE PresentFails(d)
  <2> DEFINE r == [disp[d] EXCEPT !.rendering = "PRESENTED", !.targetFence = FALSE,
                            !.retire = FALSE, !.skipInit = FALSE]
  <2>1. disp' = [disp EXCEPT ![d] = r] /\ CloseFences(d) /\ device' = device
        /\ flinger[d] \in {"try", "present"} /\ EndOfTry(d, FALSE)
    BY <1>2 DEF PresentFails, Composable, Presents
  <2>2. r \in DisplayStatus /\ r.targetFence = FALSE /\ r.retire = FALSE
    BY <1>1 DEF DisplayStatus
  <2> HIDE DEF r
  <2> QED BY <2>1, <2>2, ClosedBooks
<1>3. CASE CommitFails(d)
  <2> DEFINE r == [disp[d] EXCEPT !.rendering = "PRESENTED", !.targetFence = FALSE,
                            !.retire = FALSE, !.skipInit = FALSE, !.skip = FALSE,
                            !.target = IF ClientLayers(d) # {} /\ ~disp[d].skip THEN "shown" ELSE @]
  <2>1. disp' = [disp EXCEPT ![d] = r] /\ CloseFences(d) /\ device' = device
        /\ flinger[d] \in {"try", "present"} /\ EndOfTry(d, FALSE)
    BY <1>3 DEF CommitFails, Composable, Presents
  <2>2. r \in DisplayStatus /\ r.targetFence = FALSE /\ r.retire = FALSE
    <3>1. (IF ClientLayers(d) # {} /\ ~disp[d].skip THEN "shown" ELSE disp[d].target) \in {"none", "new", "shown"}
      BY <1>1 DEF DisplayStatus
    <3>2. \A q \in {"none", "new", "shown"} :
            LET s == [disp[d] EXCEPT !.rendering = "PRESENTED", !.targetFence = FALSE,
                            !.retire = FALSE, !.skipInit = FALSE, !.skip = FALSE, !.target = q]
            IN  s \in DisplayStatus /\ s.targetFence = FALSE /\ s.retire = FALSE
      BY <1>1 DEF DisplayStatus
    <3> QED BY <3>1, <3>2
  <2> HIDE DEF r
  <2> QED BY <2>1, <2>2, ClosedBooks
<1> QED BY <1>2, <1>3

LEMMA ReleaseBooks ==
  ASSUME FencesInv, NEW d \in Displays, GetReleaseFences(d)
  PROVE  FencesInv'
<1>1. /\ layer' = [l \in Layers |-> IF l \in LayersOf(d) THEN [layer[l] EXCEPT !.release = FALSE] ELSE layer[l]]
      /\ fds' = fds - Num(Released(d)) /\ flinger' = [flinger EXCEPT ![d] = "idle"]
      /\ UNCHANGED <<disp, device>>
  BY DEF GetReleaseFences
<1>2. \A l \in Layers : layer[l] \in LayerStatus
  BY DEF FencesInv, FrameType
<1>3. /\ layer' \in [Layers -> LayerStatus]
      /\ \A l \in Shown : layer'[l].acquire = layer[l].acquire
      /\ \A l \in Shown : layer'[l].release = (layer[l].release /\ l \notin LayersOf(d))
  BY <1>1, <1>2, ShownFacts DEF LayerStatus, FencesInv
<1>4. FrameType'
  BY <1>1, <1>3 DEF FencesInv, FrameType
<1>5. /\ Num(WithRelease)' = Num(WithRelease) - Num(Released(d)) /\ Num(Released(d)) \in Nat
  BY <1>1, <1>3, LayerBooks, OwnLayers, OwnNums DEF FencesInv
<1>6. WithAcquire' = WithAcquire /\ WithTarget' = WithTarget /\ WithRetire' = WithRetire
  BY <1>1, <1>3 DEF WithAcquire, WithTarget, WithRetire, Shown
<1>7. \A l \in Shown : layer'[l].release => flinger'[DisplayOf[l]] = "fences"
  <2>1. \A l \in Shown : DisplayOf[l] \in Displays /\ (layer'[l].release => layer[l].release /\ DisplayOf[l] # d)
    BY <1>3, ShownFacts, FrameAssumption DEF FencesInv, LayersOf
  <2> QED BY <1>1, <2>1 DEF FencesInv, FrameType
<1>8. /\ Num(WithAcquire)' = Num(WithAcquire) /\ Num(WithTarget)' = Num(WithTarget)
      /\ Num(WithRetire)' = Num(WithRetire)
  BY <1>6
<1>9. fds' = fds - Num(Released(d)) /\ device' = device
  BY <1>1
<1> QED BY <1>4, <1>5, <1>7, <1>8, <1>9, OwnNums, Books

LEMMA PowerOffBooks ==
  ASSUME FencesInv, NEW d \in Displays, PowerOff(d)
  PROVE  FencesInv'
<1> DEFINE inFrame == disp[d].rendering \in {"VALIDATED", "ACCEPTED"}
           r == [disp[d] EXCEPT !.power = FALSE, !.rendering = "NONE", !.skipFrame = TRUE,
                            !.retire = FALSE, !.skipInit = FALSE, !.skip = FALSE]
<1>1. /\ layer' = [l \in Layers |-> IF l \in LayersOf(d) /\ inFrame
                      THEN [layer[l] EXCEPT !.acquire = FALSE] ELSE layer[l]]
      /\ fds' = fds - One(disp[d].retire) - (IF inFrame THEN Num(Acquired(d)) ELSE 0)
      /\ disp' = [disp EXCEPT ![d] = r]
      /\ flinger[d] = "idle" /\ UNCHANGED <<flinger, device>>
  BY DEF PowerOff
<1>2. r \in DisplayStatus /\ r.targetFence = disp[d].targetFence /\ r.retire = FALSE
  <2>1. disp[d] \in DisplayStatus
    BY DEF FencesInv, FrameType
  <2> QED BY <2>1 DEF DisplayStatus
<1> HIDE DEF r
<1>3. \A l \in Layers : layer[l] \in LayerStatus
  BY DEF FencesInv, FrameType
<1>4. /\ layer' \in [Layers -> LayerStatus]
      /\ inFrame => \A l \in Shown : layer'[l].acquire = (layer[l].acquire /\ l \notin LayersOf(d))
      /\ ~inFrame => \A l \in Shown : layer'[l].acquire = layer[l].acquire
      /\ \A l \in Shown : layer'[l].release = layer[l].release
  BY <1>1, <1>3, ShownFacts DEF LayerStatus, FencesInv
<1>5. Num(WithAcquire)' = Num(WithAcquire) - (IF inFrame THEN Num(Acquired(d)) ELSE 0)
      /\ Num(Acquired(d)) \in Nat
  <2>1. LayersOf(d) \in SUBSET Shown /\ Acquired(d) = WithAcquire \cap LayersOf(d)
    BY OwnLayers
  <2>2. CASE inFrame
    BY <1>1, <1>4, <2>1, <2>2, LayerBooks, OwnNums DEF FencesInv
  <2>3. CASE ~inFrame
    <3>1. WithAcquire' = WithAcquire
      BY <1>1, <1>4, <2>3 DEF WithAcquire, Shown
    <3> QED BY <2>1, <2>3, <3>1, OwnNums
  <2> QED BY <2>2, <2>3
<1>6. WithRelease' = WithRelease
  BY <1>1, <1>4 DEF WithRelease, Shown
<1>7. /\ Num(WithTarget)' = Num(WithTarget) /\ Num(WithRetire)' = Num(WithRetire) - One(disp[d].retire)
      /\ One(disp[d].retire) \in Int
  BY <1>1, <1>2, DisplayStep
<1>8. FrameType'
  BY <1>1, <1>2, <1>4 DEF FencesInv, FrameType
<1>9. \A l \in Shown : layer'[l].release => flinger'[DisplayOf[l]] = "fences"
  BY <1>1, <1>4 DEF FencesInv
<1> HIDE DEF inFrame
<1> QED BY <1>1, <1>5, <1>6, <1>7, <1>8, <1>9, OwnNums, Books

LEMMA PowerOnBooks ==
  ASSUME FencesInv, NEW d \in Displays, PowerOn(d)
  PROVE  FencesInv'
<1>1. disp' = [disp EXCEPT ![d] = [disp[d] EXCEPT !.power = TRUE]] /\ UNCHANGED <<layer, flinger, fds, device>>
  BY DEF PowerOn
<1>2. /\ [disp[d] EXCEPT !.power = TRUE] \in DisplayStatus
      /\ [disp[d] EXCEPT !.power = TRUE].targetFence = disp[d].targetFence
      /\ [disp[d] EXCEPT !.power = TRUE].retire = disp[d].retire
  <2>1. disp[d] \in DisplayStatus
    BY DEF FencesInv, FrameType
  <2> QED BY <2>1 DEF DisplayStatus
<1>3. FrameType'
  BY <1>1, <1>2 DEF FencesInv, FrameType
<1>4. \A e \in Displays : disp'[e].targetFence = disp[e].targetFence /\ disp'[e].retire = disp[e].retire
  BY <1>1, <1>2 DEF FencesInv, FrameType
<1> QED BY <1>1, <1>3, <1>4, SameBooks DEF FencesInv

LEMMA DeathBooks ==
  ASSUME FencesInv, ClientDies
  PROVE  FencesInv'
<1>1. /\ layer' = [l \in Layers |-> NewLayer] /\ flinger' = [d \in Displays |-> "idle"]
      /\ device' = [device EXCEPT !.layers = {}]
      /\ disp' = [d \in Displays |-> IF d \notin Plugged THEN disp[d] ELSE [disp[d] EXCEPT
                  !.target = "none", !.skipInit = FALSE, !.skip = FALSE, !.enableSkip = TRUE,
                  !.skipFrame = FALSE, !.rendering = "PRESENTED", !.retire = FALSE]]
      /\ fds' = fds - Num(Shown) - Num(WithAcquire) - Num({d \in Plugged : disp[d].retire})
      /\ \A d \in Plugged : flinger[d] # "fences"
  BY DEF ClientDies, WithAcquire
<1>2. NewLayer \in LayerStatus /\ NewLayer.acquire = TRUE /\ NewLayer.release = FALSE
  BY DEF NewLayer, LayerStatus, Type
<1>3. /\ Shown \subseteq Layers /\ Plugged \subseteq Displays /\ IsFiniteSet(Shown) /\ IsFiniteSet(Plugged)
      /\ IsFiniteSet(WithAcquire) /\ IsFiniteSet(WithTarget) /\ IsFiniteSet(WithRetire)
  BY ShownFacts, FrameAssumption, FS_Subset DEF FencesInv
<1>4. ASSUME NEW d \in Displays
      PROVE  /\ disp'[d] \in DisplayStatus
             /\ disp'[d].targetFence = disp[d].targetFence
             /\ disp'[d].retire = (disp[d].retire /\ d \notin Plugged)
  <2>1. disp[d] \in DisplayStatus
    BY DEF FencesInv, FrameType
  <2>2. CASE d \in Plugged
    BY <1>1, <2>1, <2>2 DEF DisplayStatus
  <2>3. CASE d \notin Plugged
    BY <1>1, <2>1, <2>3 DEF DisplayStatus
  <2> QED BY <2>2, <2>3
<1>5. FrameType' /\ Shown' = {}
  BY <1>1, <1>2, <1>4 DEF FencesInv, FrameType, DeviceStatus, Shown
<1>6. WithRelease = {}
  <2>1. \A l \in Shown : DisplayOf[l] \in Plugged
    BY DEF Plugged, Shown, FencesInv, FrameType
  <2> QED BY <1>1, <2>1 DEF FencesInv, WithRelease
<1>7. /\ WithAcquire' = {} /\ WithRelease' = {} /\ WithTarget' = WithTarget
      /\ WithRetire' = WithRetire \ Plugged /\ {d \in Plugged : disp[d].retire} = WithRetire \cap Plugged
  BY <1>3, <1>4, <1>5 DEF WithAcquire, WithRelease, WithTarget, WithRetire
<1>8. Num(WithRetire)' = Num(WithRetire) - Num(WithRetire \cap Plugged) /\ Num(WithRetire \cap Plugged) \in Nat
  BY <1>3, <1>7, NumWithout
<1>9. /\ Num(Shown)' = 0 /\ Num(WithAcquire)' = 0 /\ Num(WithRelease)' = 0
      /\ Num(WithRelease) = 0 /\ Num(WithTarget)' = Num(WithTarget) /\ Num(Shown) \in Nat
  BY <1>5, <1>6, <1>7, EmptyNum, OwnNums
<1>10. fds' = Num(Shown)' + Num(WithAcquire)' + Num(WithRelease)' + Num(WithTarget)' + Num(WithRetire)'
  <2>1. fds = Num(Shown) + Num(WithAcquire) + Num(WithRelease) + Num(WithTarget) + Num(WithRetire)
    BY DEF FencesInv
  <2>2. fds' = fds - Num(Shown) - Num(WithAcquire) - Num(WithRetire \cap Plugged)
    BY <1>1, <1>7
  <2>3. Num(WithAcquire) \in Nat /\ Num(WithTarget) \in Nat /\ Num(WithRetire) \in Nat
    BY OwnNums
  <2> QED BY <1>8, <1>9, <2>1, <2>2, <2>3
<1> QED BY <1>5, <1>10 DEF FencesInv

LEMMA InitBooks == FrameInit => FencesInv
<1> SUFFICES ASSUME FrameInit PROVE FencesInv
  OBVIOUS
<1>1. NewLayer \in LayerStatus /\ NewLayer.acquire = TRUE /\ NewLayer.release = FALSE
  BY DEF NewLayer, LayerStatus, Type
<1>2. FrameType
  <2>1. disp \in [Displays -> DisplayStatus]
    BY DEF FrameInit, DisplayStatus
  <2>2. device \in DeviceStatus /\ device.layers \subseteq device.may
    BY FrameAssumption DEF FrameInit, DeviceStatus
  <2> QED BY <1>1, <2>1, <2>2 DEF FrameInit, FrameType
<1>3. Shown \subseteq Layers /\ IsFiniteSet(Shown)
  BY <1>2, ShownFacts
<1>4. WithAcquire = Shown /\ WithRelease = {} /\ WithTarget = {} /\ WithRetire = {}
  BY <1>1, <1>3 DEF FrameInit, WithAcquire, WithRelease, WithTarget, WithRetire
<1>5. Num(Shown) \in Nat
  BY <1>3, FS_CardinalityType DEF Num
<1>6. fds = 2 * Num(Shown)
  BY DEF FrameInit
<1>7. \A l \in Shown : layer[l].release = FALSE
  BY <1>1, <1>3 DEF FrameInit
<1> QED BY <1>2, <1>4, <1>5, <1>6, <1>7, EmptyNum DEF FencesInv

LEMMA StepBooks == FencesInv /\ [FrameNext]_frameVars => FencesInv'
<1> SUFFICES ASSUME FencesInv, [FrameNext]_frameVars PROVE FencesInv'
  OBVIOUS
<1>1. Plugged \subseteq Displays
  BY ShownFacts DEF FencesInv
<1>2. ASSUME NEW l \in Shown, SetLayerGeometry(l) \/ DestroyLayer(l) PROVE FencesInv'
  BY <1>2, GeometryBooks, DestroyBooks
<1>12. ASSUME NEW l \in device.may, CreateLayer(l) PROVE FencesInv'
  BY <1>12, CreateBooks
<1>3. ASSUME NEW d \in Plugged, NEW posted \in SUBSET LayersOf(d), NEW types \in [LayersOf(d) -> Type],
             NEW next \in {"try", "validate"}, BeginFrame(d, posted, types, next)
      PROVE  FencesInv'
  BY <1>1, <1>3, BeginBooks
<1>4. ASSUME NEW d \in Plugged, NEW fails \in BOOLEAN, ValidateDisplay(d, fails) PROVE FencesInv'
  BY <1>1, <1>4, ValidateBooks
<1>5. ASSUME NEW d \in Plugged, AcceptDisplayChanges(d) \/ HalAccepts(d) \/ PresentNotValidated(d)
      PROVE  FencesInv'
  BY <1>1, <1>5, AcceptBooks, HalAcceptBooks, NotValidatedBooks
<1>6. ASSUME NEW d \in Plugged, PresentDropped(d) \/ PresentSkipFrame(d) \/ PresentFrame(d) \/ PresentNoLayers(d)
      PROVE  FencesInv'
  BY <1>1, <1>6, DroppedBooks, SkipBooks, PresentBooks, NoLayersBooks
<1>7. ASSUME NEW d \in Plugged, PresentFails(d) \/ CommitFails(d) \/ GetReleaseFences(d)
      PROVE  FencesInv'
  BY <1>1, <1>7, FailBooks, ReleaseBooks
<1>8. ASSUME NEW d \in Plugged, PowerOff(d) \/ PowerOn(d) PROVE FencesInv'
  BY <1>1, <1>8, PowerOffBooks, PowerOnBooks
<1>9. CASE SwitchTui
  BY <1>9, SameBooks DEF SwitchTui, FencesInv, FrameType
<1>10. CASE ClientDies
  BY <1>10, DeathBooks
<1>11. CASE UNCHANGED frameVars
  BY <1>11, SameBooks DEF FencesInv, FrameType
<1> QED BY <1>2, <1>3, <1>4, <1>5, <1>6, <1>7, <1>8, <1>9, <1>10, <1>11, <1>12 DEF FrameNext

(* Through frames that are shown, dropped, skipped or fail, power changes, *)
(* the trusted UI and the death of SurfaceFlinger, the HWC has exactly the *)
(* fences open that its layers and displays hold: none leaks, and none is  *)
(* closed twice.                                                           *)
THEOREM FencesAreNeitherLostNorClosedTwice == FrameSpec => []EveryFenceHasOneOwner
<1>1. FencesInv => EveryFenceHasOneOwner
  BY DEF FencesInv, EveryFenceHasOneOwner, WithAcquire, WithRelease, WithTarget, WithRetire
<1> QED BY <1>1, InitBooks, StepBooks, PTL DEF FrameSpec
-----------------------------------------------------------------------------
(* What a frame shows.                                                     *)

\* The display waits for the present of a frame that was validated.
Awaiting(d) == disp[d].rendering \in {"VALIDATED", "ACCEPTED"}

(* Where SurfaceFlinger and the HWC are in the frame of a display.         *)
StageInv(d) ==
  /\ flinger[d] # "idle" => disp[d].power
  /\ ~disp[d].power => disp[d].rendering = "NONE" /\ ~disp[d].skipInit
  /\ disp[d].rendering = "VALIDATED" => flinger[d] \in {"compose", "present"}
  /\ disp[d].rendering = "ACCEPTED" => flinger[d] = "present"
  /\ flinger[d] = "compose" => disp[d].rendering = "VALIDATED"
  /\ flinger[d] = "present" => Awaiting(d)
  /\ disp[d].skipFrame => ~disp[d].skipInit

(* The flag is set while a display that is on waits for its assignment.    *)
ChangeInv(d) ==
  /\ d \in unassigned => (disp[d].power => geometry) /\ ~Awaiting(d)
  /\ disp[d].power /\ disp[d].rendering = "NONE" /\ flinger[d] # "validate" => geometry

(* SurfaceFlinger knows how the layers of a frame are composed; that of    *)
(* the last frame holds until the flag is set.                             *)
TypesInv(d) ==
  \A l \in LayersOf(d) :
     /\ Awaiting(d) => layer[l].acquire
     /\ disp[d].rendering = "VALIDATED" /\ flinger[d] = "present" =>
          layer[l].valid # "client" /\ layer[l].type = layer[l].valid
     /\ disp[d].rendering = "ACCEPTED" => layer[l].type = Reported(d, l)
     /\ disp[d].rendering = "PRESENTED" /\ ~geometry =>
          layer[l].type = Reported(d, l) \/ Reported(d, l) = "client"

(* A frame that was accepted has a client target with its layers, or       *)
(* reuses that of the last frame.                                          *)
TargetInv(d) ==
  disp[d].rendering = "ACCEPTED" /\ ~disp[d].skip /\ ClientLayers(d) # {} =>
     disp[d].target # "none" /\ ClientLayers(d) \subseteq fresh[d]

(* The client target is reused only with the layers it was recorded for.   *)
ReuseInv(d) ==
  /\ disp[d].skipInit /\ ~geometry => ClientLayers(d) # {}
  /\ Awaiting(d) /\ disp[d].skip => disp[d].skipInit
  /\ Awaiting(d) /\ disp[d].skipInit => ClientLayers(d) # {} /\ SameSource(disp[d], ClientLayers(d))
  /\ disp[d].rendering = "PRESENTED" /\ disp[d].skip /\ ~disp[d].skipInit => geometry

(* A layer that still has the recorded buffer has the content that the     *)
(* client target holds, once the target is composed: no buffer comes back  *)
(* before the layers were compared.                                        *)
SourceInv(d) ==
  ~device.hasTui /\ disp[d].skipInit =>
     /\ (disp[d].rendering = "VALIDATED" => disp[d].skip) =>
          \A l \in Layers : disp[d].source[l] = "same" => l \in fresh[d]
     /\ flinger[d] \in {"idle", "fences"} => \A l \in Layers : disp[d].source[l] # "other"

FrameOf(d) == StageInv(d) /\ ChangeInv(d) /\ TypesInv(d) /\ TargetInv(d) /\ ReuseInv(d) /\ SourceInv(d)

LatestInv ==
  /\ FencesInv
  /\ fresh \in [Displays -> SUBSET Layers]
  /\ tui => device.hasTui
  /\ \A d \in Plugged : FrameOf(d)
  /\ \A d \in Displays \ Plugged : flinger[d] = "idle"

\* What FrameOf says of a display can be changed only by its own steps.
SameDisplay(d) ==
  /\ flinger'[d] = flinger[d] /\ fresh'[d] = fresh[d]
  /\ disp'[d].rendering = disp[d].rendering /\ disp'[d].power = disp[d].power
  /\ disp'[d].skipFrame = disp[d].skipFrame /\ disp'[d].skipInit = disp[d].skipInit
  /\ disp'[d].skip = disp[d].skip /\ disp'[d].source = disp[d].source
  /\ disp'[d].target = disp[d].target
  /\ \A l \in LayersOf(d) : /\ layer'[l].acquire = layer[l].acquire
                            /\ layer'[l].type = layer[l].type /\ layer'[l].valid = layer[l].valid

LEMMA OthersKeep ==
  ASSUME NEW d, FrameOf(d), SameDisplay(d), LayersOf(d)' = LayersOf(d), device'.hasTui = device.hasTui,
         d \in unassigned' => d \in unassigned,
         geometry /\ ~geometry' => (disp[d].power => Awaiting(d))
  PROVE  FrameOf(d)'
<1>1. LayersOf(d)' = LayersOf(d)
  OBVIOUS
<1>2. Awaiting(d)' <=> Awaiting(d)
  BY DEF SameDisplay, Awaiting
<1>3. ClientLayers(d)' = ClientLayers(d)
  BY <1>1 DEF ClientLayers, SameDisplay
<1>4. \A l \in LayersOf(d) : Reported(d, l)' = Reported(d, l)
  BY DEF Reported, SameDisplay
<1>5. SameSource(disp[d], ClientLayers(d))' <=> SameSource(disp[d], ClientLayers(d))
  BY <1>3 DEF SameSource, SameDisplay
<1>6. StageInv(d)'
  BY <1>2 DEF FrameOf, StageInv, SameDisplay
<1>7. ChangeInv(d)'
  BY <1>2 DEF FrameOf, ChangeInv, SameDisplay, Awaiting
<1>8. TypesInv(d)'
  <2>1. SUFFICES ASSUME NEW l \in LayersOf(d)
                 PROVE
     /\ Awaiting(d)' => layer'[l].acquire
     /\ disp'[d].rendering = "VALIDATED" /\ flinger'[d] = "present" =>
          layer'[l].valid # "client" /\ layer'[l].type = layer'[l].valid
     /\ disp'[d].rendering = "ACCEPTED" => layer'[l].type = Reported(d, l)'
     /\ disp'[d].rendering = "PRESENTED" /\ ~geometry' =>
          layer'[l].type = Reported(d, l)' \/ Reported(d, l)' = "client"
    BY <1>1 DEF TypesInv
  <2>2. disp[d].rendering = "PRESENTED" => disp[d].power /\ ~Awaiting(d)
    BY DEF FrameOf, StageInv, Awaiting
  <2> QED BY <1>2, <1>4, <2>1, <2>2 DEF FrameOf, TypesInv, SameDisplay
<1>9. TargetInv(d)'
  BY <1>3 DEF FrameOf, TargetInv, SameDisplay
<1>10. ReuseInv(d)'
  <2>2. disp[d].rendering = "PRESENTED" => disp[d].power /\ ~Awaiting(d)
    BY DEF FrameOf, StageInv, Awaiting
  <2>3. ~disp[d].power => ~disp[d].skipInit
    BY DEF FrameOf, StageInv
  <2> QED BY <1>2, <1>3, <1>5, <2>2, <2>3 DEF FrameOf, ReuseInv, SameDisplay
<1>11. SourceInv(d)'
  BY DEF FrameOf, SourceInv, SameDisplay
<1> QED BY <1>6, <1>7, <1>8, <1>9, <1>10, <1>11 DEF FrameOf

(* A step of one display, with the layers of that display alone.           *)
LEMMA OneDisplaySteps ==
  ASSUME LatestInv, NEW d \in Plugged, FencesInv', device' = device, tui' = tui,
         fresh' \in [Displays -> SUBSET Layers],
         \A e \in Displays \ {d} : SameDisplay(e), FrameOf(d)',
         unassigned' \subseteq unassigned \cup {d},
         geometry /\ ~geometry' => \A e \in Plugged \ {d} : disp[e].power => Awaiting(e)
  PROVE  LatestInv'
<1>1. Plugged' = Plugged /\ Plugged \subseteq Displays
  BY ShownFacts DEF Plugged, Shown, LatestInv, FencesInv
<1>2. ASSUME NEW e \in Plugged, e # d PROVE FrameOf(e)'
  <2>1. LayersOf(e)' = LayersOf(e)
    BY DEF LayersOf, Shown
  <2> QED BY <1>1, <1>2, <2>1, OthersKeep DEF LatestInv
<1>3. \A e \in Displays \ Plugged : flinger'[e] = "idle"
  BY <1>1 DEF LatestInv, SameDisplay
<1> QED BY <1>1, <1>2, <1>3 DEF LatestInv

LEMMA Elsewhere ==
  ASSUME LatestInv, NEW d \in Displays, NEW r, disp' = [disp EXCEPT ![d] = r],
         \A l \in Layers \ LayersOf(d) : layer'[l] = layer[l],
         NEW at, flinger' = [flinger EXCEPT ![d] = at],
         NEW f, fresh' = [fresh EXCEPT ![d] = f]
  PROVE  /\ \A e \in Displays \ {d} : SameDisplay(e)
         /\ disp'[d] = r /\ flinger'[d] = at /\ fresh'[d] = f
         /\ \A l \in LayersOf(d) : l \in Layers
<1>1. \A e \in Displays \ {d} : \A l \in LayersOf(e) : l \in Layers \ LayersOf(d)
  BY ShownFacts DEF LayersOf, LatestInv, FencesInv
<1>2. \A l \in LayersOf(d) : l \in Layers
  BY ShownFacts DEF LatestInv, FencesInv
<1> QED BY <1>1, <1>2 DEF SameDisplay, LatestInv, FencesInv, FrameType

\* What is the same before and after a step of d.
LEMMA SameLayersOf ==
  ASSUME device' = device, NEW d
  PROVE  /\ LayersOf(d)' = LayersOf(d)
         /\ (\A l \in LayersOf(d) : layer'[l].valid = layer[l].valid)
              => ClientLayers(d)' = ClientLayers(d)
<1>1. LayersOf(d)' = LayersOf(d)
  BY DEF LayersOf, Shown
<1> QED BY <1>1 DEF ClientLayers

(* A display changes between two frames: one of its layers comes, goes or  *)
(* moves.  The flag is set, and nothing is said of its layers until the    *)
(* next assignment.                                                        *)
LEMMA ChangeLatest ==
  ASSUME LatestInv, FencesInv', NEW d \in Plugged, flinger[d] = "idle", SetGeometry({d}),
         fresh' \in [Displays -> SUBSET Layers],
         \A e \in Displays \ {d} : disp'[e] = disp[e] /\ fresh'[e] = fresh[e],
         disp'[d].rendering = disp[d].rendering, disp'[d].power = disp[d].power,
         disp'[d].skipFrame = disp[d].skipFrame,
         disp'[d].skipInit = disp[d].skipInit, disp'[d].skip = disp[d].skip,
         \A k \in Layers : disp'[d].source[k] = "same" =>
            disp[d].source[k] = "same" /\ (k \in fresh[d] => k \in fresh'[d]),
         \A k \in Layers : disp'[d].source[k] = "other" => disp[d].source[k] = "other",
         \A k \in Layers : DisplayOf[k] # d => layer'[k] = layer[k],
         \A e \in Displays \ {d} : LayersOf(e)' = LayersOf(e),
         device'.hasTui = device.hasTui, device'.may = device.may, UNCHANGED <<flinger, tui>>
  PROVE  LatestInv'
<1>1. d \in Displays /\ FrameOf(d) /\ Plugged' = Plugged /\ Plugged \subseteq Displays
  BY ShownFacts DEF LatestInv, FencesInv, Plugged
<1>2. geometry' = TRUE /\ unassigned' = unassigned \cup {d} /\ flinger'[d] = "idle"
  BY <1>1 DEF SetGeometry
<1>3. \A e \in Displays \ {d} : SameDisplay(e)
  <2>1. \A e : \A l \in LayersOf(e) : l \in Layers /\ DisplayOf[l] = e
    BY ShownFacts DEF LayersOf, LatestInv, FencesInv
  <2> QED BY <1>1, <2>1 DEF SameDisplay
<1>4. disp[d].rendering \notin {"VALIDATED", "ACCEPTED"}
  BY <1>1 DEF FrameOf, StageInv
<1>5. StageInv(d)' /\ ChangeInv(d)'
  BY <1>1, <1>2, <1>4 DEF FrameOf, StageInv, ChangeInv, Awaiting
<1>6. TypesInv(d)' /\ TargetInv(d)' /\ ReuseInv(d)'
  BY <1>2, <1>4 DEF TypesInv, TargetInv, ReuseInv, Awaiting
<1>7. SourceInv(d)'
  <2>1. SUFFICES ASSUME ~device.hasTui, disp[d].skipInit
                 PROVE  \A k \in Layers : /\ disp'[d].source[k] = "same" => k \in fresh'[d]
                                          /\ disp'[d].source[k] # "other"
    BY <1>2 DEF SourceInv
  <2> QED BY <1>1, <1>4, <2>1 DEF FrameOf, SourceInv
<1>8. \A e \in Plugged : FrameOf(e)'
  <2>1. ASSUME NEW e \in Plugged, e # d PROVE FrameOf(e)'
    BY <1>1, <1>2, <1>3, <2>1, OthersKeep DEF LatestInv
  <2> QED BY <1>5, <1>6, <1>7, <2>1 DEF FrameOf
<1>9. \A e \in Displays \ Plugged : flinger'[e] = "idle"
  BY DEF LatestInv
<1> QED BY <1>1, <1>2, <1>8, <1>9 DEF LatestInv

\* What MovedIn does to the record of the client target.
LEMMA MovedFacts ==
  ASSUME LatestInv, NEW l \in Layers, MovedIn(l)
  PROVE  /\ \A e \in Displays \ {DisplayOf[l]} : disp'[e] = disp[e]
         /\ disp'[DisplayOf[l]].rendering = disp[DisplayOf[l]].rendering
         /\ disp'[DisplayOf[l]].power = disp[DisplayOf[l]].power
         /\ disp'[DisplayOf[l]].skipFrame = disp[DisplayOf[l]].skipFrame
         /\ disp'[DisplayOf[l]].skipInit = disp[DisplayOf[l]].skipInit
         /\ disp'[DisplayOf[l]].skip = disp[DisplayOf[l]].skip
         /\ \A k \in Layers : disp'[DisplayOf[l]].source[k] = "same" =>
               disp[DisplayOf[l]].source[k] = "same" /\ k # l
         /\ \A k \in Layers : disp'[DisplayOf[l]].source[k] = "other" =>
               disp[DisplayOf[l]].source[k] = "other"
<1> DEFINE d == DisplayOf[l]
           sources == [disp[d].source EXCEPT ![l] = Moved(disp[d].source[l])]
           r == [disp[d] EXCEPT !.source = sources]
<1>1. d \in Displays /\ disp[d] \in DisplayStatus
  BY FrameAssumption DEF LatestInv, FencesInv, FrameType
<1>2. /\ \A k \in Layers : sources[k] = "same" => disp[d].source[k] = "same" /\ k # l
      /\ \A k \in Layers : sources[k] = "other" => disp[d].source[k] = "other"
  BY <1>1 DEF DisplayStatus, Moved
<1>3. disp' = [disp EXCEPT ![d] = r]
  BY DEF MovedIn
<1> HIDE DEF sources
<1>4. /\ r.rendering = disp[d].rendering /\ r.power = disp[d].power /\ r.skipFrame = disp[d].skipFrame
      /\ r.skipInit = disp[d].skipInit /\ r.skip = disp[d].skip /\ r.source = sources
  BY <1>1 DEF DisplayStatus
<1> HIDE DEF r
<1>5. disp'[d] = r /\ \A e \in Displays \ {d} : disp'[e] = disp[e]
  BY <1>1, <1>3 DEF LatestInv, FencesInv, FrameType
<1> QED BY <1>2, <1>4, <1>5

LEMMA MovedLatest ==
  ASSUME LatestInv, FencesInv', NEW l \in Layers, DisplayOf[l] \in Plugged, MovedIn(l),
         flinger[DisplayOf[l]] = "idle", SetGeometry({DisplayOf[l]}),
         fresh' = [fresh EXCEPT ![DisplayOf[l]] = fresh[DisplayOf[l]] \ {l}],
         \A k \in Layers : DisplayOf[k] # DisplayOf[l] => layer'[k] = layer[k],
         \A e \in Displays \ {DisplayOf[l]} : LayersOf(e)' = LayersOf(e),
         device'.hasTui = device.hasTui, device'.may = device.may, UNCHANGED <<flinger, tui>>
  PROVE  LatestInv'
<1> DEFINE d == DisplayOf[l]
<1>1. d \in Displays
  BY FrameAssumption
<1>2. /\ fresh' \in [Displays -> SUBSET Layers] /\ fresh'[d] = fresh[d] \ {l}
      /\ \A e \in Displays \ {d} : fresh'[e] = fresh[e]
  BY <1>1 DEF LatestInv
<1>3. /\ \A e \in Displays \ {d} : disp'[e] = disp[e]
      /\ disp'[d].rendering = disp[d].rendering /\ disp'[d].power = disp[d].power
      /\ disp'[d].skipFrame = disp[d].skipFrame
      /\ disp'[d].skipInit = disp[d].skipInit /\ disp'[d].skip = disp[d].skip
      /\ \A k \in Layers : disp'[d].source[k] = "same" => disp[d].source[k] = "same" /\ k # l
      /\ \A k \in Layers : disp'[d].source[k] = "other" => disp[d].source[k] = "other"
  BY MovedFacts
<1>4. \A k \in Layers : disp'[d].source[k] = "same" =>
         disp[d].source[k] = "same" /\ (k \in fresh[d] => k \in fresh'[d])
  BY <1>2, <1>3
<1> QED BY <1>2, <1>3, <1>4, ChangeLatest

LEMMA GeometryLatest ==
  ASSUME LatestInv, NEW l \in Shown, SetLayerGeometry(l)
  PROVE  LatestInv'
<1>1. /\ l \in Layers /\ DisplayOf[l] \in Plugged /\ MovedIn(l) /\ FencesInv'
      /\ flinger[DisplayOf[l]] = "idle" /\ SetGeometry({DisplayOf[l]}) /\ UNCHANGED <<layer, flinger, device, tui>>
      /\ fresh' = [fresh EXCEPT ![DisplayOf[l]] = fresh[DisplayOf[l]] \ {l}]
  BY ShownFacts, GeometryBooks DEF SetLayerGeometry, MovedIn, LatestInv, FencesInv, FrameType, Plugged, Shown
<1>2. \A e : LayersOf(e)' = LayersOf(e)
  BY <1>1 DEF LayersOf, Shown
<1> QED BY <1>1, <1>2, MovedLatest

LEMMA DestroyLatest ==
  ASSUME LatestInv, NEW l \in Shown, DestroyLayer(l)
  PROVE  LatestInv'
<1>1. /\ l \in Layers /\ DisplayOf[l] \in Plugged /\ MovedIn(l) /\ FencesInv'
      /\ flinger[DisplayOf[l]] = "idle" /\ SetGeometry({DisplayOf[l]}) /\ UNCHANGED <<flinger, tui>>
      /\ fresh' = [fresh EXCEPT ![DisplayOf[l]] = fresh[DisplayOf[l]] \ {l}]
      /\ layer' = [layer EXCEPT ![l] = NewLayer]
      /\ device' = [device EXCEPT !.layers = device.layers \ {l}]
  BY ShownFacts, DestroyBooks DEF DestroyLayer, MovedIn, LatestInv, FencesInv, FrameType, Plugged, Shown
<1>2. device'.hasTui = device.hasTui /\ device'.may = device.may /\ Shown' = Shown \ {l}
  BY <1>1 DEF LatestInv, FencesInv, FrameType, DeviceStatus, Shown
<1>3. /\ \A e \in Displays \ {DisplayOf[l]} : LayersOf(e)' = LayersOf(e)
      /\ \A k \in Layers : DisplayOf[k] # DisplayOf[l] => layer'[k] = layer[k]
  BY <1>1, <1>2, ShownFacts DEF LayersOf, LatestInv, FencesInv, FrameType
<1> QED BY <1>1, <1>2, <1>3, MovedLatest

LEMMA CreateLatest ==
  ASSUME LatestInv, NEW l \in device.may, CreateLayer(l)
  PROVE  LatestInv'
<1>1. /\ l \in Layers /\ DisplayOf[l] \in Plugged /\ DisplayOf[l] \in Displays /\ FencesInv'
      /\ flinger[DisplayOf[l]] = "idle" /\ SetGeometry({DisplayOf[l]}) /\ UNCHANGED <<disp, fresh, flinger, tui>>
      /\ layer' = [layer EXCEPT ![l] = NewLayer]
      /\ device' = [device EXCEPT !.layers = device.layers \cup {l}]
  BY FrameAssumption, CreateBooks DEF CreateLayer, LatestInv, FencesInv, FrameType, DeviceStatus, Plugged
<1>2. device'.hasTui = device.hasTui /\ device'.may = device.may /\ Shown' = Shown \cup {l}
  BY <1>1 DEF LatestInv, FencesInv, FrameType, DeviceStatus, Shown
<1>3. /\ \A e \in Displays \ {DisplayOf[l]} : LayersOf(e)' = LayersOf(e)
      /\ \A k \in Layers : DisplayOf[k] # DisplayOf[l] => layer'[k] = layer[k]
  BY <1>1, <1>2, ShownFacts DEF LayersOf, LatestInv, FencesInv, FrameType
<1>4. fresh' \in [Displays -> SUBSET Layers]
  BY <1>1 DEF LatestInv
<1> QED BY <1>1, <1>2, <1>3, <1>4, ChangeLatest

LEMMA BeginLatest ==
  ASSUME LatestInv, NEW d \in Plugged, NEW posted \in SUBSET LayersOf(d), NEW types \in [LayersOf(d) -> Type],
         NEW next \in {"try", "validate"}, BeginFrame(d, posted, types, next)
  PROVE  LatestInv'
<1> DEFINE sources == [l \in Layers |-> IF l \in posted THEN Swap(disp[d].source[l]) ELSE disp[d].source[l]]
           r == [disp[d] EXCEPT !.source = sources]
<1>1. d \in Displays
  BY ShownFacts DEF LatestInv, FencesInv
<1>2. /\ disp' = [disp EXCEPT ![d] = r] /\ fresh' = [fresh EXCEPT ![d] = fresh[d] \ posted]
      /\ flinger[d] = "idle" /\ disp[d].power /\ flinger' = [flinger EXCEPT ![d] = next]
      /\ (geometry' = TRUE /\ unassigned' = unassigned \cup {d})
         \/ ((\A l \in LayersOf(d) : layer[l].type = types[l]) /\ UNCHANGED <<geometry, unassigned>>)
      /\ layer' = [l \in Layers |->
           IF l \notin LayersOf(d) THEN layer[l]
           ELSE [(IF l \in posted THEN SetLayerBuffer(layer[l]) ELSE layer[l]) EXCEPT !.type = types[l]]]
      /\ UNCHANGED <<device, tui>>
  BY DEF BeginFrame, SetGeometry, On
<1>3. disp[d] \in DisplayStatus
  BY <1>1 DEF LatestInv, FencesInv, FrameType
<1> HIDE DEF sources
<1>4. /\ r.rendering = disp[d].rendering /\ r.power = disp[d].power /\ r.skipFrame = disp[d].skipFrame
      /\ r.skipInit = disp[d].skipInit /\ r.skip = disp[d].skip /\ r.target = disp[d].target
      /\ r.source = sources /\ disp[d].source \in [Layers -> {"none", "same", "other", "moved"}]
  BY <1>3 DEF DisplayStatus
<1> HIDE DEF r
<1>5. fresh' \in [Displays -> SUBSET Layers] /\ \A l \in Layers \ LayersOf(d) : layer'[l] = layer[l]
  BY <1>1, <1>2 DEF LatestInv
<1>6. /\ \A e \in Displays \ {d} : SameDisplay(e)
      /\ disp'[d] = r /\ flinger'[d] = next /\ fresh'[d] = fresh[d] \ posted
  BY <1>1, <1>2, <1>5, Elsewhere
<1>7. FencesInv'
  BY <1>1, BeginBooks DEF LatestInv
<1>8. \A l \in LayersOf(d) : layer'[l].type = types[l] /\ layer'[l].valid = layer[l].valid
  <2>1. SUFFICES ASSUME NEW l \in LayersOf(d) PROVE layer'[l].type = types[l] /\ layer'[l].valid = layer[l].valid
    OBVIOUS
  <2>2. l \in Layers /\ layer[l] \in LayerStatus
    BY ShownFacts DEF LatestInv, FencesInv, FrameType
  <2>3. layer'[l] = [(IF l \in posted THEN SetLayerBuffer(layer[l]) ELSE layer[l]) EXCEPT !.type = types[l]]
    BY <1>2, <2>2
  <2> QED BY <2>2, <2>3 DEF SetLayerBuffer, LayerStatus
<1>9. FrameOf(d)'
  <2>1. FrameOf(d)
    BY DEF LatestInv
  <2>2. disp[d].rendering \notin {"VALIDATED", "ACCEPTED"}
    BY <1>2, <2>1 DEF FrameOf, StageInv
  <2>3. StageInv(d)' /\ ChangeInv(d)'
    BY <1>2, <1>4, <1>6, <2>1, <2>2 DEF FrameOf, StageInv, ChangeInv, Awaiting
  <2>4. TypesInv(d)'
    <3>1. LayersOf(d)' = LayersOf(d) /\ (geometry' \/ (geometry' = geometry /\ \A l \in LayersOf(d) : layer'[l].type = layer[l].type))
      BY <1>2, <1>8, SameLayersOf
    <3>2. \A l \in LayersOf(d) : Reported(d, l)' = Reported(d, l)
      BY <1>4, <1>6, <1>8 DEF Reported
    <3>3. TypesInv(d)
      BY <2>1 DEF FrameOf
    <3> QED BY <1>2, <1>4, <1>6, <1>8, <2>2, <3>1, <3>2, <3>3 DEF TypesInv, Awaiting
  <2>5. TargetInv(d)'
    BY <1>4, <1>6, <2>2 DEF TargetInv
  <2>6. ReuseInv(d)'
    BY <1>2, <1>4, <1>6, <1>8, <2>1, <2>2, SameLayersOf DEF FrameOf, ReuseInv, Awaiting
  <2>7. SourceInv(d)'
    <3>1. SUFFICES ASSUME ~device.hasTui, disp[d].skipInit
                   PROVE  \A l \in Layers : sources[l] = "same" => l \in fresh[d] \ posted
      BY <1>2, <1>4, <1>6 DEF SourceInv
    <3>2. \A l \in Layers : /\ disp[d].source[l] # "other"
                            /\ disp[d].source[l] = "same" => l \in fresh[d]
      BY <1>2, <2>1, <2>2, <3>1 DEF FrameOf, SourceInv
    <3> QED BY <1>4, <3>2 DEF sources, Swap
  <2> QED BY <2>3, <2>4, <2>5, <2>6, <2>7 DEF FrameOf
<1> QED BY <1>1, <1>2, <1>5, <1>6, <1>7, <1>9, OneDisplaySteps

\* What becomes of the reuse of a client target, of a display with status r.
LEMMA SkipFacts ==
  ASSUME NEW r \in DisplayStatus, NEW clients, NEW s, s = SkipStaticLayers(r, clients)
  PROVE  /\ s.rendering = r.rendering /\ s.power = r.power /\ s.skipFrame = r.skipFrame
         /\ s.target = r.target
         /\ s.skip => s.skipInit /\ r.skipInit
         /\ s.skipInit => clients # {} /\ s.source = [l \in Layers |-> IF l \in clients THEN "same" ELSE "none"]
         /\ s.skip => s.source = r.source
<1> DEFINE sources == [l \in Layers |-> IF l \in clients THEN "same" ELSE "none"]
<1>1. CASE ~device.skipStatic \/ ~r.enableSkip \/ clients = {}
  <2>1. s = [r EXCEPT !.skip = FALSE, !.skipInit = FALSE]
    BY <1>1 DEF SkipStaticLayers
  <2> QED BY <2>1 DEF DisplayStatus
<1>2. CASE ~(~device.skipStatic \/ ~r.enableSkip \/ clients = {}) /\ r.skipInit
  <2>1. s = [r EXCEPT !.skip = SameSource(r, clients), !.skipInit = SameSource(r, clients)]
    BY <1>2 DEF SkipStaticLayers
  <2>2. SameSource(r, clients) <=> r.source = sources
    BY DEF SameSource
  <2>3. SameSource(r, clients) \in BOOLEAN
    BY DEF SameSource
  <2> HIDE DEF sources
  <2>4. \A same \in BOOLEAN :
          LET q == [r EXCEPT !.skip = same, !.skipInit = same]
          IN  /\ q.rendering = r.rendering /\ q.power = r.power /\ q.skipFrame = r.skipFrame
              /\ q.target = r.target /\ q.source = r.source /\ q.skip = same /\ q.skipInit = same
    BY DEF DisplayStatus
  <2>5. /\ s.rendering = r.rendering /\ s.power = r.power /\ s.skipFrame = r.skipFrame
        /\ s.target = r.target /\ s.source = r.source
        /\ s.skip = SameSource(r, clients) /\ s.skipInit = SameSource(r, clients)
    BY <2>1, <2>3, <2>4
  <2> QED BY <1>2, <2>2, <2>5 DEF sources
<1>3. CASE ~(~device.skipStatic \/ ~r.enableSkip \/ clients = {}) /\ ~r.skipInit
  <2>1. s = [r EXCEPT !.skip = FALSE, !.skipInit = TRUE, !.source = sources]
    BY <1>3 DEF SkipStaticLayers
  <2> HIDE DEF sources
  <2>2. /\ s.rendering = r.rendering /\ s.power = r.power /\ s.skipFrame = r.skipFrame
        /\ s.target = r.target /\ s.source = sources /\ s.skip = FALSE /\ s.skipInit = TRUE
    BY <2>1 DEF DisplayStatus
  <2> QED BY <1>3, <2>2 DEF sources
<1> QED BY <1>1, <1>2, <1>3

LEMMA ValidateLatest ==
  ASSUME LatestInv, NEW d \in Plugged, NEW fails \in BOOLEAN, ValidateDisplay(d, fails)
  PROVE  LatestInv'
<1>1. d \in Displays /\ flinger[d] = "validate"
  BY ShownFacts DEF LatestInv, FencesInv, ValidateDisplay
<1>2. PICK a \in Assignments(d) :
        LET types == IF fails THEN [l \in LayersOf(d) |-> "client"] ELSE a
            clients == {l \in LayersOf(d) : types[l] = "client"}
            r == [disp[d] EXCEPT !.enableSkip = EnableSkip(d), !.rendering = "VALIDATED",
                                 !.skipFrame = FALSE]
            s == IF fails THEN [r EXCEPT !.skip = FALSE, !.skipInit = FALSE]
                          ELSE SkipStaticLayers(r, clients) IN
        /\ disp' = [disp EXCEPT ![d] = s]
        /\ layer' = [l \in Layers |-> IF l \in LayersOf(d)
                                      THEN [layer[l] EXCEPT !.acquire = TRUE, !.valid = types[l]] ELSE layer[l]]
        /\ flinger' = [flinger EXCEPT ![d] =
              IF clients # {} \/ \E l \in LayersOf(d) : types[l] # layer[l].type
              THEN "compose" ELSE "present"]
  BY DEF ValidateDisplay
<1> DEFINE types == IF fails THEN [l \in LayersOf(d) |-> "client"] ELSE a
           clients == {l \in LayersOf(d) : types[l] = "client"}
           r == [disp[d] EXCEPT !.enableSkip = EnableSkip(d), !.rendering = "VALIDATED",
                                !.skipFrame = FALSE]
           s == IF fails THEN [r EXCEPT !.skip = FALSE, !.skipInit = FALSE] ELSE SkipStaticLayers(r, clients)
           at == IF clients # {} \/ \E l \in LayersOf(d) : types[l] # layer[l].type
                 THEN "compose" ELSE "present"
<1>3. /\ disp' = [disp EXCEPT ![d] = s]
      /\ layer' = [l \in Layers |-> IF l \in LayersOf(d)
                                    THEN [layer[l] EXCEPT !.acquire = TRUE, !.valid = types[l]] ELSE layer[l]]
      /\ flinger' = [flinger EXCEPT ![d] = at]
  BY <1>2
<1>4. /\ geometry' = (fails \/ (geometry /\ ~IsLastValidate(d))) /\ unassigned' = unassigned \ {d}
      /\ UNCHANGED <<fresh, device, tui>>
  BY DEF ValidateDisplay
<1> HIDE DEF types
<1>5. r \in DisplayStatus /\ r.rendering = "VALIDATED" /\ r.power = disp[d].power /\ r.skipFrame = FALSE
      /\ r.target = disp[d].target /\ r.skipInit = disp[d].skipInit /\ r.source = disp[d].source
  <2>1. disp[d] \in DisplayStatus
    BY <1>1 DEF LatestInv, FencesInv, FrameType
  <2>2. \A b \in BOOLEAN :
          LET q == [disp[d] EXCEPT !.enableSkip = b, !.rendering = "VALIDATED", !.skipFrame = FALSE]
          IN  /\ q \in DisplayStatus /\ q.rendering = "VALIDATED" /\ q.power = disp[d].power
              /\ q.skipFrame = FALSE /\ q.target = disp[d].target /\ q.skipInit = disp[d].skipInit
              /\ q.source = disp[d].source
    BY <2>1 DEF DisplayStatus
  <2>3. EnableSkip(d) \in BOOLEAN
    BY DEF EnableSkip
  <2> QED BY <2>2, <2>3
<1> HIDE DEF r
<1>6. /\ s.rendering = "VALIDATED" /\ s.power = disp[d].power /\ s.skipFrame = FALSE
      /\ s.skip => s.skipInit /\ disp[d].skipInit /\ s.source = disp[d].source
      /\ s.skipInit => clients # {} /\ s.source = [l \in Layers |-> IF l \in clients THEN "same" ELSE "none"]
  <2>1. CASE fails
    <3>1. s = [r EXCEPT !.skip = FALSE, !.skipInit = FALSE]
      BY <2>1
    <3> QED BY <3>1, <1>5 DEF DisplayStatus
  <2>2. CASE ~fails
    <3>1. s = SkipStaticLayers(r, clients)
      BY <2>2
    <3> HIDE DEF s, clients
    <3> QED BY <3>1, <1>5, SkipFacts
  <2> QED BY <2>1, <2>2
<1> HIDE DEF s
<1>7. fresh' = [fresh EXCEPT ![d] = fresh[d]] /\ fresh' \in [Displays -> SUBSET Layers]
      /\ \A l \in Layers \ LayersOf(d) : layer'[l] = layer[l]
  BY <1>1, <1>3, <1>4 DEF LatestInv
<1> HIDE DEF at
<1>8. /\ \A e \in Displays \ {d} : SameDisplay(e)
      /\ disp'[d] = s /\ flinger'[d] = at /\ fresh'[d] = fresh[d]
      /\ \A l \in LayersOf(d) : l \in Layers
  BY <1>1, <1>3, <1>7, Elsewhere
<1>9. FencesInv'
  BY <1>1, ValidateBooks DEF LatestInv
<1>10. \A l \in LayersOf(d) : /\ layer'[l].acquire = TRUE /\ layer'[l].valid = types[l]
                              /\ layer'[l].type = layer[l].type
  <2>1. \A l \in LayersOf(d) : layer[l] \in LayerStatus
    BY <1>8 DEF LatestInv, FencesInv, FrameType
  <2>2. \A l \in LayersOf(d) : layer'[l] = [layer[l] EXCEPT !.acquire = TRUE, !.valid = types[l]]
    BY <1>3, <1>8
  <2> QED BY <2>1, <2>2 DEF LayerStatus
<1>11. LayersOf(d)' = LayersOf(d) /\ ClientLayers(d)' = clients
  <2>1. LayersOf(d)' = LayersOf(d)
    BY <1>4, SameLayersOf
  <2> QED BY <2>1, <1>10 DEF ClientLayers
<1>12. at \in {"compose", "present"}
       /\ (at = "present" => clients = {} /\ \A l \in LayersOf(d) : types[l] = layer[l].type)
  BY DEF at
<1>13. FrameOf(d)'
  <2>1. FrameOf(d)
    BY DEF LatestInv
  <2>2. disp[d].rendering \notin {"VALIDATED", "ACCEPTED"} /\ disp[d].power
    BY <1>1, <2>1 DEF FrameOf, StageInv
  <2>3. StageInv(d)' /\ ChangeInv(d)'
    <3>1. d \notin unassigned' /\ disp'[d].rendering = "VALIDATED" /\ flinger'[d] \in {"compose", "present"}
          /\ disp'[d].power /\ disp'[d].skipFrame = FALSE
      BY <1>4, <1>6, <1>8, <1>12, <2>2
    <3> QED BY <3>1 DEF StageInv, ChangeInv, Awaiting
  <2>4. TypesInv(d)'
    BY <1>6, <1>8, <1>10, <1>11, <1>12 DEF TypesInv, Awaiting
  <2>5. TargetInv(d)'
    BY <1>6, <1>8 DEF TargetInv
  <2>6. ReuseInv(d)'
    BY <1>6, <1>8, <1>11 DEF ReuseInv, SameSource
  <2>7. SourceInv(d)'
    <3>1. SUFFICES ASSUME ~device.hasTui, s.skipInit, s.skip
                   PROVE  \A l \in Layers : s.source[l] = "same" => l \in fresh[d]
      BY <1>4, <1>6, <1>8, <1>12 DEF SourceInv
    <3> QED BY <1>6, <2>1, <2>2, <3>1 DEF FrameOf, SourceInv
  <2> QED BY <2>3, <2>4, <2>5, <2>6, <2>7 DEF FrameOf
<1>14. geometry /\ ~geometry' => \A e \in Plugged \ {d} : disp[e].power => Awaiting(e)
  BY <1>4 DEF IsLastValidate, On, Awaiting
<1> QED BY <1>4, <1>7, <1>8, <1>9, <1>13, <1>14, OneDisplaySteps

LEMMA AcceptLatest ==
  ASSUME LatestInv, NEW d \in Plugged, AcceptDisplayChanges(d) \/ HalAccepts(d)
  PROVE  LatestInv'
<1>0. d \in Displays
  BY ShownFacts DEF LatestInv, FencesInv
<1>1. FrameOf(d)
  BY DEF LatestInv
<1>2. disp[d].rendering = "VALIDATED" /\ flinger[d] \in {"compose", "present"} /\ disp[d].power
      /\ (HalAccepts(d) => flinger[d] = "present")
  BY <1>1 DEF AcceptDisplayChanges, HalAccepts, Accepted, FrameOf, StageInv
<1> DEFINE clients == {l \in LayersOf(d) : Reported(d, l) = "client"}
<1>3. PICK r, f :
        /\ disp' = [disp EXCEPT ![d] = r] /\ fresh' = [fresh EXCEPT ![d] = f]
        /\ r.rendering = "ACCEPTED" /\ r.power = disp[d].power /\ r.skipFrame = disp[d].skipFrame
        /\ r.skipInit = disp[d].skipInit /\ r.skip = disp[d].skip /\ r.source = disp[d].source
        /\ clients # {} => AcceptDisplayChanges(d) /\ r.target = "new" /\ f = clients
        /\ clients = {} => f = fresh[d]
        /\ f \in SUBSET Layers
  <2>1. disp[d] \in DisplayStatus
    BY <1>0 DEF LatestInv, FencesInv, FrameType
  <2>2. fresh \in [Displays -> SUBSET Layers] /\ clients \in SUBSET Layers
    BY ShownFacts DEF LatestInv, FencesInv
  <2>3. CASE AcceptDisplayChanges(d)
    <3> DEFINE r == [disp[d] EXCEPT !.rendering = "ACCEPTED", !.target = IF clients = {} THEN @ ELSE "new",
                                    !.targetFence = (@ \/ clients # {})]
    <3>1. clients = {l \in LayersOf(d) : [k \in LayersOf(d) |-> Reported(d, k)][l] = "client"}
      OBVIOUS
    <3>2. /\ disp' = [disp EXCEPT ![d] = r]
          /\ fresh' = IF clients = {} THEN fresh ELSE [fresh EXCEPT ![d] = clients]
      BY <2>3, <3>1 DEF AcceptDisplayChanges
    <3> HIDE DEF clients
    <3>3. /\ r.rendering = "ACCEPTED" /\ r.power = disp[d].power /\ r.skipFrame = disp[d].skipFrame
          /\ r.skipInit = disp[d].skipInit /\ r.skip = disp[d].skip /\ r.source = disp[d].source
          /\ clients # {} => r.target = "new"
      BY <2>1 DEF DisplayStatus
    <3> HIDE DEF r
    <3>4. fresh' = [fresh EXCEPT ![d] = IF clients = {} THEN fresh[d] ELSE clients]
      BY <1>0, <2>2, <3>2
    <3> QED BY <1>0, <2>2, <2>3, <3>2, <3>3, <3>4
  <2>4. CASE HalAccepts(d)
    <3> DEFINE r == [disp[d] EXCEPT !.rendering = "ACCEPTED"]
    <3>1. disp' = [disp EXCEPT ![d] = r] /\ fresh' = fresh
      BY <2>4 DEF HalAccepts
    <3>2. clients = {}
      BY <1>1, <1>2, <2>4 DEF FrameOf, TypesInv, Reported
    <3>3. /\ r.rendering = "ACCEPTED" /\ r.power = disp[d].power /\ r.skipFrame = disp[d].skipFrame
          /\ r.skipInit = disp[d].skipInit /\ r.skip = disp[d].skip /\ r.source = disp[d].source
      BY <2>1 DEF DisplayStatus
    <3> HIDE DEF r, clients
    <3>4. fresh' = [fresh EXCEPT ![d] = fresh[d]] /\ fresh[d] \in SUBSET Layers
      BY <1>0, <2>2, <3>1
    <3> QED BY <3>1, <3>2, <3>3, <3>4
  <2> QED BY <2>3, <2>4
<1>4. /\ layer' = [l \in Layers |-> IF l \in LayersOf(d) THEN [layer[l] EXCEPT !.type = Reported(d, l)] ELSE layer[l]]
      /\ flinger' = [flinger EXCEPT ![d] = "present"]
      /\ UNCHANGED <<geometry, unassigned, device, tui>>
  <2>1. CASE AcceptDisplayChanges(d)
    <3>1. \A l \in LayersOf(d) : [k \in LayersOf(d) |-> Reported(d, k)][l] = Reported(d, l)
      OBVIOUS
    <3>2. layer' = [l \in Layers |-> IF l \in LayersOf(d)
                      THEN [layer[l] EXCEPT !.type = [k \in LayersOf(d) |-> Reported(d, k)][l]] ELSE layer[l]]
      BY <2>1 DEF AcceptDisplayChanges
    <3> QED BY <2>1, <3>1, <3>2 DEF AcceptDisplayChanges
  <2>2. CASE HalAccepts(d)
    <3>1. flinger' = [flinger EXCEPT ![d] = "present"]
      BY <1>2, <2>2 DEF HalAccepts, LatestInv, FencesInv, FrameType
    <3> QED BY <2>2, <3>1 DEF HalAccepts
  <2> QED BY <2>1, <2>2
<1> HIDE DEF clients
<1>5. fresh' \in [Displays -> SUBSET Layers] /\ \A l \in Layers \ LayersOf(d) : layer'[l] = layer[l]
  BY <1>3, <1>4 DEF LatestInv
<1>6. /\ \A e \in Displays \ {d} : SameDisplay(e)
      /\ disp'[d] = r /\ flinger'[d] = "present" /\ fresh'[d] = f
      /\ \A l \in LayersOf(d) : l \in Layers
  BY <1>0, <1>3, <1>4, <1>5, Elsewhere
<1>7. FencesInv'
  BY <1>0, AcceptBooks, HalAcceptBooks DEF LatestInv
<1>8. \A l \in LayersOf(d) : /\ layer'[l].acquire = layer[l].acquire /\ layer'[l].valid = layer[l].valid
                             /\ layer'[l].type = Reported(d, l)
  <2>1. \A l \in LayersOf(d) : layer[l] \in LayerStatus /\ layer'[l] = [layer[l] EXCEPT !.type = Reported(d, l)]
    BY <1>4, <1>6 DEF LatestInv, FencesInv, FrameType
  <2> QED BY <2>1 DEF LayerStatus
<1>9. LayersOf(d)' = LayersOf(d) /\ ClientLayers(d)' = ClientLayers(d)
      /\ \A l \in LayersOf(d) : Reported(d, l)' = Reported(d, l)
  BY <1>3, <1>4, <1>6, <1>8, SameLayersOf DEF Reported
<1>10. FrameOf(d)'
  <2>1. StageInv(d)' /\ ChangeInv(d)'
    BY <1>1, <1>2, <1>3, <1>4, <1>6 DEF FrameOf, StageInv, ChangeInv, Awaiting
  <2>2. TypesInv(d)'
    BY <1>1, <1>2, <1>3, <1>6, <1>8, <1>9 DEF FrameOf, TypesInv, Awaiting
  <2>3. ~disp[d].skip => clients = ClientLayers(d)
    BY DEF clients, Reported, ClientLayers
  <2>4. TargetInv(d)'
    BY <1>3, <1>6, <1>9, <2>3 DEF TargetInv
  <2>5. ReuseInv(d)'
    BY <1>1, <1>2, <1>3, <1>6, <1>9 DEF FrameOf, ReuseInv, Awaiting, SameSource
  <2>6. SourceInv(d)'
    <3>1. SUFFICES ASSUME ~device.hasTui, disp[d].skipInit
                   PROVE  \A l \in Layers : disp[d].source[l] = "same" => l \in f
      BY <1>3, <1>4, <1>6 DEF SourceInv
    <3>2. CASE disp[d].skip
      <4>1. clients = {}
        BY <3>2 DEF clients, Reported
      <4> QED BY <1>1, <1>3, <3>1, <3>2, <4>1 DEF FrameOf, SourceInv
    <3>3. CASE ~disp[d].skip
      <4>1. SameSource(disp[d], ClientLayers(d)) /\ ClientLayers(d) # {}
        BY <1>1, <1>2, <3>1 DEF FrameOf, ReuseInv, Awaiting
      <4> QED BY <1>3, <2>3, <3>3, <4>1 DEF SameSource
    <3> QED BY <3>2, <3>3
  <2> QED BY <2>1, <2>2, <2>4, <2>5, <2>6 DEF FrameOf
<1> QED BY <1>4, <1>5, <1>6, <1>7, <1>10, OneDisplaySteps

(* A frame of d ends, as shown, dropped, skipped or failed.                *)
LEMMA PresentedLatest ==
  ASSUME LatestInv, NEW d \in Plugged, Presents(d), FencesInv', UNCHANGED <<fresh, device, tui>>,
         NEW r, disp' = [disp EXCEPT ![d] = r],
         NEW at \in {"idle", "validate", "fences"}, flinger' = [flinger EXCEPT ![d] = at],
         \A l \in Layers \ LayersOf(d) : layer'[l] = layer[l],
         \A l \in LayersOf(d) : layer'[l].type = layer[l].type /\ layer'[l].valid = layer[l].valid,
         r.rendering = "PRESENTED", r.power = disp[d].power, r.skipFrame = disp[d].skipFrame,
         r.source = disp[d].source, r.skipInit => disp[d].skipInit,
         r.skip => disp[d].skip,
         UNCHANGED <<geometry, unassigned>> \/ SetGeometry({d}),
         geometry' = geometry =>
           /\ r.skip /\ ~r.skipInit => geometry
           /\ r.skip # disp[d].skip => r.skip = FALSE
           /\ ~geometry => \A l \in LayersOf(d) : layer[l].type = Reported(d, l) \/ Reported(d, l) = "client",
         at # "validate" /\ ~device.hasTui /\ r.skipInit => \A l \in Layers : disp[d].source[l] # "other"
  PROVE  LatestInv'
<1>1. d \in Displays /\ FrameOf(d)
  BY ShownFacts DEF LatestInv, FencesInv
<1>2. fresh' = [fresh EXCEPT ![d] = fresh[d]] /\ fresh' \in [Displays -> SUBSET Layers]
  BY <1>1 DEF LatestInv
<1>3. /\ \A e \in Displays \ {d} : SameDisplay(e)
      /\ disp'[d] = r /\ flinger'[d] = at /\ fresh'[d] = fresh[d]
      /\ \A l \in LayersOf(d) : l \in Layers
  BY <1>1, <1>2, Elsewhere
<1>4. disp[d].power /\ disp[d].rendering # "VALIDATED"
  BY <1>1 DEF Presents, Accepted, FrameOf, StageInv
<1>5. LayersOf(d)' = LayersOf(d) /\ ClientLayers(d)' = ClientLayers(d)
  BY SameLayersOf
<1>6. /\ geometry => geometry'
      /\ d \in unassigned' => geometry'
      /\ unassigned' \subseteq unassigned \cup {d}
  BY <1>1, <1>4 DEF SetGeometry, FrameOf, ChangeInv
<1>7. FrameOf(d)'
  <2>1. StageInv(d)' /\ ChangeInv(d)'
    BY <1>1, <1>3, <1>4, <1>6 DEF FrameOf, StageInv, ChangeInv, Awaiting
  <2>2. TypesInv(d)'
    <3>1. ASSUME NEW l \in LayersOf(d), ~geometry'
          PROVE  layer'[l].type = Reported(d, l)' \/ Reported(d, l)' = "client"
      <4>1. geometry' = geometry
        BY <3>1 DEF SetGeometry
      <4>2. layer[l].type = Reported(d, l) \/ Reported(d, l) = "client"
        BY <3>1, <4>1
      <4>3. Reported(d, l)' = IF layer[l].valid = "client" /\ r.skip THEN "device" ELSE layer[l].valid
        BY <1>3, <3>1 DEF Reported
      <4> QED BY <4>2, <4>3, <3>1 DEF Reported
    <3> QED BY <1>3, <1>5, <3>1 DEF TypesInv, Awaiting
  <2>3. TargetInv(d)'
    BY <1>3 DEF TargetInv
  <2>4. ReuseInv(d)'
    <3>1. ASSUME r.skip, ~r.skipInit PROVE geometry'
      <4>1. CASE UNCHANGED <<geometry, unassigned>>
        <5>1. geometry' = geometry
          BY <4>1
        <5> QED BY <3>1, <5>1
      <4>2. CASE SetGeometry({d})
        BY <4>2 DEF SetGeometry
      <4> QED BY <4>1, <4>2
    <3>2. r.skipInit /\ ~geometry' => ClientLayers(d)' # {}
      BY <1>1, <1>5, <1>6 DEF FrameOf, ReuseInv
    <3> QED BY <1>3, <3>1, <3>2 DEF ReuseInv, Awaiting
  <2>5. SourceInv(d)'
    BY <1>1, <1>3, <1>4 DEF FrameOf, SourceInv
  <2> QED BY <2>1, <2>2, <2>3, <2>4, <2>5 DEF FrameOf
<1> QED BY <1>2, <1>3, <1>6, <1>7, OneDisplaySteps

\* What holds of a display before its present.
LEMMA BeforePresent ==
  ASSUME LatestInv, NEW d \in Plugged, Presents(d)
  PROVE  /\ disp[d].skip /\ ~disp[d].skipInit => geometry
         /\ ~geometry => \A l \in LayersOf(d) : layer[l].type = Reported(d, l) \/ Reported(d, l) = "client"
         /\ disp[d].skipFrame => ~disp[d].skipInit
<1>1. d \in Displays /\ FrameOf(d)
  BY ShownFacts DEF LatestInv, FencesInv
<1>2. disp[d] \in DisplayStatus
  BY <1>1 DEF LatestInv, FencesInv, FrameType
<1>3. disp[d].rendering \in {"NONE", "ACCEPTED", "PRESENTED"}
  BY <1>2 DEF Presents, Accepted, DisplayStatus
<1>4. disp[d].power /\ flinger[d] # "validate"
  BY <1>1 DEF Presents, FrameOf, StageInv
<1>5. CASE disp[d].rendering = "NONE"
  BY <1>1, <1>4, <1>5 DEF FrameOf, ChangeInv, StageInv
<1>6. CASE disp[d].rendering = "ACCEPTED"
  BY <1>1, <1>6 DEF FrameOf, TypesInv, ReuseInv, StageInv, Awaiting
<1>7. CASE disp[d].rendering = "PRESENTED"
  BY <1>1, <1>7 DEF FrameOf, TypesInv, ReuseInv, StageInv
<1> QED BY <1>3, <1>5, <1>6, <1>7

\* Which layers a frame that is presented shows from the client target.
LEMMA BeforeFrame ==
  ASSUME LatestInv, NEW d \in Plugged, Composable(d)
  PROVE  /\ disp[d].rendering \in {"ACCEPTED", "PRESENTED"}
         /\ d \notin unassigned
         /\ disp[d].rendering = "PRESENTED" =>
              ~geometry /\ CanSkipValidate /\ (ClientLayers(d) # {} => disp[d].skip)
         /\ disp[d].skipInit => SameSource(disp[d], ClientLayers(d))
         /\ disp[d].skip => disp[d].skipInit
         /\ \A l \in LayersOf(d) : layer[l].type = Reported(d, l)
<1>1. d \in Displays /\ FrameOf(d)
  BY ShownFacts DEF LatestInv, FencesInv
<1>2. disp[d] \in DisplayStatus
  BY <1>1 DEF LatestInv, FencesInv, FrameType
<1>3. disp[d].power
  BY <1>1 DEF Composable, Presents, FrameOf, StageInv
<1>4. CASE Validated(d)
  BY <1>1, <1>4 DEF Validated, FrameOf, ChangeInv, TypesInv, ReuseInv, Awaiting
<1>5. CASE ~Validated(d)
  <2>1. /\ disp[d].rendering # "NONE" /\ ~geometry
        /\ \A l \in LayersOf(d) : Reported(d, l) # "client"
        /\ (disp[d].skipInit /\ disp[d].skip) => SameSource(disp[d], ClientLayers(d))
    BY <1>3, <1>5 DEF Composable, CanSkipValidate, On
  <2>2. disp[d].rendering = "PRESENTED"
    BY <1>2, <1>5, <2>1 DEF Composable, Presents, Accepted, Validated, DisplayStatus
  <2>3. ClientLayers(d) # {} => disp[d].skip
    BY <2>1 DEF ClientLayers, Reported
  <2> QED BY <1>1, <1>3, <1>5, <2>1, <2>2, <2>3
          DEF Composable, FrameOf, ChangeInv, TypesInv, ReuseInv
<1> QED BY <1>4, <1>5

LEMMA EndLatest ==
  ASSUME LatestInv, NEW d \in Plugged,
         PresentDropped(d) \/ PresentSkipFrame(d) \/ PresentFrame(d) \/ PresentFails(d) \/ CommitFails(d)
  PROVE  LatestInv'
<1>1. d \in Displays /\ Presents(d)
  BY ShownFacts DEF LatestInv, FencesInv, PresentDropped, PresentSkipFrame, PresentFrame, PresentFails,
                    CommitFails, Composable
<1>2. disp[d] \in DisplayStatus /\ \A l \in Layers : layer[l] \in LayerStatus
  BY <1>1 DEF LatestInv, FencesInv, FrameType
<1>3. FencesInv'
  BY <1>1, DroppedBooks, SkipBooks, PresentBooks, FailBooks DEF LatestInv
<1>4. /\ \A l \in Layers \ LayersOf(d) : layer'[l] = layer[l]
      /\ \A l \in LayersOf(d) : layer'[l].type = layer[l].type /\ layer'[l].valid = layer[l].valid
  <2>1. \A l \in LayersOf(d) : l \in Layers
    BY ShownFacts DEF LatestInv, FencesInv
  <2>2. CASE PresentDropped(d)
    BY <1>2, <2>1, <2>2 DEF PresentDropped, LayerStatus
  <2>3. CASE PresentSkipFrame(d) \/ PresentFails(d) \/ CommitFails(d)
    <3>1. layer' = WithoutFences(d)
      BY <2>3 DEF PresentSkipFrame, PresentFails, CommitFails, CloseFences
    <3> QED BY <1>2, <2>1, <3>1 DEF WithoutFences, LayerStatus
  <2>4. CASE PresentFrame(d)
    BY <1>2, <2>1, <2>4 DEF PresentFrame, LayerStatus
  <2> QED BY <2>2, <2>3, <2>4
<1>5. PICK at \in {"idle", "validate", "fences"} : flinger' = [flinger EXCEPT ![d] = at]
  <2>1. CASE PresentFrame(d)
    BY <2>1 DEF PresentFrame
  <2>2. CASE ~PresentFrame(d)
    <3>1. EndOfTry(d, TRUE) \/ EndOfTry(d, FALSE) \/ EndOfTry(d, disp[d].rendering = "NONE")
      BY <2>2 DEF PresentDropped, PresentSkipFrame, PresentFails, CommitFails
    <3>2. \A b \in BOOLEAN : EndOfTry(d, b) =>
            \E to \in {"idle", "validate"} : flinger' = [flinger EXCEPT ![d] = to]
      BY <1>1, EndFacts DEF Presents, LatestInv
    <3>3. (disp[d].rendering = "NONE") \in BOOLEAN
      OBVIOUS
    <3> QED BY <3>1, <3>2, <3>3
  <2> QED BY <2>1, <2>2
<1>6. UNCHANGED <<fresh, device, tui>>
  BY DEF PresentDropped, PresentSkipFrame, PresentFrame, PresentFails, CommitFails
<1>7. UNCHANGED <<geometry, unassigned>> \/ SetGeometry({d})
  BY DEF PresentDropped, PresentSkipFrame, PresentFrame, PresentFails, CommitFails
<1>8. CASE PresentDropped(d) \/ PresentSkipFrame(d)
  <2> DEFINE r == [disp[d] EXCEPT !.rendering = "PRESENTED", !.targetFence = FALSE]
  <2>1. disp' = [disp EXCEPT ![d] = r]
    BY <1>8 DEF PresentDropped, PresentSkipFrame
  <2>2. /\ r.rendering = "PRESENTED" /\ r.power = disp[d].power /\ r.skipFrame = disp[d].skipFrame
        /\ r.source = disp[d].source /\ r.skipInit = disp[d].skipInit /\ r.skip = disp[d].skip
    BY <1>2 DEF DisplayStatus
  <2> HIDE DEF r
  <2>3. ~device.hasTui => ~disp[d].skipInit
    BY <1>1, <1>8, BeforePresent DEF PresentDropped, PresentSkipFrame, LatestInv
  <2> QED BY <1>1, <1>3, <1>4, <1>5, <1>6, <1>7, <2>1, <2>2, <2>3, BeforePresent, PresentedLatest
<1>9. CASE PresentFrame(d)
  <2> DEFINE r == [disp[d] EXCEPT !.rendering = "PRESENTED", !.targetFence = FALSE, !.retire = TRUE,
                            !.target = IF ClientLayers(d) # {} /\ ~disp[d].skip THEN "shown" ELSE @]
  <2>1. disp' = [disp EXCEPT ![d] = r]
    BY <1>9 DEF PresentFrame
  <2>2. /\ r.rendering = "PRESENTED" /\ r.power = disp[d].power /\ r.skipFrame = disp[d].skipFrame
        /\ r.source = disp[d].source /\ r.skipInit = disp[d].skipInit /\ r.skip = disp[d].skip
    <3>1. \A t : LET s == [disp[d] EXCEPT !.rendering = "PRESENTED", !.targetFence = FALSE, !.retire = TRUE,
                                          !.target = t]
                 IN  /\ s.rendering = "PRESENTED" /\ s.power = disp[d].power /\ s.skipFrame = disp[d].skipFrame
                     /\ s.source = disp[d].source /\ s.skipInit = disp[d].skipInit /\ s.skip = disp[d].skip
      BY <1>2 DEF DisplayStatus
    <3> QED BY <3>1
  <2> HIDE DEF r
  <2>3. ASSUME disp[d].skipInit PROVE \A l \in Layers : disp[d].source[l] # "other"
    <3>1. disp[d].source = [l \in Layers |-> IF l \in ClientLayers(d) THEN "same" ELSE "none"]
      BY <1>9, <2>3, BeforeFrame DEF PresentFrame, SameSource
    <3> QED BY <3>1
  <2> QED BY <1>1, <1>3, <1>4, <1>5, <1>6, <1>7, <2>1, <2>2, <2>3, BeforePresent, PresentedLatest
<1>10. CASE PresentFails(d)
  <2> DEFINE r == [disp[d] EXCEPT !.rendering = "PRESENTED", !.targetFence = FALSE, !.retire = FALSE,
                            !.skipInit = FALSE]
  <2>1. disp' = [disp EXCEPT ![d] = r]
    BY <1>10 DEF PresentFails
  <2>2. /\ r.rendering = "PRESENTED" /\ r.power = disp[d].power /\ r.skipFrame = disp[d].skipFrame
        /\ r.source = disp[d].source /\ r.skipInit = FALSE /\ r.skip = disp[d].skip
    BY <1>2 DEF DisplayStatus
  <2> HIDE DEF r
  <2>3. SetGeometry({d}) /\ (geometry' = geometry => geometry)
    BY <1>10 DEF PresentFails, SetGeometry
  <2> QED BY <1>1, <1>3, <1>4, <1>5, <1>6, <2>1, <2>2, <2>3, BeforePresent, PresentedLatest
<1>11. CASE CommitFails(d)
  <2> DEFINE r == [disp[d] EXCEPT !.rendering = "PRESENTED", !.targetFence = FALSE,
                            !.retire = FALSE, !.skipInit = FALSE, !.skip = FALSE,
                            !.target = IF ClientLayers(d) # {} /\ ~disp[d].skip THEN "shown" ELSE @]
  <2>1. disp' = [disp EXCEPT ![d] = r]
    BY <1>11 DEF CommitFails
  <2>2. /\ r.rendering = "PRESENTED" /\ r.power = disp[d].power /\ r.skipFrame = disp[d].skipFrame
        /\ r.source = disp[d].source /\ r.skipInit = FALSE /\ r.skip = FALSE
    <3>1. \A t : LET s == [disp[d] EXCEPT !.rendering = "PRESENTED", !.targetFence = FALSE, !.retire = FALSE,
                                          !.skipInit = FALSE, !.skip = FALSE, !.target = t]
                 IN  /\ s.rendering = "PRESENTED" /\ s.power = disp[d].power /\ s.skipFrame = disp[d].skipFrame
                     /\ s.source = disp[d].source /\ s.skipInit = FALSE /\ s.skip = FALSE
      BY <1>2 DEF DisplayStatus
    <3> QED BY <3>1
  <2> HIDE DEF r
  <2> QED BY <1>1, <1>3, <1>4, <1>5, <1>6, <1>7, <2>1, <2>2, BeforePresent, PresentedLatest
<1> QED BY <1>8, <1>9, <1>10, <1>11

LEMMA NoLayersLatest ==
  ASSUME LatestInv, NEW d \in Plugged, PresentNoLayers(d)
  PROVE  LatestInv'
<1> DEFINE r == [disp[d] EXCEPT !.rendering = "PRESENTED", !.retire = FALSE, !.skipInit = FALSE, !.skip = FALSE]
<1>1. /\ d \in Displays /\ Presents(d) /\ LayersOf(d) = {}
      /\ disp' = [disp EXCEPT ![d] = r] /\ EndOfTry(d, TRUE)
      /\ UNCHANGED <<geometry, layer, fresh, device, tui, unassigned>>
  BY ShownFacts DEF LatestInv, FencesInv, PresentNoLayers, Composable
<1>2. FencesInv'
  BY <1>1, NoLayersBooks DEF LatestInv
<1>3. /\ r.rendering = "PRESENTED" /\ r.power = disp[d].power /\ r.skipFrame = disp[d].skipFrame
      /\ r.source = disp[d].source /\ r.skipInit = FALSE /\ r.skip = FALSE
  <2>1. disp[d] \in DisplayStatus
    BY <1>1 DEF LatestInv, FencesInv, FrameType
  <2> QED BY <2>1 DEF DisplayStatus
<1> HIDE DEF r
<1>4. PICK at \in {"idle", "validate"} : flinger' = [flinger EXCEPT ![d] = at]
  BY <1>1, EndFacts DEF Presents, LatestInv
<1> QED BY <1>1, <1>2, <1>3, <1>4, PresentedLatest

LEMMA NotValidatedLatest ==
  ASSUME LatestInv, NEW d \in Plugged, PresentNotValidated(d)
  PROVE  LatestInv'
<1>1. d \in Displays /\ FrameOf(d)
  BY ShownFacts DEF LatestInv, FencesInv
<1>2. flinger[d] = "try" /\ disp[d].rendering \notin {"VALIDATED", "ACCEPTED"}
  BY <1>1 DEF PresentNotValidated, Presents, Accepted, Validated, FrameOf, StageInv, Awaiting
<1>3. flinger' = [flinger EXCEPT ![d] = "validate"]
  BY <1>2 DEF PresentNotValidated, EndOfTry, LatestInv, FencesInv, FrameType
<1>4. UNCHANGED <<geometry, layer, fresh, fds, device, tui, unassigned>>
  BY DEF PresentNotValidated
<1>5. \A e \in Displays : /\ disp'[e].rendering = (IF e = d THEN "NONE" ELSE disp[e].rendering)
                          /\ disp'[e].power = disp[e].power /\ disp'[e].skipFrame = disp[e].skipFrame
                          /\ disp'[e].skipInit = disp[e].skipInit /\ disp'[e].skip = disp[e].skip
                          /\ disp'[e].source = disp[e].source /\ disp'[e].target = disp[e].target
  <2> SUFFICES ASSUME NEW e \in Displays
               PROVE  /\ disp'[e].rendering = (IF e = d THEN "NONE" ELSE disp[e].rendering)
                      /\ disp'[e].power = disp[e].power /\ disp'[e].skipFrame = disp[e].skipFrame
                      /\ disp'[e].skipInit = disp[e].skipInit /\ disp'[e].skip = disp[e].skip
                      /\ disp'[e].source = disp[e].source /\ disp'[e].target = disp[e].target
    OBVIOUS
  <2>1. disp[e] \in DisplayStatus
    BY DEF LatestInv, FencesInv, FrameType
  <2>2. \A b, s : LET q == [disp[e] EXCEPT !.enableSkip = b, !.rendering = s]
                  IN  /\ q.rendering = s /\ q.power = disp[e].power /\ q.skipFrame = disp[e].skipFrame
                      /\ q.skipInit = disp[e].skipInit /\ q.skip = disp[e].skip
                      /\ q.source = disp[e].source /\ q.target = disp[e].target
    BY <2>1 DEF DisplayStatus
  <2>3. disp'[e] = [disp[e] EXCEPT !.enableSkip = IF On(e) THEN EnableSkip(e) ELSE disp[e].enableSkip,
                                   !.rendering = IF e = d THEN "NONE" ELSE disp[e].rendering]
    BY DEF PresentNotValidated
  <2> QED BY <2>2, <2>3
<1>6. \A e \in Displays \ {d} : SameDisplay(e)
  BY <1>3, <1>4, <1>5 DEF SameDisplay, LatestInv, FencesInv, FrameType
<1>7. FencesInv'
  BY <1>1, NotValidatedBooks DEF LatestInv
<1>8. flinger'[d] = "validate" /\ fresh' \in [Displays -> SUBSET Layers]
  BY <1>1, <1>3, <1>4 DEF LatestInv, FencesInv, FrameType
<1>9. LayersOf(d)' = LayersOf(d) /\ ClientLayers(d)' = ClientLayers(d)
  BY <1>4, SameLayersOf
<1>10. FrameOf(d)'
  <2>1. StageInv(d)' /\ ChangeInv(d)'
    BY <1>1, <1>2, <1>4, <1>5, <1>8 DEF FrameOf, StageInv, ChangeInv, Awaiting
  <2>2. TypesInv(d)' /\ TargetInv(d)'
    BY <1>1, <1>5 DEF TypesInv, TargetInv, Awaiting
  <2>3. ReuseInv(d)'
    BY <1>1, <1>4, <1>5, <1>9 DEF FrameOf, ReuseInv, Awaiting
  <2>4. SourceInv(d)'
    BY <1>1, <1>2, <1>4, <1>5, <1>8 DEF FrameOf, SourceInv
  <2> QED BY <2>1, <2>2, <2>3, <2>4 DEF FrameOf
<1> QED BY <1>4, <1>6, <1>7, <1>8, <1>10, OneDisplaySteps

LEMMA ReleaseLatest ==
  ASSUME LatestInv, NEW d \in Plugged, GetReleaseFences(d)
  PROVE  LatestInv'
<1>1. d \in Displays /\ FrameOf(d)
  BY ShownFacts DEF LatestInv, FencesInv
<1>2. /\ flinger[d] = "fences" /\ flinger' = [flinger EXCEPT ![d] = "idle"]
      /\ layer' = [l \in Layers |-> IF l \in LayersOf(d) THEN [layer[l] EXCEPT !.release = FALSE] ELSE layer[l]]
      /\ UNCHANGED <<geometry, disp, fresh, device, tui, unassigned>>
  BY DEF GetReleaseFences
<1>3. /\ disp' = [disp EXCEPT ![d] = disp[d]] /\ fresh' = [fresh EXCEPT ![d] = fresh[d]]
      /\ fresh' \in [Displays -> SUBSET Layers]
      /\ \A l \in Layers \ LayersOf(d) : layer'[l] = layer[l]
  BY <1>1, <1>2 DEF LatestInv, FencesInv, FrameType
<1>4. /\ \A e \in Displays \ {d} : SameDisplay(e)
      /\ disp'[d] = disp[d] /\ flinger'[d] = "idle" /\ fresh'[d] = fresh[d]
      /\ \A l \in LayersOf(d) : l \in Layers
  BY <1>1, <1>2, <1>3, Elsewhere
<1>5. \A l \in LayersOf(d) : layer'[l].type = layer[l].type /\ layer'[l].valid = layer[l].valid
  <2>1. \A l \in LayersOf(d) : layer[l] \in LayerStatus /\ layer'[l] = [layer[l] EXCEPT !.release = FALSE]
    BY <1>2, <1>4 DEF LatestInv, FencesInv, FrameType
  <2> QED BY <2>1 DEF LayerStatus
<1>6. LayersOf(d)' = LayersOf(d) /\ ClientLayers(d)' = ClientLayers(d)
  BY <1>2, <1>5, SameLayersOf
<1>7. disp[d].rendering \notin {"VALIDATED", "ACCEPTED"}
  BY <1>1, <1>2 DEF FrameOf, StageInv
<1>8. FrameOf(d)'
  <2>1. StageInv(d)' /\ ChangeInv(d)'
    BY <1>1, <1>2, <1>4, <1>7 DEF FrameOf, StageInv, ChangeInv, Awaiting
  <2>2. TypesInv(d)' /\ TargetInv(d)'
    BY <1>1, <1>2, <1>4, <1>5, <1>6, <1>7 DEF FrameOf, TypesInv, TargetInv, Awaiting, Reported
  <2>3. ReuseInv(d)'
    BY <1>1, <1>2, <1>4, <1>6, <1>7 DEF FrameOf, ReuseInv, Awaiting
  <2>4. SourceInv(d)'
    BY <1>1, <1>2, <1>4, <1>7 DEF FrameOf, SourceInv
  <2> QED BY <2>1, <2>2, <2>3, <2>4 DEF FrameOf
<1>9. FencesInv'
  BY <1>1, ReleaseBooks DEF LatestInv
<1> QED BY <1>2, <1>3, <1>4, <1>8, <1>9, OneDisplaySteps

LEMMA PowerLatest ==
  ASSUME LatestInv, NEW d \in Plugged, PowerOff(d) \/ PowerOn(d)
  PROVE  LatestInv'
<1>1. d \in Displays /\ FrameOf(d)
  BY ShownFacts DEF LatestInv, FencesInv
<1>2. disp[d] \in DisplayStatus /\ \A l \in Layers : layer[l] \in LayerStatus
  BY <1>1 DEF LatestInv, FencesInv, FrameType
<1>3. flinger[d] = "idle" /\ geometry' = TRUE /\ unassigned' = unassigned \cup {d}
      /\ UNCHANGED <<flinger, fresh, device, tui>>
  BY <1>1 DEF PowerOff, PowerOn, SetGeometry, FrameOf, StageInv, On
<1>4. PICK r : /\ disp' = [disp EXCEPT ![d] = r] /\ r.rendering = "NONE"
               /\ r.source = disp[d].source
               /\ r.skipInit => disp[d].skipInit
               /\ r.skipFrame => ~r.skipInit
               /\ ~r.power => ~r.skipInit
  <2>1. CASE PowerOff(d)
    <3> DEFINE r == [disp[d] EXCEPT !.power = FALSE, !.rendering = "NONE", !.skipFrame = TRUE,
                            !.retire = FALSE, !.skipInit = FALSE, !.skip = FALSE]
    <3>1. disp' = [disp EXCEPT ![d] = r]
      BY <2>1 DEF PowerOff
    <3>2. r.rendering = "NONE" /\ r.source = disp[d].source /\ r.skipInit = FALSE
      BY <1>2 DEF DisplayStatus
    <3> HIDE DEF r
    <3> QED BY <3>1, <3>2
  <2>2. CASE PowerOn(d)
    <3> DEFINE r == [disp[d] EXCEPT !.power = TRUE]
    <3>1. disp' = [disp EXCEPT ![d] = r]
      BY <2>2 DEF PowerOn
    <3>2. /\ r.rendering = disp[d].rendering /\ r.source = disp[d].source /\ r.power = TRUE
          /\ r.skipInit = disp[d].skipInit /\ r.skipFrame = disp[d].skipFrame
      BY <1>2 DEF DisplayStatus
    <3> HIDE DEF r
    <3>3. disp[d].rendering = "NONE" /\ (disp[d].skipFrame => ~disp[d].skipInit)
      BY <1>1, <2>2 DEF PowerOn, On, FrameOf, StageInv
    <3> QED BY <3>1, <3>2, <3>3
  <2> QED BY <2>1, <2>2
<1>5. /\ \A l \in Layers \ LayersOf(d) : layer'[l] = layer[l]
      /\ \A l \in LayersOf(d) : layer'[l].type = layer[l].type /\ layer'[l].valid = layer[l].valid
  <2>1. \A l \in LayersOf(d) : l \in Layers
    BY ShownFacts DEF LatestInv, FencesInv
  <2>2. CASE PowerOff(d)
    <3>1. \A l \in Layers : layer'[l] = layer[l] \/ (l \in LayersOf(d) /\ layer'[l] = [layer[l] EXCEPT !.acquire = FALSE])
      BY <2>2 DEF PowerOff
    <3> QED BY <1>2, <2>1, <3>1 DEF LayerStatus
  <2>3. CASE PowerOn(d)
    BY <2>3 DEF PowerOn
  <2> QED BY <2>2, <2>3
<1>6. /\ flinger' = [flinger EXCEPT ![d] = "idle"] /\ fresh' = [fresh EXCEPT ![d] = fresh[d]]
      /\ fresh' \in [Displays -> SUBSET Layers]
  BY <1>1, <1>3 DEF LatestInv, FencesInv, FrameType
<1>7. /\ \A e \in Displays \ {d} : SameDisplay(e)
      /\ disp'[d] = r /\ flinger'[d] = "idle" /\ fresh'[d] = fresh[d]
  BY <1>1, <1>4, <1>5, <1>6, Elsewhere
<1>8. LayersOf(d)' = LayersOf(d) /\ ClientLayers(d)' = ClientLayers(d)
  BY <1>3, <1>5, SameLayersOf
<1>9. FrameOf(d)'
  <2>1. StageInv(d)' /\ ChangeInv(d)'
    BY <1>1, <1>3, <1>4, <1>7 DEF FrameOf, StageInv, ChangeInv, Awaiting
  <2>2. TypesInv(d)' /\ TargetInv(d)'
    BY <1>4, <1>7 DEF TypesInv, TargetInv, Awaiting
  <2>3. ReuseInv(d)'
    <3> QED BY <1>3, <1>4, <1>7 DEF ReuseInv, Awaiting
  <2>4. SourceInv(d)'
    <3>1. SUFFICES ASSUME ~device.hasTui, r.skipInit
                   PROVE  \A l \in Layers : /\ disp[d].source[l] = "same" => l \in fresh[d]
                                            /\ disp[d].source[l] # "other"
      BY <1>3, <1>4, <1>7 DEF SourceInv
    <3>2. disp[d].rendering # "VALIDATED"
      BY <1>1, <1>3 DEF FrameOf, StageInv
    <3> QED BY <1>1, <1>3, <1>4, <3>1, <3>2 DEF FrameOf, SourceInv
  <2> QED BY <2>1, <2>2, <2>3, <2>4 DEF FrameOf
<1>10. FencesInv'
  BY <1>1, PowerOffBooks, PowerOnBooks DEF LatestInv
<1> QED BY <1>3, <1>6, <1>7, <1>9, <1>10, OneDisplaySteps

LEMMA DeathLatest == ASSUME LatestInv, ClientDies PROVE LatestInv'
<1>1. FencesInv'
  BY DeathBooks DEF LatestInv
<1>2. Plugged' = Plugged /\ Plugged \subseteq Displays
  BY ShownFacts DEF Plugged, LatestInv, FencesInv, FrameType, DeviceStatus, ClientDies
<1>3. /\ \A e \in Displays : flinger'[e] = "idle"
      /\ fresh' \in [Displays -> SUBSET Layers]
      /\ unassigned' = unassigned \ Plugged /\ UNCHANGED tui
      /\ device'.hasTui = device.hasTui /\ device'.layers = {}
  BY DEF ClientDies, LatestInv, FencesInv, FrameType, DeviceStatus
<1>5. \A e : LayersOf(e)' = {}
  BY <1>3 DEF LayersOf, Shown
<1>4. ASSUME NEW e \in Plugged PROVE FrameOf(e)'
  <2>1. disp[e] \in DisplayStatus /\ disp[e].power
    BY <1>2 DEF LatestInv, FencesInv, FrameType, ClientDies, On
  <2>2. disp'[e] = [disp[e] EXCEPT
                  !.target = "none", !.skipInit = FALSE, !.skip = FALSE, !.enableSkip = TRUE,
                  !.skipFrame = FALSE, !.rendering = "PRESENTED", !.retire = FALSE]
    BY <1>2 DEF ClientDies
  <2>3. /\ disp'[e].skipInit = FALSE /\ disp'[e].skip = FALSE /\ disp'[e].skipFrame = FALSE
        /\ disp'[e].rendering = "PRESENTED" /\ disp'[e].power
    BY <2>1, <2>2 DEF DisplayStatus
  <2>4. flinger'[e] = "idle"
    BY <1>2, <1>3
  <2>5. StageInv(e)' /\ ChangeInv(e)' /\ TypesInv(e)'
    BY <1>3, <1>5, <2>3, <2>4 DEF StageInv, ChangeInv, TypesInv, Awaiting
  <2>6. TargetInv(e)' /\ ReuseInv(e)' /\ SourceInv(e)'
    BY <1>3, <2>3 DEF TargetInv, ReuseInv, SourceInv, Awaiting
  <2> QED BY <2>5, <2>6 DEF FrameOf
<1> QED BY <1>1, <1>2, <1>3, <1>4 DEF LatestInv

LEMMA InitLatest == FrameInit => LatestInv
<1> SUFFICES ASSUME FrameInit PROVE LatestInv
  OBVIOUS
<1>1. FencesInv /\ Plugged \subseteq Displays
  BY InitBooks, ShownFacts DEF FencesInv
<1>2. /\ \A e \in Displays : flinger[e] = "idle"
      /\ fresh \in [Displays -> SUBSET Layers] /\ geometry = TRUE /\ tui = FALSE
  BY DEF FrameInit
<1>3. ASSUME NEW e \in Plugged PROVE FrameOf(e)
  <2>1. /\ disp[e].skipInit = FALSE /\ disp[e].skip = FALSE /\ disp[e].skipFrame = FALSE
        /\ disp[e].rendering = "NONE" /\ disp[e].power
    BY <1>1 DEF FrameInit
  <2>2. flinger[e] = "idle"
    BY <1>1, <1>2
  <2>3. StageInv(e) /\ ChangeInv(e) /\ TypesInv(e)
    BY <1>2, <2>1, <2>2 DEF StageInv, ChangeInv, TypesInv, Awaiting
  <2>4. TargetInv(e) /\ ReuseInv(e) /\ SourceInv(e)
    BY <1>2, <2>1 DEF TargetInv, ReuseInv, SourceInv, Awaiting
  <2> QED BY <2>3, <2>4 DEF FrameOf
<1> QED BY <1>1, <1>2, <1>3 DEF LatestInv

LEMMA LatestStep == LatestInv /\ [FrameNext]_frameVars => LatestInv'
<1> SUFFICES ASSUME LatestInv, [FrameNext]_frameVars PROVE LatestInv'
  OBVIOUS
<1>1. ASSUME UNCHANGED <<geometry, disp, layer, flinger, fresh, device, unassigned>>, tui' => device.hasTui
      PROVE  LatestInv'
  <2>1. FencesInv'
    BY StepBooks DEF LatestInv
  <2>2. \A e : SameDisplay(e)
    BY <1>1 DEF SameDisplay
  <2>3. Plugged' = Plugged /\ \A e : LayersOf(e)' = LayersOf(e)
    BY <1>1 DEF Plugged, LayersOf, Shown
  <2>4. \A e \in Plugged : FrameOf(e)'
    BY <1>1, <2>2, <2>3, OthersKeep DEF LatestInv
  <2> QED BY <1>1, <2>1, <2>3, <2>4 DEF LatestInv
<1>2. ASSUME NEW l \in Shown, SetLayerGeometry(l) \/ DestroyLayer(l) PROVE LatestInv'
  BY <1>2, GeometryLatest, DestroyLatest
<1>11. ASSUME NEW l \in device.may, CreateLayer(l) PROVE LatestInv'
  BY <1>11, CreateLatest
<1>3. ASSUME NEW d \in Plugged, NEW posted \in SUBSET LayersOf(d), NEW types \in [LayersOf(d) -> Type],
             NEW next \in {"try", "validate"}, BeginFrame(d, posted, types, next)
      PROVE  LatestInv'
  BY <1>3, BeginLatest
<1>4. ASSUME NEW d \in Plugged, NEW fails \in BOOLEAN, ValidateDisplay(d, fails) PROVE LatestInv'
  BY <1>4, ValidateLatest
<1>5. ASSUME NEW d \in Plugged, AcceptDisplayChanges(d) \/ HalAccepts(d) PROVE LatestInv'
  BY <1>5, AcceptLatest
<1>6. ASSUME NEW d \in Plugged,
             \/ PresentDropped(d) \/ PresentSkipFrame(d) \/ PresentFrame(d)
             \/ PresentNoLayers(d) \/ PresentFails(d) \/ CommitFails(d)
      PROVE  LatestInv'
  BY <1>6, EndLatest, NoLayersLatest
<1>7. ASSUME NEW d \in Plugged, PresentNotValidated(d) \/ GetReleaseFences(d) \/ PowerOff(d) \/ PowerOn(d)
      PROVE  LatestInv'
  BY <1>7, NotValidatedLatest, ReleaseLatest, PowerLatest
<1>8. CASE SwitchTui
  BY <1>1, <1>8 DEF SwitchTui
<1>9. CASE ClientDies
  BY <1>9, DeathLatest
<1>10. CASE UNCHANGED frameVars
  <2>1. tui' => device.hasTui
    <3>1. tui' = tui
      BY <1>10
    <3> QED BY <3>1 DEF LatestInv
  <2> QED BY <1>1, <1>10, <2>1
<1> QED BY <1>2, <1>3, <1>4, <1>5, <1>6, <1>7, <1>8, <1>9, <1>10, <1>11 DEF FrameNext

LEMMA FrameShows ==
  ASSUME LatestInv, NEW d \in Displays, PresentFrame(d)
  PROVE  ShowsLatest(d) /\ d \notin unassigned
<1>1. d \in Plugged /\ Composable(d)
  BY DEF PresentFrame, Composable, Presents, LatestInv
<1>2. FrameOf(d) /\ disp[d].power
  BY <1>1 DEF LatestInv, FrameOf, StageInv, Composable, Presents
<1>3. /\ disp[d].rendering \in {"ACCEPTED", "PRESENTED"} /\ d \notin unassigned
      /\ disp[d].rendering = "PRESENTED" =>
           ~geometry /\ CanSkipValidate /\ (ClientLayers(d) # {} => disp[d].skip)
      /\ disp[d].skipInit => SameSource(disp[d], ClientLayers(d))
      /\ disp[d].skip => disp[d].skipInit
      /\ \A l \in LayersOf(d) : layer[l].type = Reported(d, l)
  BY <1>1, BeforeFrame
<1>4. Validated(d) => \A l \in LayersOf(d) : layer[l].acquire
  BY <1>2 DEF FrameOf, TypesInv, Validated, Awaiting
<1>5. ASSUME ClientLayers(d) # {}
      PROVE  disp[d].target # "none" /\ (~device.hasTui => ClientLayers(d) \subseteq fresh[d])
  <2>1. CASE disp[d].skip
    <3>1. disp[d].target # "none"
      BY <1>5, <2>1 DEF PresentFrame, TargetChanged
    <3>2. ASSUME ~device.hasTui PROVE ClientLayers(d) \subseteq fresh[d]
      <4>1. \A l \in Layers : disp[d].source[l] = "same" => l \in fresh[d]
        BY <1>2, <1>3, <2>1, <3>2 DEF FrameOf, SourceInv
      <4>2. \A l \in ClientLayers(d) : l \in Layers
        BY ShownFacts DEF LatestInv, FencesInv, ClientLayers
      <4> QED BY <1>3, <2>1, <4>1, <4>2 DEF SameSource
    <3> QED BY <3>1, <3>2
  <2>2. CASE ~disp[d].skip
    BY <1>2, <1>3, <1>5, <2>2 DEF FrameOf, TargetInv
  <2> QED BY <2>1, <2>2
<1> QED BY <1>3, <1>4, <1>5 DEF ShowsLatest

(* A frame that reaches the panel, after a validation or without, shows    *)
(* each layer with its present content, as SurfaceFlinger was told it      *)
(* would, and was assigned after the last change of its display: through   *)
(* frames of other displays, failed presents, power, the trusted UI and    *)
(* the death of SurfaceFlinger.                                            *)
THEOREM FramesAlwaysShowLatest == FrameSpec => FramesShowLatest
<1>1. LatestInv => \A d \in Displays : PresentFrame(d) => ShowsLatest(d) /\ d \notin unassigned
  BY FrameShows
<1> QED BY <1>1, InitLatest, LatestStep, PTL DEF FrameSpec, FramesShowLatest

-----------------------------------------------------------------------------
(* The power hints.                                                        *)

Labels == {"test", "wait", "copy", "idle", "rate", "send", "record", "session", "target", "crashed"}
Deadlines == {"none", "future", "past"}
Routines == [at : Labels, power : BOOLEAN, deadline : Deadlines, updateRate : BOOLEAN, force : BOOLEAN,
             rate : HintRates \cup {0}, start : BOOLEAN]
Hals == [alive : BOOLEAN, rates : SUBSET HintRates, idle : BOOLEAN, target : Targets \cup {0}]
Lasts == [rate : HintRates \cup {0}, idle : BOOLEAN, target : Targets \cup {0}]
Pendings == [rate : BOOLEAN, idle : BOOLEAN, tids : BOOLEAN]
Wanteds == [power : BOOLEAN, rate : HintRates, deadline : Deadlines, target : Targets]

HintType ==
  /\ wanted \in Wanteds /\ pending \in Pendings /\ last \in Lasts
  /\ link \in {"none", "live", "dead"} /\ session \in {"none", "live", "dead"}
  /\ retries \in Nat /\ routine \in Routines /\ hal \in Hals /\ obituary \in BOOLEAN

(* What lives and dies with the power HAL.                                 *)
LinkInv ==
  /\ link = "live" => hal.alive /\ session # "dead"
  /\ link # "none" => retries = 0
  /\ session = "live" => link = "live" /\ hal.target = last.target
  /\ obituary => ~hal.alive

(* The rates that the HAL was told are the one that was recorded.          *)
RatesInv ==
  /\ link # "live" => hal.rates = {}
  /\ At("send") \/ At("record") => routine.rate \in HintRates /\ last.rate = 0
  /\ link = "live" => hal.rates = IF At("record") THEN {routine.rate}
                                  ELSE IF last.rate = 0 THEN {} ELSE {last.rate}

(* No update of the rate is due, or it is under way with what is wanted.   *)
FreshInv ==
  link = "live" /\ ~pending.rate =>
     /\ (At("idle") \/ At("rate")) /\ routine.updateRate => routine.power = wanted.power
     /\ At("send") \/ At("record") => routine.rate = wanted.rate /\ wanted.power
     /\ ~((At("idle") \/ At("rate")) /\ routine.updateRate) /\ ~At("send") /\ ~At("record") =>
          last.rate = IF wanted.power THEN wanted.rate ELSE 0

IdleInv == link = "live" /\ ~pending.idle => (At("idle") /\ routine.force) \/ hal.idle = last.idle

WaitInv ==
  At("wait") => /\ ~pending.rate /\ ~pending.idle /\ session # "none"
                /\ last.idle = IdleWanted(wanted.deadline) /\ last.target = wanted.target

HintInv == HintType /\ LinkInv /\ RatesInv /\ FreshInv /\ IdleInv /\ WaitInv

LEMMA GotoFacts ==
  ASSUME HintType, NEW label \in Labels, Goto(label)
  PROVE  /\ routine' \in Routines /\ routine'.at = label
         /\ routine'.power = (routine.power /\ label = "rate")
         /\ routine'.updateRate = (routine.updateRate /\ label = "rate")
         /\ routine'.force = FALSE
         /\ routine'.rate = IF label = "record" THEN routine.rate ELSE 0
<1> DEFINE p == routine.power /\ label = "rate"
           u == routine.updateRate /\ label = "rate"
           t == IF label = "record" THEN routine.rate ELSE 0
           s == routine.start /\ label \in {"rate", "send", "record", "session"}
<1>1. p \in BOOLEAN /\ u \in BOOLEAN /\ s \in BOOLEAN /\ t \in HintRates \cup {0}
  BY DEF HintType, Routines
<1>2. routine' = [routine EXCEPT !.at = label, !.deadline = "none", !.force = FALSE,
                    !.power = p, !.updateRate = u, !.rate = t, !.start = s]
  BY DEF Goto
<1> HIDE DEF p, u, t, s
<1>3. /\ routine' \in Routines /\ routine'.at = label /\ routine'.power = p /\ routine'.updateRate = u
      /\ routine'.force = FALSE /\ routine'.rate = t
  BY <1>1, <1>2 DEF HintType, Routines, Deadlines
<1> QED BY <1>3 DEF p, u, t

LEMMA WakenedFacts ==
  ASSUME HintType
  PROVE  /\ Wakened(routine) \in Routines
         /\ Wakened(routine).at = IF At("wait") THEN "copy" ELSE routine.at
         /\ Wakened(routine).power = routine.power /\ Wakened(routine).updateRate = routine.updateRate
         /\ Wakened(routine).force = routine.force /\ Wakened(routine).rate = routine.rate
BY DEF HintType, Routines, Labels, Wakened, At

(* A caller changes what is wanted or is due, and wakes the worker.        *)
LEMMA CallerStep ==
  ASSUME HintInv, wanted' \in Wanteds, pending' \in Pendings, routine' = Wakened(routine),
         pending.rate => pending'.rate, pending.idle => pending'.idle,
         ~pending'.rate => wanted'.power = wanted.power /\ wanted'.rate = wanted.rate,
         UNCHANGED <<last, link, session, retries, hal, obituary>>
  PROVE  HintInv'
<1>1. /\ routine' \in Routines /\ routine'.at = (IF At("wait") THEN "copy" ELSE routine.at)
      /\ routine'.power = routine.power /\ routine'.updateRate = routine.updateRate
      /\ routine'.force = routine.force /\ routine'.rate = routine.rate
  BY WakenedFacts DEF HintInv
<1>2. HintType' /\ LinkInv' /\ WaitInv'
  BY <1>1 DEF HintInv, HintType, LinkInv, WaitInv, At
<1>3. RatesInv' /\ IdleInv'
  BY <1>1 DEF HintInv, RatesInv, IdleInv, At
<1>4. FreshInv'
  BY <1>1 DEF HintInv, FreshInv, At
<1> QED BY <1>2, <1>3, <1>4 DEF HintInv

LEMMA CallersStep ==
  ASSUME HintInv,
         \/ \E power \in BOOLEAN, rate \in HintRates : SignalRefreshRate(power, rate)
         \/ \E target \in Targets : SignalTarget(target)
         \/ SignalNonIdle \/ TidChanges \/ IdleDeadline
  PROVE  HintInv'
<1>1. ASSUME NEW power \in BOOLEAN, NEW rate \in HintRates, SignalRefreshRate(power, rate) PROVE HintInv'
  <2>1. wanted' \in Wanteds /\ pending' \in Pendings /\ pending'.rate /\ pending'.idle = pending.idle
    BY <1>1 DEF SignalRefreshRate, HintInv, HintType, Wanteds, Pendings
  <2> QED BY <1>1, <2>1, CallerStep DEF SignalRefreshRate
<1>2. ASSUME NEW target \in Targets, SignalTarget(target) PROVE HintInv'
  <2>1. wanted' \in Wanteds /\ wanted'.power = wanted.power /\ wanted'.rate = wanted.rate
        /\ UNCHANGED <<pending, last, link, session, retries, hal, obituary>> /\ pending \in Pendings
    BY <1>2 DEF SignalTarget, HintInv, HintType, Wanteds
  <2>2. CASE routine' = Wakened(routine)
    BY <2>1, <2>2, CallerStep
  <2>3. CASE target = last.target /\ routine' = routine
    <3>1. ~At("wait")
      BY <1>2, <2>3 DEF SignalTarget, HintInv, WaitInv
    <3>2. routine' = Wakened(routine)
      BY <2>3, <3>1 DEF Wakened, At
    <3> QED BY <2>2, <3>2
  <2> QED BY <1>2, <2>2, <2>3 DEF SignalTarget
<1>3. ASSUME SignalNonIdle \/ IdleDeadline PROVE HintInv'
  <2>1. wanted' \in Wanteds /\ wanted'.power = wanted.power /\ wanted'.rate = wanted.rate
        /\ UNCHANGED <<pending, last, link, session, retries, hal, obituary>> /\ pending \in Pendings
        /\ routine' = Wakened(routine)
    BY <1>3 DEF SignalNonIdle, IdleDeadline, HintInv, HintType, Wanteds, Deadlines
  <2> QED BY <2>1, CallerStep
<1>4. ASSUME TidChanges PROVE HintInv'
  <2>1. pending' \in Pendings /\ pending'.rate = pending.rate /\ pending'.idle = pending.idle
        /\ UNCHANGED <<wanted, last, link, session, retries, hal, obituary>> /\ wanted \in Wanteds
        /\ routine' = Wakened(routine)
    BY <1>4 DEF TidChanges, HintInv, HintType, Pendings
  <2> QED BY <2>1, CallerStep
<1> QED BY <1>1, <1>2, <1>3, <1>4

LEMMA HalStep ==
  ASSUME ~LateObituary, HintInv, HalDies \/ HalRestarts \/ BinderDied
  PROVE  HintInv'
<1>1. CASE HalDies
  <2>1. /\ hal' = [NewHal EXCEPT !.alive = FALSE] /\ link' = (IF link = "live" THEN "dead" ELSE link)
        /\ session' = (IF session = "live" THEN "dead" ELSE session)
        /\ obituary' = (obituary \/ link = "live")
        /\ UNCHANGED <<wanted, pending, last, retries, routine>>
    BY <1>1 DEF HalDies
  <2>2. hal' \in Hals /\ hal'.alive = FALSE /\ hal'.rates = {}
    BY <2>1 DEF NewHal, Hals
  <2>3. link' # "live" /\ session' # "live"
    BY <2>1
  <2>4. HintType'
    BY <2>1, <2>2 DEF HintInv, HintType
  <2>5. LinkInv'
    BY <2>1, <2>2, <2>3 DEF HintInv, LinkInv
  <2>6. RatesInv' /\ FreshInv' /\ IdleInv' /\ WaitInv'
    BY <2>1, <2>2, <2>3 DEF HintInv, RatesInv, FreshInv, IdleInv, WaitInv, At
  <2> QED BY <2>4, <2>5, <2>6 DEF HintInv
<1>2. CASE HalRestarts
  <2>1. /\ hal' = NewHal /\ ~hal.alive /\ ~obituary
        /\ UNCHANGED <<wanted, pending, last, link, session, retries, routine, obituary>>
    BY <1>2 DEF HalRestarts
  <2>2. hal' \in Hals /\ hal'.rates = {}
    BY <2>1 DEF NewHal, Hals
  <2>3. link # "live" /\ session # "live"
    BY <2>1 DEF HintInv, LinkInv
  <2>4. HintType'
    BY <2>1, <2>2 DEF HintInv, HintType
  <2>5. LinkInv'
    BY <2>1, <2>2, <2>3 DEF HintInv, LinkInv
  <2>6. RatesInv' /\ FreshInv' /\ IdleInv' /\ WaitInv'
    BY <2>1, <2>2, <2>3 DEF HintInv, RatesInv, FreshInv, IdleInv, WaitInv, At
  <2> QED BY <2>4, <2>5, <2>6 DEF HintInv
<1>3. CASE BinderDied
  <2>1. /\ obituary /\ obituary' = FALSE /\ last' = [last EXCEPT !.rate = 0] /\ pending' = Forced(pending)
        /\ routine' = Wakened(routine) /\ UNCHANGED <<wanted, link, session, retries, hal>>
    BY <1>3 DEF BinderDied
  <2>2. /\ routine' \in Routines /\ routine'.at = (IF At("wait") THEN "copy" ELSE routine.at)
        /\ routine'.rate = routine.rate
    BY <2>1, WakenedFacts DEF HintInv
  <2>3. link # "live" /\ session # "live"
    BY <2>1 DEF HintInv, LinkInv
  <2>4. last' \in Lasts /\ last'.rate = 0 /\ pending' \in Pendings
    BY <2>1 DEF HintInv, HintType, Lasts, Forced, Pendings
  <2>5. HintType'
    BY <2>1, <2>2, <2>4 DEF HintInv, HintType
  <2>6. LinkInv' /\ FreshInv' /\ IdleInv'
    BY <2>1, <2>3 DEF HintInv, LinkInv, FreshInv, IdleInv
  <2>7. RatesInv' /\ WaitInv'
    BY <2>1, <2>2, <2>3, <2>4 DEF HintInv, RatesInv, WaitInv, At
  <2> QED BY <2>5, <2>6, <2>7 DEF HintInv
<1> QED BY <1>1, <1>2, <1>3

LEMMA TestCopyStep == ASSUME HintInv, Test \/ Copy PROVE HintInv'
<1>1. CASE Test
  <2>1. PICK label \in {"copy", "wait"} :
          /\ Goto(label)
          /\ label = "wait" => /\ ~pending.rate /\ ~pending.idle /\ last.idle = IdleWanted(wanted.deadline)
                               /\ session # "none" /\ ~pending.tids /\ wanted.target = last.target
    BY <1>1 DEF Test, NeedsStart
  <2>2. /\ routine' \in Routines /\ routine'.at = label
    BY <2>1, GotoFacts DEF Labels, HintInv
  <2>3. /\ At("test") /\ session' = (IF pending.tids THEN "none" ELSE session)
        /\ UNCHANGED <<wanted, pending, last, link, retries, hal, obituary>>
    BY <1>1 DEF Test
  <2>4. HintType' /\ LinkInv' /\ WaitInv'
    BY <2>1, <2>2, <2>3 DEF HintInv, HintType, LinkInv, WaitInv, At
  <2>5. RatesInv' /\ FreshInv' /\ IdleInv'
    BY <2>1, <2>2, <2>3 DEF HintInv, RatesInv, FreshInv, IdleInv, At
  <2> QED BY <2>4, <2>5 DEF HintInv
<1>2. CASE Copy
  <2>1. /\ At("copy") /\ pending' = ClearedFlags
        /\ routine' = [at |-> "idle", power |-> wanted.power, deadline |-> wanted.deadline,
                   updateRate |-> pending.rate, force |-> pending.idle, rate |-> 0, start |-> session = "none"]
        /\ UNCHANGED <<wanted, last, link, session, retries, hal, obituary>>
    BY <1>2 DEF Copy
  <2>2. /\ routine'.at = "idle" /\ routine'.power = wanted.power /\ routine'.updateRate = pending.rate
        /\ routine'.force = pending.idle /\ pending' \in Pendings
    BY <2>1 DEF ClearedFlags, Pendings
  <2>3. routine' \in Routines
    BY <2>1 DEF HintInv, HintType, Routines, Labels, Wanteds, Pendings
  <2>4. HintType' /\ LinkInv' /\ WaitInv'
    BY <2>1, <2>2, <2>3 DEF HintInv, HintType, LinkInv, WaitInv, At
  <2>5. RatesInv' /\ FreshInv' /\ IdleInv'
    BY <2>1, <2>2 DEF HintInv, RatesInv, FreshInv, IdleInv, At
  <2> QED BY <2>4, <2>5 DEF HintInv
<1> QED BY <1>1, <1>2

\* What a call that succeeds or fails makes of the connection.
LEMMA CallFacts ==
  ASSUME HintInv
  PROVE  /\ CallFails => /\ link # "live" /\ link' = "none" /\ retries' \in Nat
                         /\ hal' = hal /\ session' = session => hal'.rates = {} /\ session' # "live"
         /\ \A told : CallSucceeds(told) =>
              /\ hal.alive /\ link' = "live" /\ hal' = told /\ retries' = 0
              /\ link = "live" => session' = session /\ pending' = pending
              /\ link = "none" => session' = "none" /\ pending' \in Pendings
                                  /\ pending'.rate /\ pending'.idle /\ hal.rates = {}
              /\ link \in {"live", "none"} /\ session' \in {"none", "live", "dead"}
              /\ session' # "dead"
<1>1. CallFails => link # "live" /\ link' = "none" /\ retries' \in Nat
  BY DEF CallFails, Connects, Exists, HintInv, HintType
<1>2. link # "live" => hal.rates = {} /\ session # "live"
  BY DEF HintInv, RatesInv, LinkInv
<1>3. link = "live" => session # "dead"
  BY DEF HintInv, LinkInv
<1>4. Forced(pending) \in Pendings /\ Forced(pending).rate /\ Forced(pending).idle
  BY DEF HintInv, HintType, Pendings, Forced
<1>5. ASSUME NEW told, CallSucceeds(told)
      PROVE   /\ hal.alive /\ link' = "live" /\ hal' = told /\ retries' = 0
              /\ link = "live" => session' = session /\ pending' = pending
              /\ link = "none" => session' = "none" /\ pending' \in Pendings
                                  /\ pending'.rate /\ pending'.idle /\ hal.rates = {}
              /\ link \in {"live", "none"} /\ session' \in {"none", "live", "dead"}
              /\ session' # "dead"
  <2>1. hal.alive /\ link' = "live" /\ hal' = told /\ link \in {"live", "none"}
    BY <1>5 DEF CallSucceeds, HintInv, HintType
  <2>2. CASE link = "none"
    <3>1. retries' = 0 /\ session' = "none" /\ pending' = Forced(pending)
      BY <1>5, <2>2 DEF CallSucceeds, Connects, Reconnected
    <3> QED BY <1>2, <1>4, <2>1, <2>2, <3>1
  <2>3. CASE link = "live"
    <3>1. retries' = retries /\ session' = session /\ pending' = pending
      BY <1>5, <2>3 DEF CallSucceeds, Connects
    <3>2. retries = 0 /\ session \in {"none", "live", "dead"}
      BY <2>3 DEF HintInv, LinkInv, HintType
    <3> QED BY <1>3, <2>1, <2>3, <3>1, <3>2
  <2> QED BY <2>1, <2>2, <2>3
<1> QED BY <1>1, <1>2, <1>5

LEMMA IdleStep == ASSUME HintInv, UpdateIdleHint PROVE HintInv'
<1> DEFINE on == IdleWanted(routine.deadline)
<1>1. /\ At("idle") /\ Goto("rate") /\ UNCHANGED <<wanted, obituary>> /\ on \in BOOLEAN
  BY DEF UpdateIdleHint, IdleWanted
<1>2. /\ routine' \in Routines /\ routine'.at = "rate" /\ routine'.power = routine.power
      /\ routine'.updateRate = routine.updateRate
  BY <1>1, GotoFacts DEF Labels, HintInv, HintType, Routines
<1>3. CASE (~Exists \/ (on = last.idle /\ ~routine.force))
           /\ UNCHANGED <<last, link, session, retries, pending, hal>>
  <2>1. link = "live" => Exists
    BY HintAssumption DEF HintInv, LinkInv, Exists
  <2>2. HintType' /\ LinkInv' /\ WaitInv'
    BY <1>1, <1>2, <1>3 DEF HintInv, HintType, LinkInv, WaitInv, At
  <2>3. RatesInv' /\ FreshInv' /\ IdleInv'
    BY <1>1, <1>2, <1>3, <2>1 DEF HintInv, RatesInv, FreshInv, IdleInv, At
  <2> QED BY <2>2, <2>3 DEF HintInv
<1>4. CASE CallSucceeds([hal EXCEPT !.idle = on])
           /\ last' = [last EXCEPT !.idle = on, !.rate = IF Connects THEN 0 ELSE @]
  <2>1. /\ hal.alive /\ link' = "live" /\ hal' = [hal EXCEPT !.idle = on] /\ retries' = 0
        /\ link = "live" => session' = session /\ pending' = pending
        /\ link = "none" => session' = "none" /\ pending' \in Pendings
                            /\ pending'.rate /\ pending'.idle /\ hal.rates = {}
        /\ link \in {"live", "none"} /\ session' \in {"none", "live", "dead"} /\ session' # "dead"
    BY <1>4, CallFacts
  <2>2. /\ hal' \in Hals /\ hal'.alive /\ hal'.idle = on /\ hal'.rates = hal.rates
        /\ hal'.target = hal.target
    BY <1>1, <2>1 DEF HintInv, HintType, Hals
  <2>3. /\ last' \in Lasts /\ last'.idle = on /\ last'.target = last.target
        /\ link = "live" => last'.rate = last.rate
        /\ link = "none" => last'.rate = 0
    <3>1. (IF Connects THEN 0 ELSE last.rate) \in HintRates \cup {0}
      BY DEF HintInv, HintType, Lasts
    <3>2. \A r \in HintRates \cup {0} : LET q == [last EXCEPT !.idle = on, !.rate = r] IN
             q \in Lasts /\ q.idle = on /\ q.target = last.target /\ q.rate = r
      BY <1>1 DEF HintInv, HintType, Lasts
    <3>3. last' \in Lasts /\ last'.idle = on /\ last'.target = last.target
          /\ last'.rate = IF Connects THEN 0 ELSE last.rate
      BY <1>4, <3>1, <3>2
    <3> QED BY <3>3 DEF Connects
  <2> HIDE DEF on
  <2>4. HintType' /\ LinkInv' /\ WaitInv'
    BY <1>1, <1>2, <2>1, <2>2, <2>3 DEF HintInv, HintType, LinkInv, WaitInv, At
  <2>5. RatesInv' /\ FreshInv' /\ IdleInv'
    BY <1>1, <1>2, <2>1, <2>2, <2>3 DEF HintInv, RatesInv, FreshInv, IdleInv, At
  <2> QED BY <2>4, <2>5 DEF HintInv
<1>5. CASE CallFails /\ UNCHANGED <<last, session, pending, hal>>
  <2>1. link # "live" /\ link' = "none" /\ retries' \in Nat /\ hal'.rates = {} /\ session' # "live"
    BY <1>5, CallFacts
  <2>2. HintType' /\ LinkInv' /\ WaitInv'
    BY <1>1, <1>2, <1>5, <2>1 DEF HintInv, HintType, LinkInv, WaitInv, At
  <2>3. RatesInv' /\ FreshInv' /\ IdleInv'
    BY <1>1, <1>2, <1>5, <2>1 DEF HintInv, RatesInv, FreshInv, IdleInv, At
  <2> QED BY <2>2, <2>3 DEF HintInv
<1> QED BY <1>3, <1>4, <1>5 DEF UpdateIdleHint

\* A call for the rate fails; the worker goes on with the session.
LEMMA RateFailsStep ==
  ASSUME HintInv, RateFails, Goto("session"), UNCHANGED <<wanted, obituary>>
  PROVE  HintInv'
<1>1. routine' \in Routines /\ routine'.at = "session"
  BY GotoFacts DEF Labels, HintInv
<1>2. last' \in Lasts /\ last'.target = last.target
  <2>1. (IF link = "dead" THEN 0 ELSE last.rate) \in HintRates \cup {0}
    BY DEF HintInv, HintType, Lasts
  <2>2. \A r \in HintRates \cup {0} : [last EXCEPT !.rate = r] \in Lasts /\ [last EXCEPT !.rate = r].target = last.target
    BY DEF HintInv, HintType, Lasts
  <2> QED BY <2>1, <2>2 DEF RateFails
<1>3. pending' \in Pendings
  <2>1. (pending.rate \/ wanted.power) \in BOOLEAN
    OBVIOUS
  <2>2. \A b \in BOOLEAN : [pending EXCEPT !.rate = b] \in Pendings
    BY DEF HintInv, HintType, Pendings
  <2> QED BY <2>1, <2>2 DEF RateFails, Retry
<1>4. CallFails /\ session' = session /\ hal' = hal
  BY DEF RateFails
<1>5. link # "live" /\ link' = "none" /\ retries' \in Nat /\ hal'.rates = {} /\ session' # "live"
  BY <1>4, CallFacts
<1>6. HintType' /\ LinkInv' /\ WaitInv'
  BY <1>1, <1>2, <1>3, <1>4, <1>5 DEF HintInv, HintType, LinkInv, WaitInv, At
<1>7. RatesInv' /\ FreshInv' /\ IdleInv'
  BY <1>1, <1>5 DEF HintInv, RatesInv, FreshInv, IdleInv, At
<1> QED BY <1>6, <1>7 DEF HintInv

\* Steps that touch neither the HAL nor what was told it.
LEMMA QuietStep ==
  ASSUME HintInv, NEW label \in {"session", "target", "crashed", "test"}, Goto(label),
         ~At("wait"),
         UNCHANGED <<wanted, pending, last, link, session, retries, hal, obituary>>,
         ~At("send"), ~At("record"),
         link = "live" => ~At("idle"),
         link = "live" /\ ~pending.rate /\ At("rate") /\ routine.updateRate =>
            last.rate = IF wanted.power THEN wanted.rate ELSE 0
  PROVE  HintInv'
<1>1. routine' \in Routines /\ routine'.at = label
  BY GotoFacts DEF Labels, HintInv
<1>2. HintType' /\ LinkInv' /\ WaitInv'
  BY <1>1 DEF HintInv, HintType, LinkInv, WaitInv, At
<1>3. RatesInv' /\ FreshInv' /\ IdleInv'
  BY <1>1 DEF HintInv, RatesInv, FreshInv, IdleInv, At
<1> QED BY <1>2, <1>3 DEF HintInv

LEMMA DisableStep == ASSUME HintInv, DisableOldRate PROVE HintInv'
<1> DEFINE rate == wanted.rate
<1>1. At("rate") /\ UNCHANGED <<wanted, obituary>> /\ rate \in HintRates
  BY DEF DisableOldRate, HintInv, HintType, Wanteds
<1>2. CASE /\ ~routine.updateRate \/ (last.rate = rate /\ routine.power)
           /\ Goto("session") /\ UNCHANGED <<last, link, session, retries, pending, hal>>
  <2>1. link = "live" /\ ~pending.rate /\ routine.updateRate =>
            last.rate = IF wanted.power THEN wanted.rate ELSE 0
    BY <1>1, <1>2 DEF HintInv, FreshInv
  <2> QED BY <1>1, <1>2, <2>1, QuietStep DEF At
<1>3. CASE RateFails /\ Goto("session")
  BY <1>1, <1>3, RateFailsStep
<1>4. ASSUME routine.updateRate,
             \/ /\ last.rate # 0 /\ CallSucceeds([hal EXCEPT !.rates = @ \ {last.rate}])
                /\ last' = [last EXCEPT !.rate = 0]
             \/ last.rate = 0 /\ UNCHANGED <<last, link, session, retries, pending, hal>>
      PROVE  /\ hal' \in Hals /\ hal'.alive = hal.alive /\ hal'.idle = hal.idle /\ hal'.target = hal.target
             /\ hal'.rates = {}
             /\ last' \in Lasts /\ last'.rate = 0 /\ last'.idle = last.idle /\ last'.target = last.target
             /\ pending' \in Pendings
             /\ link' = "live" => hal.alive /\ session' # "dead"
             /\ link' # "none" => retries' = 0
             /\ retries' \in Nat /\ link' \in {"none", "live", "dead"} /\ session' \in {"none", "live", "dead"}
             /\ session' = "live" => link' = "live" /\ session = "live"
             /\ link' = "live" /\ (~pending'.rate \/ ~pending'.idle) => link = "live" /\ pending' = pending
  <2>0. hal \in Hals /\ last \in Lasts /\ pending \in Pendings
    BY DEF HintInv, HintType
  <2>1. hal.rates = IF link = "live" /\ last.rate # 0 THEN {last.rate} ELSE {}
    BY <1>1 DEF HintInv, RatesInv, At
  <2>2. CASE /\ last.rate # 0 /\ CallSucceeds([hal EXCEPT !.rates = @ \ {last.rate}])
             /\ last' = [last EXCEPT !.rate = 0]
    <3>1. /\ hal.alive /\ link' = "live" /\ hal' = [hal EXCEPT !.rates = @ \ {last.rate}] /\ retries' = 0
          /\ link = "live" => session' = session /\ pending' = pending
          /\ link = "none" => session' = "none" /\ pending' \in Pendings
                              /\ pending'.rate /\ pending'.idle /\ hal.rates = {}
          /\ link \in {"live", "none"} /\ session' \in {"none", "live", "dead"} /\ session' # "dead"
      BY <2>2, CallFacts
    <3>2. /\ hal' \in Hals /\ hal'.alive = hal.alive /\ hal'.idle = hal.idle /\ hal'.target = hal.target
          /\ hal'.rates = {}
      BY <2>0, <2>1, <3>1 DEF Hals
    <3>3. last' \in Lasts /\ last'.rate = 0 /\ last'.idle = last.idle /\ last'.target = last.target
      BY <2>0, <2>2 DEF Lasts
    <3> QED BY <2>0, <3>1, <3>2, <3>3
  <2>3. CASE last.rate = 0 /\ UNCHANGED <<last, link, session, retries, pending, hal>>
    BY <2>0, <2>1, <2>3 DEF HintInv, HintType, LinkInv
  <2> QED BY <1>4, <2>2, <2>3
<1>5. ASSUME routine.updateRate,
             \/ /\ last.rate # 0 /\ CallSucceeds([hal EXCEPT !.rates = @ \ {last.rate}])
                /\ last' = [last EXCEPT !.rate = 0]
             \/ last.rate = 0 /\ UNCHANGED <<last, link, session, retries, pending, hal>>,
             IF routine.power THEN routine' = [routine EXCEPT !.at = "send", !.rate = rate]
                              ELSE Goto("session")
      PROVE  HintInv'
  <2>1. PICK label \in {"send", "session"} :
          /\ routine' \in Routines /\ routine'.at = label
          /\ label = "send" => routine.power /\ routine'.rate = rate
          /\ label = "session" => ~routine.power
    <3>1. CASE routine.power
      BY <1>1, <1>5, <3>1 DEF HintInv, HintType, Routines, Labels
    <3>2. CASE ~routine.power
      BY <1>5, <3>2, GotoFacts DEF Labels, HintInv
    <3> QED BY <3>1, <3>2
  <2>2. HintType' /\ LinkInv' /\ WaitInv'
    BY <1>1, <1>4, <1>5, <2>1 DEF HintInv, HintType, LinkInv, WaitInv, At
  <2>3. RatesInv' /\ IdleInv'
    BY <1>1, <1>4, <1>5, <2>1 DEF HintInv, RatesInv, IdleInv, At
  <2>4. FreshInv'
    BY <1>1, <1>4, <1>5, <2>1 DEF HintInv, FreshInv, At
  <2> QED BY <2>2, <2>3, <2>4 DEF HintInv
<1> QED BY <1>2, <1>3, <1>5 DEF DisableOldRate

LEMMA SendStep == ASSUME HintInv, SendNewRate PROVE HintInv'
<1>1. At("send") /\ UNCHANGED <<wanted, obituary>> /\ routine.rate \in HintRates /\ last.rate = 0
  BY DEF SendNewRate, HintInv, RatesInv
<1>2. CASE ~Exists /\ Goto("session") /\ UNCHANGED <<last, link, session, retries, pending, hal>>
  <2>1. link # "live"
    BY <1>2, HintAssumption DEF HintInv, LinkInv, Exists
  <2>2. routine' \in Routines /\ routine'.at = "session"
    BY <1>2, GotoFacts DEF Labels, HintInv
  <2>3. HintType' /\ LinkInv' /\ WaitInv'
    BY <1>1, <1>2, <2>2 DEF HintInv, HintType, LinkInv, WaitInv, At
  <2>4. RatesInv' /\ FreshInv' /\ IdleInv'
    BY <1>2, <2>1, <2>2 DEF HintInv, RatesInv, FreshInv, IdleInv, At
  <2> QED BY <2>3, <2>4 DEF HintInv
<1>3. CASE RateFails /\ Goto("session")
  BY <1>1, <1>3, RateFailsStep
<1>4. CASE /\ CallSucceeds([hal EXCEPT !.rates = @ \cup {routine.rate}]) /\ Goto("record")
           /\ last' = [last EXCEPT !.rate = IF Connects THEN 0 ELSE @]
  <2>1. /\ hal.alive /\ link' = "live" /\ hal' = [hal EXCEPT !.rates = @ \cup {routine.rate}] /\ retries' = 0
        /\ link = "live" => session' = session /\ pending' = pending
        /\ link = "none" => session' = "none" /\ pending' \in Pendings
                            /\ pending'.rate /\ pending'.idle /\ hal.rates = {}
        /\ link \in {"live", "none"} /\ session' \in {"none", "live", "dead"} /\ session' # "dead"
    BY <1>4, CallFacts
  <2>2. hal.rates = {}
    BY <1>1, <2>1 DEF HintInv, RatesInv, At
  <2>3. /\ hal' \in Hals /\ hal'.alive /\ hal'.idle = hal.idle /\ hal'.rates = {routine.rate}
        /\ hal'.target = hal.target
    BY <1>1, <2>1, <2>2 DEF HintInv, HintType, Hals
  <2>4. last' = last
    <3>1. (IF Connects THEN 0 ELSE last.rate) = last.rate
      BY <1>1
    <3>2. last' = [last EXCEPT !.rate = last.rate]
      BY <1>4, <3>1
    <3> QED BY <3>2 DEF HintInv, HintType, Lasts
  <2>5. routine' \in Routines /\ routine'.at = "record" /\ routine'.rate = routine.rate
    BY <1>4, GotoFacts DEF Labels, HintInv
  <2>6. HintType' /\ LinkInv' /\ WaitInv'
    BY <1>1, <2>1, <2>3, <2>4, <2>5 DEF HintInv, HintType, LinkInv, WaitInv, At
  <2>7. RatesInv' /\ FreshInv' /\ IdleInv'
    BY <1>1, <2>1, <2>3, <2>4, <2>5 DEF HintInv, RatesInv, FreshInv, IdleInv, At
  <2> QED BY <2>6, <2>7 DEF HintInv
<1> QED BY <1>2, <1>3, <1>4 DEF SendNewRate

LEMMA RecordStep == ASSUME HintInv, RecordRate PROVE HintInv'
<1>1. /\ At("record") /\ last' = [last EXCEPT !.rate = routine.rate]
      /\ UNCHANGED <<wanted, pending, link, session, retries, hal, obituary>>
      /\ routine.rate \in HintRates
  BY DEF RecordRate, HintInv, RatesInv
<1>2. routine' \in Routines /\ routine'.at = "session"
  BY GotoFacts DEF RecordRate, Labels, HintInv
<1>3. /\ last' \in Lasts /\ last'.rate = routine.rate /\ last'.rate # 0 /\ last'.idle = last.idle
      /\ last'.target = last.target
  BY <1>1, HintAssumption DEF HintInv, HintType, Lasts
<1>4. HintType' /\ LinkInv' /\ WaitInv'
  BY <1>1, <1>2, <1>3 DEF HintInv, HintType, LinkInv, WaitInv, At
<1>5. RatesInv' /\ FreshInv' /\ IdleInv'
  BY <1>1, <1>2, <1>3 DEF HintInv, RatesInv, FreshInv, IdleInv, At
<1> QED BY <1>4, <1>5 DEF HintInv

LEMMA TargetSet ==
  ASSUME HintInv
  PROVE  /\ wanted.target \in Targets
         /\ [last EXCEPT !.target = wanted.target] \in Lasts
         /\ [last EXCEPT !.target = wanted.target].rate = last.rate
         /\ [last EXCEPT !.target = wanted.target].idle = last.idle
         /\ [last EXCEPT !.target = wanted.target].target = wanted.target
         /\ [hal EXCEPT !.target = wanted.target] \in Hals
         /\ [hal EXCEPT !.target = wanted.target].rates = hal.rates
         /\ [hal EXCEPT !.target = wanted.target].idle = hal.idle
         /\ [hal EXCEPT !.target = wanted.target].alive = hal.alive
         /\ [hal EXCEPT !.target = wanted.target].target = wanted.target
<1>1. wanted.target \in Targets
  BY DEF HintInv, HintType, Wanteds
<1>2. last \in Lasts /\ hal \in Hals
  BY DEF HintInv, HintType
<1> QED BY <1>1, <1>2 DEF Lasts, Hals

\* The session and its target, at the end of a routine.
LEMMA TargetStep ==
  ASSUME HintInv, NEW label \in {"target", "test"}, Goto(label), At("session") \/ At("target"),
         UNCHANGED <<wanted, pending, retries, obituary>>,
         last' = last \/ last' = [last EXCEPT !.target = wanted.target],
         hal' = hal \/ hal' = [hal EXCEPT !.target = wanted.target],
         link' = link \/ (link # "live" /\ link' = "none"),
         session' = session \/ (session' = "live" /\ link = "live"),
         session' = "live" => link' = "live"
                              /\ (last'.target = hal'.target)
  PROVE  HintInv'
<1>1. routine' \in Routines /\ routine'.at = label
  BY GotoFacts DEF Labels, HintInv
<1>2. last' \in Lasts /\ last'.rate = last.rate /\ last'.idle = last.idle
  BY TargetSet DEF HintInv, HintType
<1>3. hal' \in Hals /\ hal'.rates = hal.rates /\ hal'.idle = hal.idle /\ hal'.alive = hal.alive
  BY TargetSet DEF HintInv, HintType
<1>4. HintType' /\ LinkInv' /\ WaitInv'
  BY <1>1, <1>2, <1>3 DEF HintInv, HintType, LinkInv, WaitInv, At
<1>5. RatesInv' /\ FreshInv' /\ IdleInv'
  BY <1>1, <1>2, <1>3 DEF HintInv, RatesInv, FreshInv, IdleInv, At
<1> QED BY <1>4, <1>5 DEF HintInv

LEMMA SessionStep == ASSUME HintInv, StartSession PROVE HintInv'
<1>1. At("session") /\ UNCHANGED <<wanted, pending, retries, obituary>>
  BY DEF StartSession
<1>2. CASE ~routine.start /\ Goto("target") /\ UNCHANGED <<session, last, link, hal>>
  BY <1>1, <1>2, TargetStep DEF HintInv, LinkInv
<1>3. CASE Goto("crashed") /\ UNCHANGED <<session, last, link, hal>>
  BY <1>1, <1>3, QuietStep DEF At
<1>4. CASE /\ Goto("target") /\ hal.alive /\ link = "live"
           /\ session' = "live" /\ last' = [last EXCEPT !.target = wanted.target]
           /\ hal' = [hal EXCEPT !.target = wanted.target] /\ UNCHANGED link
  BY <1>1, <1>4, TargetStep, TargetSet
<1>5. CASE /\ Goto("target") /\ ~(hal.alive /\ link = "live")
           /\ link' = "none" /\ UNCHANGED <<session, last, hal>>
  <2>1. link # "live" /\ session # "live"
    BY <1>5 DEF HintInv, LinkInv
  <2> QED BY <1>1, <1>5, <2>1, TargetStep
<1> QED BY <1>2, <1>3, <1>4, <1>5 DEF StartSession

LEMMA UpdateTargetStep == ASSUME HintInv, UpdateTarget PROVE HintInv'
<1>1. At("target") /\ Goto("test") /\ UNCHANGED <<wanted, pending, session, retries, obituary>>
  BY DEF UpdateTarget
<1>2. CASE UNCHANGED <<last, link, hal>>
  BY <1>1, <1>2, TargetStep DEF HintInv, LinkInv
<1>3. CASE /\ last' = [last EXCEPT !.target = wanted.target] /\ session = "live"
           /\ hal' = [hal EXCEPT !.target = wanted.target] /\ UNCHANGED link
  <2>1. link = "live"
    BY <1>3 DEF HintInv, LinkInv
  <2> QED BY <1>1, <1>3, <2>1, TargetStep, TargetSet
<1>4. CASE /\ last' = [last EXCEPT !.target = wanted.target] /\ session # "live" /\ session # "none"
           /\ link' = "none" /\ UNCHANGED hal
  <2>1. link # "live"
    BY <1>4 DEF HintInv, HintType, LinkInv
  <2> QED BY <1>1, <1>4, <2>1, TargetStep
<1> QED BY <1>2, <1>3, <1>4 DEF UpdateTarget

LEMMA HintStep == ~LateObituary /\ HintInv /\ [HintNext]_hintVars => HintInv'
<1> SUFFICES ASSUME ~LateObituary, HintInv, [HintNext]_hintVars PROVE HintInv'
  OBVIOUS
<1>1. CASE \/ \E power \in BOOLEAN, rate \in HintRates : SignalRefreshRate(power, rate)
           \/ \E target \in Targets : SignalTarget(target)
           \/ SignalNonIdle \/ TidChanges \/ IdleDeadline
  BY <1>1, CallersStep
<1>2. CASE HalDies \/ HalRestarts \/ BinderDied
  BY <1>2, HalStep
<1>3. CASE Test \/ Copy \/ UpdateIdleHint \/ DisableOldRate
  BY <1>3, TestCopyStep, IdleStep, DisableStep
<1>4. CASE SendNewRate \/ RecordRate \/ StartSession \/ UpdateTarget
  BY <1>4, SendStep, RecordStep, SessionStep, UpdateTargetStep
<1>5. CASE UNCHANGED hintVars
  <2>1. HintType' /\ LinkInv' /\ WaitInv'
    BY <1>5 DEF hintVars, HintInv, HintType, LinkInv, WaitInv, At
  <2>2. RatesInv' /\ FreshInv' /\ IdleInv'
    BY <1>5 DEF hintVars, HintInv, RatesInv, FreshInv, IdleInv, At
  <2> QED BY <2>1, <2>2 DEF HintInv
<1> QED BY <1>1, <1>2, <1>3, <1>4, <1>5 DEF HintNext

(* A worker that sleeps with a connection has told the power HAL, restarted*)
(* or not, the display's present rate, no rate of a display that is off,   *)
(* whether it is idle, and the present target: if the notification of a    *)
(* death comes before the HAL is back.                                     *)
THEOREM ThePowerHalIsUpToDate == ASSUME ~LateObituary PROVE HintSpec => []PowerHalIsUpToDate
<1>1. HintInit => HintInv
  <2> SUFFICES ASSUME HintInit PROVE HintInv
    OBVIOUS
  <2>1. /\ routine.at = "test" /\ link = "live" /\ hal.alive /\ hal.rates = {} /\ session = "none"
        /\ last.rate = 0 /\ last.idle = FALSE /\ hal.idle = FALSE /\ pending.rate = TRUE
        /\ retries = 0 /\ obituary = FALSE
    BY DEF HintInit, NewHal
  <2>2. HintType
    BY DEF HintInit, NewHal, HintType, Wanteds, Pendings, Lasts, Routines, Labels, Deadlines, Hals
  <2> QED BY <2>1, <2>2 DEF HintInv, LinkInv, RatesInv, FreshInv, IdleInv, WaitInv, At
<1>2. HintInv => PowerHalIsUpToDate
  <2> SUFFICES ASSUME HintInv, At("wait"), link = "live"
               PROVE  /\ hal.rates = (IF wanted.power THEN {wanted.rate} ELSE {})
                      /\ hal.idle = IdleWanted(wanted.deadline) /\ hal.target = wanted.target
    BY DEF PowerHalIsUpToDate
  <2>1. wanted.rate # 0
    BY HintAssumption DEF HintInv, HintType, Wanteds
  <2>2. ~pending.rate /\ ~pending.idle /\ session = "live"
    BY DEF HintInv, HintType, WaitInv, LinkInv
  <2>3. last.rate = IF wanted.power THEN wanted.rate ELSE 0
    BY <2>2 DEF HintInv, FreshInv, At
  <2>4. hal.rates = IF last.rate = 0 THEN {} ELSE {last.rate}
    BY DEF HintInv, RatesInv, At
  <2>5. hal.idle = IdleWanted(wanted.deadline) /\ hal.target = wanted.target
    BY <2>2 DEF HintInv, IdleInv, WaitInv, LinkInv, At
  <2> QED BY <2>1, <2>3, <2>4, <2>5
<1> QED BY <1>1, <1>2, HintStep, PTL DEF HintSpec
=============================================================================
