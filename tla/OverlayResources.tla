-------------------------- MODULE OverlayResources --------------------------
(***************************************************************************)
(* How a display's stack of layers is divided between the overlay windows, *)
(* the 2D compositor (G2D) and SurfaceFlinger's client composition:        *)
(* ExynosResourceManager::assignResource with the ranges that              *)
(* ExynosDisplay keeps for the two compositions.                           *)
(*                                                                         *)
(* Each layer in turn gets an overlay channel (an OTF MPP), a place in the *)
(* G2D, or goes to the client composition.  The layers of a composition    *)
(* must be adjacent, so that a layer which joins one may pull others with  *)
(* it; when that frees or needs a channel, the pass starts again           *)
(* (EXYNOS_ERROR_CHANGED).                                                 *)
(*                                                                         *)
(* One frame of one display that the display processor drives (mUseDpu),   *)
(* with the default switches of mDisplayControl (no useMaxG2DSrc, no       *)
(* handleLowFpsLayers), one G2D for RGB and no other memory-to-memory      *)
(* unit.  Whether a channel can show a layer is an input of the layer; the *)
(* capacity of the G2D is its number of sources.  Layers are numbered from *)
(* the bottom.                                                             *)
(***************************************************************************)
EXTENDS Integers, FiniteSets

CONSTANTS
    LayerCount,    \* the layers of the frame
    Kinds,         \* the layers there may be
    Otfs,          \* the overlay channels (mOtfMPPs); numbers, 0 is none
    G2dSources,    \* mMaxSrcLayerNum of the G2D
    TryCount,      \* ASSIGN_RESOURCE_TRY_COUNT
    CountWrap      \* 2^w, w the width of mWindowNumUsed

ASSUME ResourceAssumption ==
    /\ LayerCount \in Nat \ {0} /\ G2dSources \in Nat \ {0}
    /\ TryCount \in Nat \ {0} /\ CountWrap \in Nat \ {0}
    /\ Otfs \subseteq Nat \ {0} /\ IsFiniteSet(Otfs) /\ Otfs # {}
    /\ Kinds \subseteq [client : BOOLEAN, priority : 1 .. 4, clear : BOOLEAN,
                        otf : SUBSET Otfs, g2d : BOOLEAN]

VARIABLES
    stack,         \* the layers, as SurfaceFlinger set them
    plan,          \* what the assignment has decided: the types of the layers, the two
                   \* compositions with their ranges and channels, whether exynos has its
                   \* G2D (m2m), what each channel shows, the sources of the G2D, whether
                   \* it is reserved for no display, mWindowNumUsed, the result, and windows
    step,          \* where assignResourceInternal is
    tries          \* retry_count

resourceVars == <<stack, plan, step, tries>>

Idx == 0 .. LayerCount - 1
ClientTarget == LayerCount       \* the sources of a channel that are no layer
ExynosTarget == LayerCount + 1
Sources == 0 .. LayerCount + 1
NoOtf == 0
Free == -1
NoComposition == [has |-> FALSE, first |-> -1, last |-> -1, otf |-> NoOtf]

High == 3                        \* ePriorityHigh; ePriorityMax is 4
IsHigh(i) == stack[i].priority >= High
NeedClearClientTarget(i) == IsHigh(i) /\ stack[i].clear
MaxWindowNum == Cardinality(Otfs)
Count(n) == n % CountWrap

At(where) == [at |-> where, level |-> 0, i |-> 0, last |-> 0]

(* A frame whose geometry changed: initializeValidateInfos, and the first  *)
(* validation of the frame has reset every unit (prepareResources).        *)
ResourceInit ==
    /\ stack \in [Idx -> Kinds]
    /\ plan = [type |-> [i \in Idx |-> "invalid"], client |-> NoComposition,
               exynos |-> NoComposition, m2m |-> FALSE, owner |-> [o \in Otfs |-> Free],
               g2d |-> {}, reserved |-> FALSE, windows |-> 0, ret |-> "ok",
               window |-> [s \in Sources |-> -1]]
    /\ step = At("forced")
    /\ tries = 0

-----------------------------------------------------------------------------
(* Operations on a plan p.                                                 *)

(* Mutant: the layers keep their channels.                                 *)
ReleaseG2d(p, S) == [p EXCEPT !.g2d = @ \ S]

(* ExynosLayer::resetAssignedResource of the layers in S.                  *)
Release(p, S) ==
    [p EXCEPT !.owner = [o \in Otfs |-> IF @[o] \in S THEN Free ELSE @[o]],
              !.g2d = @ \ S]

SetType(p, S, t) == [p EXCEPT !.type = [i \in Idx |-> IF i \in S THEN t ELSE @[i]]]

(* ExynosMPP::isAssignable of the G2D.                                     *)
G2dTakes(p) == ~p.reserved /\ Cardinality(p.g2d) < G2dSources

InitExynosInfo(p) == [p EXCEPT !.exynos = NoComposition, !.m2m = FALSE]

Lowest(S) == CHOOSE i \in S : \A j \in S : i <= j
Highest(S) == CHOOSE i \in S : \A j \in S : i >= j
Lower(a, b) == IF a < b THEN a ELSE b
Higher(a, b) == IF a > b THEN a ELSE b
Span(c, i) == [c EXCEPT !.first = Lower(@, i), !.last = Higher(@, i)]

(* Mutant: the layers between stay where they are.                         *)
SandwichedNone(p, c) == {}

(* The layers that a client composition from first to last surrounds and   *)
(* must take in, unless the client target is cleared below them.           *)
Sandwiched(p, c) ==
    {j \in c.first + 1 .. c.last - 1 :
        ~NeedClearClientTarget(j) /\ p.type[j] # "client"}

(* ExynosDisplay::addClientCompositionLayer.                               *)
AddClient(p, i) ==
    IF ~p.client.has
    THEN [p EXCEPT !.client = [@ EXCEPT !.has = TRUE, !.first = i, !.last = i],
                   !.ret = "changed"]
    ELSE LET c == Span(p.client, i)
             S == Sandwiched(p, c)
             devices == {j \in S : p.type[j] = "device"}
             q == [SetType(Release(p, S), S, "client") EXCEPT
                     !.client = c, !.ret = "ok",
                     !.windows = Count(@ - Cardinality(devices))]
             E == {j \in Idx : q.type[j] = "exynos"}
         IN  IF \A j \in S : p.type[j] # "exynos" THEN q
             ELSE IF p.exynos.first < 0 \/ p.exynos.last < 0
                  THEN [q EXCEPT !.ret = "error"]
             ELSE IF E = {} THEN [InitExynosInfo(q) EXCEPT !.ret = "changed"]
             ELSE [q EXCEPT !.exynos.first = Lowest(E), !.exynos.last = Highest(E)]

(* A layer of the exynos composition that goes to the client composition.  *)
MoveToClient(p, i) == AddClient(SetType(Release(p, {i}), {i}, "client"), i)

(* The results of two steps in a row (changeFlag |= ret).                  *)
Both(r, s) == IF "error" \in {r, s} THEN "error"
              ELSE IF "changed" \in {r, s} THEN "changed" ELSE "ok"
Then(p, q) == [q EXCEPT !.ret = Both(p.ret, q.ret)]

(* A layer i between the layers of the exynos composition: the G2D takes   *)
(* it, or it goes to the client composition.                               *)
TakeIntoExynos(p, i) ==
    IF p.ret = "error" \/ IsHigh(i) \/ p.type[i] \in {"exynos", "client"} THEN p
    ELSE IF ~stack[i].g2d \/ ~G2dTakes(p) THEN Then(p, MoveToClient(p, i))
    ELSE LET q == SetType(Release(p, {i}), {i}, "exynos")
         IN  [q EXCEPT !.g2d = @ \union {i},
                !.windows = IF p.type[i] = "device" THEN Count(@ - 1) ELSE @,
                !.exynos = Span(@, i)]

(* op applied to p and to the layers of S in turn, from the lowest:        *)
(* after[n] is the plan when the layers below n have had their turn.       *)
ForEach(op(_, _), p, S) ==
    LET after[n \in 0 .. LayerCount] ==
            IF n = 0 THEN p
            ELSE IF n - 1 \in S THEN op(after[n - 1], n - 1) ELSE after[n - 1]
    IN  after[LayerCount]

MoveAllToClient(p, S) == ForEach(MoveToClient, p, S)
TakeAllIntoExynos(p, S) == ForEach(TakeIntoExynos, p, S)

(* A client composition inside the exynos composition: the side with fewer *)
(* layers goes to the client composition.                                  *)
SplitNest(p) ==
    LET c == p.client
        e == p.exynos
    IN  IF ~(c.has /\ e.first < c.first /\ c.last < e.last) THEN p
        ELSE IF c.first - e.first < e.last - c.last
        THEN LET q == Then(p, MoveToClient(p, e.first))
             IN  [q EXCEPT !.exynos.first = q.client.last + 1]
        ELSE LET q == Then(p, MoveToClient(p, e.last))
             IN  [q EXCEPT !.exynos.last = q.client.first - 1]

(* Layers of high priority leave the ends of the exynos composition.       *)
DropHighEnd(p, i) ==
    IF i = p.exynos.first THEN [p EXCEPT !.exynos.first = @ + 1]
    ELSE IF i = p.exynos.last THEN [p EXCEPT !.exynos.last = @ - 1] ELSE p
DropHighEnds(p, S) == ForEach(DropHighEnd, p, S)

Disabled(p) == [InitExynosInfo(p) EXCEPT !.ret = "changed"]

(* The error of addClientCompositionLayer is only logged here.             *)
GiveUpExynos(p, S) ==
    Disabled(MoveAllToClient(p, S))

(* ExynosDisplay::addExynosCompositionLayer with a G2D for RGB.            *)
AddExynos(p, i) ==
    IF ~p.exynos.has
    THEN [p EXCEPT !.exynos = [@ EXCEPT !.has = TRUE, !.first = i, !.last = i],
                   !.ret = "changed"]
    ELSE LET e == Span(p.exynos, i)
             range == e.first .. e.last
             high == {j \in range : IsHigh(j)}
             taken == TakeAllIntoExynos([p EXCEPT !.exynos = e, !.ret = "ok"], range)
             invalid == \E j \in range \ high :
                 taken.type[j] = "client" \/ p.type[j] = "client"
             split == IF invalid THEN SplitNest(taken) ELSE taken
             ends == DropHighEnds(split, high)
             valid == IF ends.exynos.first < 0 \/ ends.exynos.last < 0
                         \/ ends.exynos.first > ends.exynos.last
                         \/ ends.exynos.first >= LayerCount
                      THEN Disabled(ends) ELSE ends
             inside == {j \in high : valid.exynos.first < j /\ j < valid.exynos.last}
         IN  IF ~p.m2m THEN [p EXCEPT !.exynos = e, !.ret = "error"]
             ELSE IF split.ret = "error" THEN split
             ELSE IF inside = {} THEN valid
             ELSE GiveUpExynos(valid, (valid.exynos.first .. valid.exynos.last) \ high)

(* ExynosDisplay::removeClientCompositionLayer.                            *)
RemoveClient(p, i) ==
    IF ~p.client.has \/ i \notin {p.client.first, p.client.last}
    THEN [p EXCEPT !.ret = "error"]
    ELSE IF p.client.first = p.client.last
    THEN IF p.client.otf = NoOtf THEN [p EXCEPT !.ret = "error"]
         ELSE [p EXCEPT !.owner[p.client.otf] = Free, !.client = NoComposition,
                        !.windows = Count(@ - 1), !.ret = "ok"]
    ELSE IF i = p.client.first
    THEN [p EXCEPT !.client.first = @ + 1, !.ret = "ok"]
    ELSE [p EXCEPT !.client.last = @ - 1, !.ret = "ok"]

-----------------------------------------------------------------------------
(* ExynosResourceManager::assignLayer: the channels that may show layer i, *)
(* and otherwise the composition it goes to.                               *)
FreeOtfs(p) == {o \in Otfs : p.owner[o] = Free}
OtfsFor(p, i) ==
    IF stack[i].client \/ p.windows >= MaxWindowNum THEN {}
    ELSE FreeOtfs(p) \intersect stack[i].otf
CompositionFor(p, i) ==
    IF ~stack[i].client /\ stack[i].g2d /\ G2dTakes(p) THEN "exynos" ELSE "client"

(* assignMPP of a channel to layer i, or to the target of a composition.   *)
OnChannel(p, i, o) ==
    [SetType(p, {i}, "device") EXCEPT !.owner[o] = i, !.windows = Count(@ + 1),
                                      !.ret = "ok"]

LayerOnClient(p, i) == AddClient(SetType(p, {i}, "client"), i)
AllOnClient(p, S) == ForEach(LayerOnClient, p, S)
LayerOnG2d(p, i) == AddExynos([SetType(p, {i}, "exynos") EXCEPT !.g2d = @ \union {i}], i)

GoTo(where) == step' = At(where)
Walk(where, from, to) ==
    step' = [at |-> where, level |-> 0, i |-> from, last |-> to]
Level(n) == step' = [at |-> "layers", level |-> n, i |-> 0, last |-> 0]

(* Every pass is counted, the last one too.  A new pass                    *)
(* (EXYNOS_ERROR_CHANGED) starts until the tries are used up.              *)
Counted(where) ==
    /\ tries' = tries + 1
    /\ GoTo(IF tries + 1 = TryCount THEN "failed" ELSE where)
Again == Counted("reset")
Fail == GoTo("failed") /\ UNCHANGED tries

(* How the loop goes on after an operation whose result is q.ret.          *)
Continue(q, next) ==
    /\ plan' = q
    /\ \/ q.ret = "error" /\ Fail
       \/ q.ret = "changed" /\ Again
       \/ q.ret = "ok" /\ next /\ UNCHANGED tries
    /\ UNCHANGED stack

(* assignResourceInternal: first the layers that SurfaceFlinger composes.  *)
AddForced ==
    LET forced == {i \in Idx : stack[i].client}
        q == AllOnClient(plan, forced)
    IN  /\ step.at = "forced"
        /\ plan' = q
        /\ GoTo(IF q.ret = "error" THEN "failed" ELSE "reset")
        /\ UNCHANGED <<stack, tries>>

(* resetAssignedResources: every channel is free again; the layers keep    *)
(* the types of the last pass, and the G2D its sources.                    *)
Reset(p) ==
    [p EXCEPT !.owner = [o \in Otfs |-> Free], !.client.otf = NoOtf,
              !.exynos.otf = NoOtf, !.windows = 0, !.ret = "ok"]

(* assignCompositionTarget of the client composition, at the head of a     *)
(* pass.                                                                   *)
StartPass ==
    /\ step.at = "reset"
    /\ UNCHANGED <<stack, tries>>
    /\ \/ /\ ~plan.client.has
          /\ plan' = Reset(plan) /\ Level(4)
       \/ LET o == Lowest(Otfs)
          IN  /\ plan.client.has
              /\ plan' = [Reset(plan) EXCEPT !.owner[o] = ClientTarget, !.client.otf = o,
                                             !.windows = 1]
              /\ Level(4)

Placed(p, i) == p.type[i] \in {"client", "exynos"}
NextLayer(i) == step' = [step EXCEPT !.i = i + 1]

(* assignLayers: the layers of the priority that is assigned now and that  *)
(* no composition has taken, from the lowest.                              *)
Waiting == {i \in step.i .. LayerCount - 1 :
                stack[i].priority = step.level /\ ~Placed(plan, i)}

AssignLayer ==
    LET i == Lowest(Waiting)
    IN  /\ step.at = "layers" /\ Waiting # {}
        /\ \/ /\ OtfsFor(plan, i) # {}
              /\ Continue(OnChannel(plan, i, Lowest(OtfsFor(plan, i))), NextLayer(i))
           \/ /\ OtfsFor(plan, i) = {}
              /\ CompositionFor(plan, i) = "exynos"
              /\ Continue(LayerOnG2d(plan, i), NextLayer(i))
           \/ /\ OtfsFor(plan, i) = {}
              /\ CompositionFor(plan, i) = "client"
              /\ Continue(LayerOnClient(plan, i), NextLayer(i))

LevelDone ==
    /\ step.at = "layers" /\ Waiting = {}
    /\ IF step.level = High THEN GoTo("exynos")
       ELSE IF step.level = 1 THEN GoTo("priority") ELSE Level(step.level - 1)
    /\ UNCHANGED <<stack, plan, tries>>

(* assignCompositionTarget of the exynos composition.                      *)
ExynosM2m(p) == [p EXCEPT !.m2m = @ \/ G2dTakes(p)]
AssignExynosTarget ==
    LET p == ExynosM2m(plan)
        e == p.exynos
        toClient == MoveAllToClient(p, e.first .. e.last)
    IN  /\ step.at = "exynos"
        /\ \/ ~plan.exynos.has /\ Continue([plan EXCEPT !.ret = "ok"], Level(High - 1))
           \/ LET o == Lowest(FreeOtfs(p))
              IN  /\ plan.exynos.has /\ p.m2m /\ FreeOtfs(p) # {}
                  /\ Continue([p EXCEPT !.owner[o] = ExynosTarget, !.exynos.otf = o,
                                        !.windows = Count(@ + 1), !.ret = "ok"],
                              Level(High - 1))
           \/ /\ plan.exynos.has /\ (~p.m2m \/ FreeOtfs(p) = {})
              /\ Continue(IF toClient.ret = "error" THEN toClient
                          ELSE [InitExynosInfo(toClient) EXCEPT !.ret = "changed"], FALSE)

(* setResourcePriority: the driver of the G2D may refuse (EBUSY); the G2D  *)
(* is then left to the other jobs for the rest of the frame.               *)
(* Mutant: the G2D is not reserved.                                        *)
GiveG2dUpForNow(p) ==
    LET range == p.exynos.first .. p.exynos.last
    IN  [InitExynosInfo(SetType(Release(p, range), range, "device")) EXCEPT !.ret = "changed"]
GiveG2dUp(p) ==
    LET range == p.exynos.first .. p.exynos.last
    IN  [InitExynosInfo(SetType(Release(p, range), range, "device")) EXCEPT
            !.reserved = TRUE, !.ret = "changed"]
SetResourcePriority ==
    /\ step.at = "priority"
    /\ \/ plan' = [plan EXCEPT !.ret = "ok"] /\ Counted("update") /\ UNCHANGED stack
       \/ plan.exynos.has /\ plan.m2m /\ Continue(GiveG2dUp(plan), FALSE)

(* updateExynosComposition: one layer needs no composition.                *)
Single(p) ==
    /\ p.exynos.has /\ p.m2m /\ p.exynos.otf # NoOtf
    /\ p.exynos.first = p.exynos.last
    /\ p.exynos.otf \in stack[p.exynos.first].otf
SingleOnChannel(p) ==
    LET i == p.exynos.first
    IN  [InitExynosInfo(SetType(Release(p, {i}), {i}, "device")) EXCEPT
            !.owner[p.exynos.otf] = i]
UpdateExynosComposition ==
    LET p == IF Single(plan) THEN SingleOnChannel(plan) ELSE plan
    IN  /\ step.at = "update"
        /\ plan' = p
        /\ IF p.client.has THEN Walk("clientUp", p.client.first, p.client.last)
           ELSE GoTo("window")
        /\ UNCHANGED <<stack, tries>>

(* changeLayerFromClientToDevice.                                          *)
ClientToDevice(p, i, o) ==
    LET q == RemoveClient(p, i)
    IN  IF q.ret = "error" THEN q ELSE OnChannel(q, i, o)

HighOnDevice(p, i) == IsHigh(i) /\ p.type[i] = "device"

(* updateClientComposition: channels that are left take layers off the     *)
(* lower end of the client composition, then off its upper end.  The       *)
(* second walk does not stop at the first layer of the composition.        *)
StartDown == Walk("clientDown", plan.client.last, 0) /\ UNCHANGED plan
EndWalk == GoTo("window") /\ UNCHANGED plan

(* One layer of a walk, with the composition that a layer which has its    *)
(* channel already leaves behind, the next step and the end of the walk.   *)
WalkLayer(i, passed, next, end) ==
    IF HighOnDevice(plan, i) THEN plan' = passed /\ next
    ELSE IF OtfsFor(plan, i) = {} THEN end
    ELSE LET q == ClientToDevice(plan, i, Lowest(OtfsFor(plan, i)))
         IN  plan' = q /\ IF q.ret = "error" THEN GoTo("failed") ELSE next

ClientUp ==
    /\ step.at = "clientUp"
    /\ IF step.i > step.last THEN StartDown
       ELSE WalkLayer(step.i, [plan EXCEPT !.client.first = @ + 1],
                      NextLayer(step.i), StartDown)
    /\ UNCHANGED <<stack, tries>>

ClientDown ==
    /\ step.at = "clientDown"
    /\ IF step.i < 0 THEN EndWalk
       ELSE WalkLayer(step.i, [plan EXCEPT !.client.last = @ - 1],
                      step' = [step EXCEPT !.i = @ - 1], EndWalk)
    /\ UNCHANGED <<stack, tries>>

(* assignWindow: windows from the bottom; a composition has the place of   *)
(* its last layer.                                                         *)
HasWindow(p, i) ==
    \/ p.type[i] = "device"
    \/ p.type[i] = "client" /\ p.client.has /\ i = p.client.last
    \/ p.type[i] = "exynos" /\ p.exynos.has /\ i = p.exynos.last
SourceOf(p, i) ==
    CASE p.type[i] = "client" -> ClientTarget
      [] p.type[i] = "exynos" -> ExynosTarget
      [] OTHER -> i
AssignWindow ==
    /\ step.at = "window"
    /\ plan' = [plan EXCEPT !.window = [s \in Sources |->
         IF \E i \in Idx : HasWindow(plan, i) /\ SourceOf(plan, i) = s
         THEN LET i == Highest({j \in Idx : HasWindow(plan, j) /\ SourceOf(plan, j) = s})
              IN  Cardinality({j \in 0 .. i - 1 : HasWindow(plan, j)})
         ELSE -1]]
    /\ GoTo("done")
    /\ UNCHANGED <<stack, tries>>

ResourceNext ==
    \/ AddForced \/ StartPass \/ AssignLayer \/ LevelDone
    \/ AssignExynosTarget \/ SetResourcePriority \/ UpdateExynosComposition
    \/ ClientUp \/ ClientDown \/ AssignWindow

ResourceSpec == ResourceInit /\ [][ResourceNext]_resourceVars

-----------------------------------------------------------------------------
(* The layers of high priority that the G2D could compose.                 *)
HighOnG2d == {i \in Idx : IsHigh(i) /\ stack[i].g2d}

(* The passes end, without an error and before the tries are used up:      *)
(* every restart moves layers towards the client composition only.  Layers *)
(* of high priority for the G2D are the exception: a second one joins the  *)
(* exynos composition before it has its G2D, and one that is dropped from  *)
(* its range still has its type when the composition is given up.          *)
AssignmentEnds == step.at = "failed" => HighOnG2d # {}

InRange(c, i) == c.has /\ c.first <= i /\ i <= c.last
OnChannelOf(c, target) == c.otf \in Otfs /\ plan.owner[c.otf] = target
ShownBy(o, s) ==
    CASE s = ClientTarget -> plan.client.has /\ plan.client.otf = o
      [] s = ExynosTarget -> plan.exynos.has /\ plan.exynos.otf = o
      [] OTHER -> plan.type[s] = "device"

(* After the assignment every layer is shown: by a channel of its own, or  *)
(* by the target of the composition that it is part of, which has a        *)
(* channel; and no channel is held by anything else, whatever layers the   *)
(* passes and the last optimisations moved.                                *)
EveryLayerShown ==
    step.at = "done" /\ HighOnG2d = {} =>
        /\ \A i \in Idx :
             \/ plan.type[i] = "device" /\ \E o \in Otfs : plan.owner[o] = i
             \/ /\ plan.type[i] = "client" /\ InRange(plan.client, i)
                /\ OnChannelOf(plan.client, ClientTarget)
             \/ /\ plan.type[i] = "exynos" /\ InRange(plan.exynos, i)
                /\ OnChannelOf(plan.exynos, ExynosTarget) /\ plan.m2m /\ i \in plan.g2d
        /\ \A o \in Otfs : plan.owner[o] # Free => ShownBy(o, plan.owner[o])

\* Of two adjacent layers, at most one has high priority.
HighApart == \A i \in Idx : IsHigh(i) /\ i + 1 \in Idx => ~IsHigh(i + 1)

(* Each source has a window, and a layer is shown above all that is below  *)
(* it in the stack.  Only a layer under which the client target is cleared *)
(* may be below that target.  Two adjacent layers of high priority are the *)
(* exception: where the exynos composition was split below them, only the  *)
(* upper one leaves its range, and the composition gets no window.         *)
StackKept ==
    step.at = "done" /\ HighOnG2d = {} /\ HighApart =>
        /\ \A i \in Idx : plan.window[SourceOf(plan, i)] >= 0
        /\ \A i, j \in Idx :
             i < j /\ SourceOf(plan, i) # SourceOf(plan, j) =>
                 \/ plan.window[SourceOf(plan, i)] < plan.window[SourceOf(plan, j)]
                 \/ plan.type[i] = "client" /\ NeedClearClientTarget(j)

\* Both: nothing is left out of the picture, and nothing is out of place in it.
StackIsShown == EveryLayerShown /\ StackKept
=============================================================================
