# Verification of the Exynos/Pixel display HAL

This project keeps TLA+ models of the hardware composer in this repository
beside the code, checks them with TLC on small instances and proves what matters
most with TLAPS for all values of the constants.

The models cover the parts of the system with the most concurrency, the most
failure paths and the least test coverage: the variable refresh rate controller
and the display that drives it, the change of configurations, the brightness
controller, the frame of a display with its fences, the framebuffers, planes,
crtcs and compositors that frames use, the life of clients and their layers, the
binder service, and the image libraries. The inventory below covers the whole
repository; section 8 says what is left out.

Contents:

1. [Inventory](#1-inventory)
2. [Modules](#2-modules)
3. [How the models correspond to the
   code](#3-how-the-models-correspond-to-the-code)
4. [Runs, bounds and what they show](#4-runs-bounds-and-what-they-show)
5. [Fairness](#5-fairness)
6. [What is proved](#6-what-is-proved)
7. [Where the code and its documentation
   disagree](#7-where-the-code-and-its-documentation-disagree)
8. [What is not modelled, and why](#8-what-is-not-modelled-and-why)
9. [Plan](#9-plan)
10. [Running the checks](#10-running-the-checks)

Line numbers refer to the files under `src/`; `VRC` abbreviates
`libhwc2.1/libvrr/VariableRefreshRateController.cpp`, and `DRM`
`libhwc2.1/libdisplayinterface/ExynosDisplayDrmInterface.cpp`.

## 1. Inventory

### 1.1 Variable refresh rate

**Controller** (`libvrr/VariableRefreshRateController.{h,cpp}`,
`libvrr/EventQueue.h`, `libvrr/interface/Event.h`). State: the rendering state
(disabled, rendering, hibernate), the power mode, the active configuration, a
priority queue of timed events, the record of the pending present, the vendor's
rendering timeout tasks, the minimum refresh rate with its lock time and present
state, the present timeout controller (software or panel hardware), the last
present fence. Operations: `notifyExpectedPresent`, `setActiveVrrConfiguration`,
`setEnable`, `preSetPowerMode`, `postSetPowerMode`,
`setPresentTimeoutParameters`, `setPresentTimeoutController`,
`setFixedRefreshRateRange`, `setExpectedPresentTime`, `onPresent`, `stopThread`,
and the thread's handlers of vendor timeouts, system timeouts, notifications,
hibernate timeouts, DBI updates and callbacks. Interactions: binder threads call
the operations, the composition thread presents frames, a SCHED_FIFO thread
handles the events; the panel is written through a sysfs node; refresh rate
calculators, the frame rate reporter and the statistics listen. Hard: three
threads, a mutex that `onPresent` and the notification handler release half way,
a condition variable with two different waits, timers that race frames, several
partial failures. Correct when: no wake-up is lost, an event of an earlier frame
or an earlier power mode never acts on a later one, the task vector stays in its
bounds, no fence is leaked or closed twice, the panel is in the mode the state
says, the peak rate ends, the thread stops.

**Refresh rate calculators** (`libvrr/RefreshRateCalculator/*`). State: the
measurement window of each calculator (instant, AOD, period, video, exit idle,
combined). Operations: `onPowerStateChange`, `onPresentInternal`,
`getRefreshRate`, `reset`, `setEnabled`. They post timed events into the
controller's queue and call `onRefreshRateChanged` back. Hard: stale timers
after a reset, a combination of rates that come at different times. Correct
when: a rate is reported exactly on changes and follows the frames.

**Statistics and power residency** (`libvrr/Statistics/*`, `libvrr/Power/*`).
State: a map from display states to counters and time, the last update, the
profile in progress. Operations: `onPowerStateChange`, `onPresent`,
`onNonPresentRefresh`, `setActiveVrrConfiguration`, `setFixedRefreshRate`,
`getUpdatedStatistics`. Hard: the query and the update run in different threads;
idle time must be accounted exactly once. Correct when: the times of all states
add up to the time that has passed, and no state is counted twice.

**File nodes, context, handler loader** (`libvrr/FileNode.*`,
`libvrr/display/*`, `libvrr/ExternalEventHandlerLoader.h`). Cached values of
sysfs nodes; read-only accessors of the display; a `dlopen` of the vendor's
handler, which is not in the repository.

### 1.2 Displays

**Primary display** (`libmaindisplay/ExynosPrimaryDisplay.*`). State: power
mode, pending and active configurations, minimum idle rate votes, refresh rate
delay votes, LHBM state, idle timer, temperature. Operations: `setPowerMode`,
`setMinIdleRefreshRate`, `setRefreshRateThrottleNanos`, `setLhbmState`,
`applyPendingConfig`, `calculateTimelineLocked` and others. Hard: five mutexes,
LHBM changes that wait for frames and peak rate with time limits, configurations
that are pending while the display is off. Correct when: the votes are applied
when the display is on, the pending configuration is applied exactly once, LHBM
requests do not block each other.

**Display frame cycle** (`libdevice/ExynosDisplay.*`). State: the rendering
state (none, validated, accepted, presented), layers and their fences, the
configuration request state (done, pending, requested), skip flags, client
composition. Operations: `validateDisplay`, `acceptDisplayChanges`,
`presentDisplay`, `setActiveConfigWithConstraints`,
`doDisplayConfigPostProcess`, `setPowerMode`, `setVsyncEnabled`. Hard: fence
ownership on every error path, a configuration change that spans several frames
and vsyncs. Correct when: every fence is closed or handed over exactly once, a
requested configuration is eventually reported applied, present never runs on a
frame that was not validated.

**Device and layers** (`libdevice/ExynosDevice.*`, `libdevice/ExynosLayer.*`).
State: displays, callbacks, the dynamic recomposition thread. Hard: callbacks
registered while vsync and hotplug threads call them; a recomposition thread
started and stopped by power modes.

**External and virtual displays** (`libexternaldisplay/*`,
`libvirtualdisplay/*`). Specialisations of the frame cycle with hotplug,
enabling and disabling, and output buffers.

**Brightness controller** (`libdevice/BrightnessController.*`). State: requested
and applied values of brightness, HBM, LHBM, dimming; a flag per property that
says whether it still has to be committed. Hard: requests come from several
threads and are merged into one atomic commit or one sysfs write; a request that
is made between the preparation of a commit and its end must not be lost.

**Histogram device and mediator** (`libdevice/HistogramDevice.*`,
`histogram_mediator.*`). State: channels, clients' tokens and their
configuration states, the pending queries. Hard: channels are swapped between
clients by commits, blocking queries, clients that die. Correct when: a channel
has one owner, a token's configuration is eventually applied, waiters are woken.

**TE2 manager** (`libdevice/DisplayTe2Manager.*`). State: fixed and changeable
TE2 rate with a pending change.

### 1.3 Kernel interface

**Display interface** (`libdisplayinterface/*`). State: active and desired mode,
the vsync callback's desired period and fence, the frame buffer cache with its
removal thread. Operations: `deliverWinConfigData`,
`setActiveConfigWithConstraints`, `setActiveDrmMode`, `setVsyncEnabled`,
`Callback`, `clearDisplay`. Hard: a mode change is requested by a binder thread,
committed by a present and acknowledged by the vsync thread.

**Vsync worker and worker thread** (`libdrmresource/drm/vsyncworker.cpp`,
`libdrmresource/utils/worker.cpp`). State: enabled flag, callback, last
timestamp. Hard: a wait for a vblank without the lock, a disable in between.

**DRM resources** (`libdrmresource/drm/*`): devices, connectors, CRTCs, planes,
properties, and an event listener thread on epoll.

**Overlay resources** (`libresource/*`). State: per MPP (processing block) its
assignment state, owner display and buffers. Operations: reservation and
assignment of MPPs to layers in several passes, a thread that frees destination
buffers. Correct when: no MPP serves two layers of different displays, what is
reserved is released.

### 1.4 Services and libraries

**Composer AIDL service** (`hwc3/*`). State: the one client and its callbacks,
its resources per display and layer, the two maps of layer names. Operations:
creation and destruction of clients, layers and virtual displays, commands,
hotplug. Hard: the service outlives its clients, and the end of one races the
start of the next and a hotplug. Correct when: the three records of a layer
agree, and events reach the client that is alive.

**HWC binder service and pixel display** (`libhwcService/*`,
`pixel-display.cpp`). Transactions whose parcels two sides write and read by
hand; the handlers change the device while frames are drawn. Correct when: a
handler gets the arguments of its call, the caller learns the outcome, and a
change reaches the next frame.

**2D composition libraries** (`libscaler`, `libgscaler`, `libacryl`) and **JPEG,
V4L2, ION libraries** (`libhwjpeg`, `libv4l2`, `libion`). State: flags that say
which ioctls a handle may skip. Hard: an ioctl of a sequence fails and leaves
flags and device apart. Correct when: a job runs with the formats and controls
of its own call, and no call waits for ever.

**Helpers** (`libhwchelper/*`, `ExynosHWC.cpp`, `DisplaySceneInfo.cpp`):
conversions, the HWC2 dispatch table. **Memory accounting** (`libmemtrack`,
headers): readers of counters.

## 2. Modules

| module | what it is |
| --- | --- |
| `VrrController` | the controller: its state, one action per operation or handler, the thread, time |
| `MinimumRateCycle` | abstract specification of the minimum refresh rate: the cycle that the comment at `VariableRefreshRateController.h:216` describes |
| `PrimaryDisplayVrr` | the controller composed with the primary display's `setPowerMode` and its two throttles |
| `ConfigChange` | a configuration change: the display's request, the interface's mode set, the vsync callback, the vsync worker's thread |
| `BrightnessController` | the requests of brightness, HBM, dimming and local HBM, and their two ways to the panel |
| `LocalHbm` | `setLhbmState` against configuration and power changes |
| `FrameCycle` | validation, acceptance and presentation of frames with every fence |
| `PowerHints` | the hint worker and the power HAL, which may die |
| `FramebufferCache` | the framebuffers of a display, their commits and the thread that removes them |
| `WindowUpdate` | the partial update of a panel |
| `WindowGeometry` | the way of a layer's crop and frame into a window, with every check on it |
| `M2mComposition` | the destination buffers of a 2D engine that displays share, with fences and reuse |
| `OverlayResources` | the assignment of layers to channels, the G2D and the client composition |
| `PlaneHandover` | the reservation of channels and planes for two panels |
| `DynamicRecomposition` | the thread that recomposes an idle screen |
| `CrtcBorrowing` | the crtc an external display borrows from a built-in one |
| `HistogramChannels` | the histogram channels, their clients and the three steps of a commit |
| `ComposerService` | clients of the composer, their displays and layers, hotplug |
| `HwcService` | the calls of the binder service, from proxy to handler and back |
| `V4l2Queue` | the video device the libraries drive (external) |
| `Gscaler`, `ScalerV4L2`, `JpegCompressor` | the image libraries over `V4l2Queue` |
| `MCVrrController`, `MCPrimaryDisplayVrr`, `MCConfigChange`, `MCBrightness` | constants for TLC |
| `MCFrames`, `MCComposition`, `MCPlanes`, `MCServices` | sums of the modules that one run checks, with their constants (section 4) |
| `MCFrameCycle`, `MCOverlayResources`, `MCLibraries` | constants and properties those sums build on |
| `VrrController_proofs`, `PrimaryDisplayVrr_proofs`, `Panel_proofs`, `Frames_proofs`, `Planes_proofs`, `OverlayResources_proofs`, `Services_proofs`, `Libraries_proofs` | theorems and their proofs |

`PrimaryDisplayVrr` extends `VrrController`: its actions call the controller's
actions as operators, so a step of the composition changes the controller
exactly as the controller's own action does; the theorem
`TheDisplayDrivesTheController` states that for every step. `VrrController`
instantiates `MinimumRateCycle` with a refinement mapping (`Cycle`), and
`ImplementsCycle` states that it implements it. The other modules share no
variable: what one hears of another (a power mode, a configuration, an
assignment) is an input of its actions, taken from all values the other may
give.

`Panel_proofs` covers `ConfigChange` and `BrightnessController`, `Frames_proofs`
`FrameCycle` and `PowerHints`, `Planes_proofs`
`FramebufferCache`, `WindowUpdate`, `M2mComposition` and `WindowGeometry`,
`Services_proofs` `ComposerService`, `CrtcBorrowing`, `LocalHbm`,
`DynamicRecomposition`, `PlaneHandover`, `HwcService` and `HistogramChannels`,
and `Libraries_proofs` the five handles of `MCLibraries` over `V4l2Queue`.

Definitions named `...Keeps...`, `...Only`, `...Silently` and the like, marked
"Mutant" in their comments, are wrong versions of an operation. They are used to
check that each property is able to fail.

## 3. How the models correspond to the code

### 3.1 The controller, the display that drives it, configuration changes

**Time.** Nothing in the model reads a clock. Every time is relative to the
present instant: an event with due time `0` or less may be handled, and `Tick`
moves every time one unit closer. `Horizon` bounds relative times (anything
later saturates) and `MaxLag` bounds how overdue an event can be. Ticks are
possible while the thread could run, so a handler may be late; a thread that is
runnable is late by at most `MaxLag`, which stands for the SCHED_FIFO priority
the code gives it (`VRC:192`).

**Queue.** `mEventQueue` is a priority queue with several events of one type and
time, so the model's `queue` counts the events of each type at each due time.
Events with equal times are handled in any order, as `std::priority_queue`
promises nothing. `dropEventLocked(mask)` removes the types that *contain* the
mask (`VRC:487`), which is why dropping `kGeneralEventMask` takes the vendor
events and leaves the callbacks.

**Threads.** The controller's thread is `pc`: at the top of the loop, in one of
its three waits, in the unlocked part of the notification handler, or exited.
Each critical section is one action; what the code does without the lock is an
action of its own (`threadTakeFence`, `threadCloseFence`, `presentTakeFence`,
`presentCloseFence`). A wait ends by a notification (`woken`), by its deadline
or spuriously. The presenting thread is `ppc`; `onPresent` has one action per
early return and three for the rest (`onPresentBegin`, the fence steps and
`onPresentEnd`), as it unlocks at `VRC:747`.

**State.** `panel` is the last value written to the `refresh_ctrl` node: whether
anything was written, the auto mode bit and the minimum rate. A write may fail
(`WriteMayFail`), and each caller's reaction to the failure is in its action.
`presentStates` is `mMinimumRefreshRatePresentStates`. Fences are `"none"`,
`"fd"` (open) or `"bad"` (a failed `dup`), and `openFences` counts the
descriptors the process holds.

**Rates.** Only three kinds of rate matter to the properties: none or idle (0
and 1), a minimum rate (10), and the peak rates of the configurations (60, 120).
`convertToValidRefreshRate` is the code's `lower_bound`.

**The vendor's handler** is outside the repository. What it answers is a
constant: its first timeout and its list of offsets. An override set by
`setPresentTimeoutParameters` replaces both.

**Merged or simplified.** `DOZE` and `DOZE_SUSPEND` take the same path and are
one mode. `setVrrConfigurations` runs once at start, before the controller is
enabled, and is part of `Init`. The static callback events whose timers are kept
by the refresh rate calculators are one event type, `Calculator`; what rate one
reports is any member of `ReportedRate`. `kStaticticUpdate` exists in debug
builds only. The moved-from functor of a timed event keeps its target with
libc++'s small-buffer functions, which is what the calculators rely on; the
model takes it as kept.

**Configuration change.** A mode stands for its period, and modes differ in
their refresh rate; `None` is the absent mode, configuration or period.
Everything the display does holds `mDisplayMutex`, and so does the part of the
vsync callback that changes its state, so each operation is one action.
`presentDisplay` has one disjunct for each way the open request is treated
before the frame, and a result that says whether the frame is committed:
`deliverWinConfigData` may fail, be skipped because the windows are unchanged,
or not be reached because there is no layer. A mode of the same period that is
set already is confirmed by a vsync alone (`DRM:1412`), even when the call is
only a test. The blocking commits of power changes and of `setActiveConfig` may
fail. The worker's thread is `pc`, with the lock released around the wait for a
vblank; after its wait for a signal it does not test `mEnabled` again before the
vblank, but does after it. The callback compares the measured period with the
desired one: `match` says whether they agree, and the fence of the mode set is
`"None"`, `"Pending"` or `"Over"` when the duration of the transition has passed
as well. `DOZE` and `DOZE_SUSPEND` are one mode; pausing and resuming the
display act like off and on. Local HBM, which turns requests away, is in
`LocalHbm`; left out are hotplug, several primary displays, and the timeline
reported to the client.

**Environment.** Displays that are off are not presented (a frame would be
skipped by `mSkipFrame`). `VrrController` alone lets every operation be called
at any time, also `postSetPowerMode` without `preSetPowerMode`;
`PrimaryDisplayVrr` calls them in the display's order. `notifyExpectedPresent`
comes only while the display is on unless `NotifyWhileOff` is set: nothing in
the code enforces it, and `DisabledWhileOff` does not hold without it (a
notification handled in the disabled state sets the rendering state,
`VRC:1221`). Nothing calls `setEnable(true)` on a controller that is being
destroyed.

### 3.2 The other parts of a display

**`BrightnessController`.** One action per critical section. A brightness is a
number, and from `HbmFrom` on it lies in the range of HBM; the level of the
panel is one more than the brightness, with 0 for off and 1 for the dim mode, as
the table of levels is a monotonic map. The composer's thread and the binder
service both call `SetBrightness`, which runs to the choice between a commit and
the node. The node's write is made without the mutex: `PollPanel` waits for the
values of the last commit, `WriteNode` (or `WriteFails`) writes, `RecordWrite`
takes the mutex again; anything may happen between them, a write by the other
thread included. `ValidateFrame` is `updateBrightnessState`, `PresentFrame` and
`PresentFails` are `prepareFrameCommit` with a commit the driver takes or
refuses, `CommitDone` is its effect on the panel. `clearDisplay` is `ClearFrame`
(after a frame without layers) or `ClearDisplay` (on the way to off), then
`OnClearDisplay`, whose write of the node is that of a third writer, and
`ResetStates`. The looper of the dimming message exists from
`DimmingThreadStarts` on. `lost` is a history: the parts (level, HBM mode, local
HBM) about which controller and panel may disagree, because a write failed or
was overtaken (`Overtakes`), a commit was refused (`Refused`), or a cleared
frame forgot them (`Forgotten`); a part is found again as soon as both agree
with nothing on its way.

**`LocalHbm`.** `setLhbmState` holds `mDisplayMutex` only while it changes
configurations, so `SensorCall` takes it one step at a time: enable or disable
(`call.enable`), force the peak configuration, wait for the peak mode to be set,
ask the panel, wait for it, record. Client requests, frames, vsyncs, the
kernel's own timeout, and power changes come between the steps. `asked` is the
client's last request together with those that were still open when the code
accepted it.

**`FrameCycle`.** `BeginFrame` is what the composer sends before it validates:
buffers, acquire fences, a composition type per layer, and the choice between
`presentOrValidate` and `validate`. `ValidateDisplay` is the whole function,
with a failing assignment; the assignment's result is free. There is an action
for each way `presentDisplay` returns: dropped, skip flag, not validated,
without layers, presented, failed before the commit, failed in the commit.
Layers come and go (`CreateLayer`, `DestroyLayer`), each with a duplicate of its
buffer's fence that lives as long as it does. Fences are counted (`fds`) and
recorded at their holders (the layer with its acquire and release fence, the
client target, the retire fence), so a leak shows as a fence without a holder
and a double close as a holder without a fence. The flag of geometry
changes belongs to the device: all displays set and clear it.

**`PowerHints`.** The worker's routine is split where it releases its mutex
(`Test`, `Copy`, one action per call of the HAL). The HAL is another process:
`HalDies` and `HalRestarts` change what it knows, `BinderDied` is the obituary.

**`FramebufferCache`.** `CheckShrink`, `FindCached`, `GetBuffer`,
`CommitAndFlip` and `FrameFails` are the steps of one `deliverWinConfigData`;
the removing thread (`RemoverWaits`, `RemoverTakes`, `RemoverRemoves`)
interleaves with them. A commit names a framebuffer per window, the cache has a
list per layer: the windows of the client target and of the G2D's target have no
layer and share one list (`KeyOf`). `spilled` collects the windows of a commit
whose framebuffer went with a full list that another window handed over. The
kernel keeps a set of framebuffers and the planes that show them.

**`WindowUpdate`.** One axis; the two-dimensional code treats both alike. A
frame is `PrepareFrame` (the client's damage and buffers) and one action for each
way `presentDisplay` may go: `PresentWindows` (`handleWindowUpdate`,
`deliverWinConfigData`), `PresentFails` (the error path, which asks for a whole
frame), `DeliveryFails` (the driver refuses the frame: the display is cleared,
but the frame is finished as if it had been taken), `PresentSkipped` (the power
went off after the validation, `mSkipFrame`) and `PresentDropped` (the early
return in the trusted user interface, which changes nothing). `outdated`
collects the pixels whose content changed and which no commit has updated since;
`forgotten`, those of them whose damage a frame left behind that was dropped or
refused.

**`WindowGeometry`.** One layer's way: `PrepareLayer` (`doPreProcess`),
`AssignPath` (the checks of the channel, the scaler or the G2D it is offered
to), `ConfigureWindows`, `DeliverWindows` (`validateWinConfigData`). Unsigned
sizes wrap at `UintWrap`.

**`M2mComposition`.** A frame's layers are one value; the engine's jobs are a
queue, each with the acquire fence of its destination; `Flip` is the vsync that
puts a commit on the screen and signals its fence. Both displays can use the
engine, and a frame can be dropped after it was composed.

**`OverlayResources`.** A program counter follows `assignResource` from pass to
pass; layers come in order of priority. Whether a channel supports a layer is
part of the layer's kind. What the code keeps in layers, compositions and MPPs is
one record, the plan, and each function of the code an operator on plans;
`ForEach` applies one to the layers of a range, in turn, as the code's loops do.
`tries` is `retry_count`, which also counts the pass that succeeds.

**`PlaneHandover`.** `SetPanelOn` includes `triggerClearDisplayPlanes`,
`ValidateScreen` the reservation and an assignment, which is any part of the
panel's channels; `PresentScreen` commits it and disables the panel's other
planes.

**`DynamicRecomposition`.** The thread's loop is split at its wait, and its turn
at a display into the four steps no lock joins: the test (`ThreadTests`), the
choice under `mDRMutex` (`ThreadChooses`), the reset of the event count
(`ThreadResets`) and the request for a frame (`ThreadAsks`). A validation is
three steps between any of these (`ValidateBegins` counts, `ReadLayers`,
`ValidateChecks` chooses). `PowerChanges` contains `setPowerMode`'s part, with
the join as a step of its own (`JoinEnds`); a thread may be told to stop, or be
replaced, before it has started (`ThreadStarts`). `owner` serialises the callers
among themselves: validations and power changes come from the composer, which
the model takes to send one command at a time. Two histories: `overtaken`, a
validation was under way or began between the thread's choice and its request;
`replaced`, where a joinable thread stood when a new one was assigned over it.
Time is two flags: 5 s since the last mode switch, 5 s since the last update.

**`CrtcBorrowing`.** A hotplug is five steps (`HandleHotplug`, `ReadBorrowed`,
`ReturnOnHotplug`, `FindPoweredOff`, `LendOnHotplug`). A power change is up to
five: its test (`PowerOn`, `PowerOff`), `DisableExternal`, the swaps
(`TakeCrtcBack` and `LendOther`, or `LendOwn`), `EnableExternal`, `PowerIsSet`.
They interleave freely, but where a step takes the external display's mutex
(`MutexIsFree`). `raced` is a history: the displays whose last power change and
a hotplug overlapped.

**`HistogramChannels`.** `PrepareAtomicCommit`, the commit and
`PostAtomicCommit` with the client's calls between them. The lists of the class
are sequences and sets of tokens; each channel's preparation may fail.

### 3.3 Services and libraries

**`ComposerService`.** The steps of the end of a client (`UnregisterCallback`,
`DestroyResources` per display, `ClientDestroyed`), the wait of its successor,
and the two halves of a hotplug are separate actions. Memory is a set of
addresses that can be used again.

**`HwcService`.** A call is `Call` (the proxy writes the parcel), `Serve` (the
service reads and runs the handler), `Refuse`, and `Return` (the proxy reads the
answer). For each of the 44 methods a table gives the number of words on either
side and the way its outcome travels: as a word of the reply, as the status of
the transaction, or not at all. The device is what handlers have in common with
the thread that draws: the configuration, the one the last frame was assigned
for, and the flag that announces a change.

**`V4l2Queue`, `Gscaler`, `ScalerV4L2`, `JpegCompressor`.** A library call is
one action: a record with the library's flags and the device passes through one
operator per ioctl, and the action chooses which ioctl, if any, the driver
fails. `V4l2Queue` is external: the kernel as the libraries use it. `refused`
says that an ioctl came in a state in which no driver accepts it, `hangs` that a
dequeue waits for a job no engine will do.

## 4. Runs, bounds and what they show

Every run finishes in under three minutes with two workers.

| run | module | properties |
| --- | --- | --- |
| `vendor` | `MCVrrController` | `TypeOK`, `VendorTasksInBounds`, `FencesConserved` |
| `minrate` | `MCVrrController` | `MinLockMatchesState`, `PanelFollowsPresentState`, `ImplementsCycle` |
| `wakeups` | `MCVrrController` | `TimelyWakeup`, `DisabledWhileOff` |
| `live` | `MCVrrController` | `PeakRateReleased`, `FrameInsertionEnds`, `ThreadStops` |
| `votes` | `MCPrimaryDisplayVrr` | `VotesApplied`, `HardwareHasAutoMode` |
| `config` | `MCConfigChange` | `TypeOK`, `VsyncRunsWhenWanted`, `RequestIsTracked`, `NoLostSignal`, `ChangeIsConfirmed` |
| `brightness` | `MCBrightness` | `PanelFollowsRequests`, `DimmingWillEnd` |
| `frames` | `MCFrames` | `EveryFenceHasOneOwner`, `FramesShowLatest`, `PowerHalIsUpToDate` |
| `composition` | `MCComposition` | `AssignmentEnds`, `StackIsShown`, `JobsAreAsOrdered`, `DevicesStayUsable` |
| `planes` | `MCPlanes` | `CommitsNameLiveBuffers`, `PanelIsUpToDate`, `ScreenShowsItsFrame`, `WindowsAreLegal` |
| `services` | `MCServices` | `ChannelsInStep`, `NamesAgree`, `EventsReachTheClient`, `CrtcsComeHome`, `ClientConfigKept`, `LhbmOffWithDisplay`, `RecompositionIsSafe`, `CallsAreCarriedOut`, `PlanesAreHandedOver` |
| `frame_insertion` | `MCPrimaryDisplayVrr` | `NoFrameInsertionAtMinimumRate` (violated, section 7) |

The last four passing runs are sums: a variable `focus` chooses one of the
modules in the initial state, that module runs from its own `Init` by its own
`Next`, and the variables of the others never change. Their properties are
checked together, and the number of states is the sum of the modules', not the
product. The VIEW of such a run keeps the focus and the variables of the module
in focus; all others are constant, so no two different states of a module are
identified. Only `WindowUpdate` is seen through `UpdateView`, which leaves out
what no later step and no property reads (the damage of a frame that was
presented, the last configuration once the geometry changed, which of two equal
buffers it is).

### 4.1 The controller and the display that drives it

- **`vendor`**: frames with a two-step vendor schedule, an override with three
  steps on a vector of two, power off and on, enabling and disabling, and every
  write and `dup` may fail. `addTask` appends without a test and
  `scheduleNextTask` stops only when two counters are *equal*, so one missed
  reset would run off the vector: `VendorTasksInBounds` shows that no order of
  frames, cancellations and timers does. `FencesConserved` counts descriptors
  through the two unlocked uses of `updateVsyncHistory`.
- **`minrate`**: two configurations with different peak rates, two minimum
  rates, lock times 0 and 1. There is one lock timer exactly while the peak is
  held, the panel and the reported rate follow the present state through
  configuration changes, and the controller refines `MinimumRateCycle`.
- **`wakeups`**: every operation that posts an event, in every state of the
  thread. A sleeping thread that nobody notified has a deadline no later than
  any rendering timeout or notification. `DisabledWhileOff` shows that what a
  power-off leaves in flight (a frame between its two critical sections, a
  timer, a handler) does not revive the controller.
- **`live`**: liveness under fairness. `setEnable(false)` is left out of this
  run because it drops timers that `setEnable(true)` does not post again, and
  nothing calls it.
- **`votes`**: the composition. Whatever sequence of dozes (which may fail),
  power-offs, votes and frames happened, the largest vote of the minimum idle
  rate and of the delay is enforced when no call is in progress; and whenever
  the hardware is in charge of present timeouts the panel's auto mode is on and
  no software timeout is pending that would turn it off. The run assumes
  `DelayMayOverlap = FALSE`: `setRefreshRateThrottleNanos` reads the minimum
  rate under another mutex than the one it is written under, and when it
  overlaps with `setMinIdleRefreshRate` or `setPowerMode` an old rate may be
  applied last, and `VotesApplied` fails (set the constant to TRUE to see it).
  Changes of the present timeout controller are fired in `minrate`; for
  `HardwareHasAutoMode` they are covered by the theorem `HardwareKeepsAutoMode`.
- **`config`**: two configurations, and every order of requests, frames, power
  changes, client vsync and the worker's steps, with nothing bounded: the model
  is finite. `VsyncRunsWhenWanted` shows that the worker is enabled exactly
  while the client or an open change needs it, although three operations and a
  callback on another thread switch it. `RequestIsTracked` shows that an open
  request is tied to its own mode through failed frames, newer requests and
  power cycles. `ChangeIsConfirmed` shows that a change whose mode was set ends,
  by the period or by the duration of the transition, unless modes are set again
  and again. A third configuration would only add a second "other" mode: no
  operation compares more than two at a time.

**Bounds.** `MaxPosts` caps the notifications and DBI updates due at one instant
(one, or none where they do not matter): a second one of the same time behaves
like the first. `Horizon` 2 and timeouts of one or two units keep every order of
two timers: earlier, equal, later. `MaxLag` 1 lets a handler be overtaken by one
unit. In the code the wake-up period in hibernate and the default timeout are
both 500 ms, but a hibernate timer that is left over is always strictly the
earlier of the two; with equal values in whole units a model would let such
timers accumulate without bound, so the passing runs use a shorter wake-up
period.

### 4.2 The other parts

- **`brightness`**: two brightnesses, one of the range of HBM and one that has a
  level of the dim mode; every order of requests, frames, node writes that may
  fail, commits that may be refused, clears, power changes and the timer, with
  the composer and the service as two setters. `PanelFollowsRequests` says that
  a panel at rest has the HBM mode, the local HBM and the level that the
  requests of all threads add up to, but for what `lost` names. All callers
  together are too many states, so `MCBrightness` has five foci, each with the
  composer's own brightness and frames and with some of the others: service,
  power, clear and instant HBM; service, dim mode, instant HBM and clear;
  service, enhanced HBM, instant HBM and the looper; sensor and service; sensor,
  power and clear (1.6 million states). Nothing is assumed of the speed of a
  commit or of the callers' order, only that the time-out of a poll (five
  vsyncs) is longer than a commit takes, so that a poll gives up only with
  nothing in flight. The theorem of section 6 has no foci. More brightnesses
  only add values that no operation tells apart.
- **`frames`**: one display with two layers and a client target that may be
  reused, with and without the trusted UI, and two displays that share the flag
  of geometry changes, with layers that come and go; the last layer of a display
  may go, too. A third layer would neither add a kind of fence nor a third answer
  to "did a layer of the client target change". The hints run with two rates, two
  targets and one retry.
- **`composition`**: every stack of four layers of nine kinds (`MCKinds`), three
  channels, a G2D with two sources: enough for a layer to leave a channel for
  the G2D, for the G2D to overflow into the client composition, and for both
  compositions to pull layers from between. `TryCount` is 12, more than two for
  each layer and three, which is what the passes can need (section 6); the code
  allows 100. The
  handles of the libraries run with two images each, and any one ioctl per call
  fails. Excluded are two failures after which the code itself can wait for ever
  or keep a stale flag (`MCGscFaults`, `MCScFaults`; section 7).
- **`planes`**: a cache of one layer and of lists of one buffer, so that every
  new buffer overflows them, with two target windows that share a list; a panel of
  four pixels with two windows, three shapes and five damages; two displays on
  one compositor with two jobs in flight, where the destination ring has three
  buffers; and every layer of 11 crops by 11 frames by four strides and four
  flags through a channel, a scaler and a G2D of different alignments and
  limits.
- **`services`**: two successive clients with three addresses, so that one is
  used again; three built-in displays, as the crtc may be lent by either of the
  two that are not waking, with a hotplug at any step of a power change; one
  display for the thread of the recomposition, as it looks at them one by one
  and they share nothing else; three configurations; two panels with a channel for
  one and two for the other; three histogram clients for one channel that is not
  reserved; every method of the binder service with up to two settings.

These runs keep some constants FALSE for which a property fails: `LateObituary`,
`ModeSetsFail`, `DozeFromOff`, `FramesInterrupted`, `CallsDuringFrames`,
`ComposeAfterLoss`. Each is an order of events
that nothing in the code excludes; section 7 says what happens under it, and
setting the constant to TRUE lets TLC show it.

Each property of a passing run has a mutant of the code that it rejects, listed
in `PROJECT.json` (for example `CancelKeepsTasks`, where a new frame forgets to
reset the task counters).

## 5. Fairness

`FairSpec` of `VrrController` adds weak fairness of the controller's thread, of
the unlocked part of `onPresent`, and of `Tick`. The code justifies them: the
thread has real-time priority and waits only on its condition variable and
mutex, which every holder releases after a bounded section; `onPresent` does no
blocking operation between its sections; time passes. No fairness is assumed of
HAL calls, of frames or of spurious wake-ups.

In `ConfigChange`, `FairSpec` assumes that the worker's thread runs (real-time
priority, `vsyncworker.cpp:43`) and that fences of committed frames signal, as
the kernel guarantees. It also assumes, by strong fairness, that if callbacks
come again and again while the desired mode is the one that is set, one of them
measures its period: the panel runs at that rate. Power changes, requests,
frames and the client's vsync are not fair.

The other modules state safety only. Where something must eventually happen
there (dimming ends, an assignment ends), the property says what makes it
happen: the message is queued (`DimmingWillEnd`), or the passes end before the
tries do (`AssignmentEnds`, with deadlock excluded by the program counter's last
value).

## 6. What is proved

Every theorem is `Spec => []Property` or `Spec => ActionProperty`, from the
named assumptions on the constants alone and for all their values, unless the
table names a hypothesis. The hypotheses say which callers and failures the code
was written for; they are values of the switches of section 4, and the runs
check the properties under the same values.

| theorem | property | hypothesis | inductive invariant |
| --- | --- | --- | --- |
| **`VrrController_proofs`** | | | |
| `TypeCorrect` | `TypeOK` | | itself |
| `FencesAreConserved` | `FencesConserved` | | `FenceInv` |
| `VendorTasksStayInBounds` | `VendorTasksInBounds` | | `VendorInv` |
| `NoWakeupIsLost` | `TimelyWakeup` | | itself, with `TypeOK` |
| `CycleIsImplemented` | `ImplementsCycle` | writes do not fail | step by step |
| `HardwareKeepsAutoMode` | `HardwareHasAutoMode` | writes do not fail | `AutoModeInv` |
| `TheTimerMatchesTheState` | `MinLockMatchesState` | writes do not fail, no `setEnable(false)` | `MinRateInv` |
| `ThePanelFollowsTheState` | `PanelFollowsPresentState` | the same | `MinRateInv` |
| `StaysDisabledWhileOff` | `DisabledWhileOff` | no notification while off | `OffInv` |
| **`PrimaryDisplayVrr_proofs`** | | | |
| `TheDisplayDrivesTheController` | (refinement of `VrrController`) | `CallsAreModelled` | step by step |
| `TheDisplayKeepsAutoMode` | `HardwareHasAutoMode` | the same, and writes do not fail | by refinement |
| `VotesAreApplied` | `VotesApplied` | the same, and delays do not overlap | `VotesInv` |
| **`Panel_proofs`** | | | |
| `TypeCorrect` | `TypeOK` | | itself |
| `VsyncIsRunWhenWanted` | `VsyncRunsWhenWanted` | | with `TypeOK` |
| `RequestStaysTracked` | `RequestIsTracked` | | with `TypeOK` |
| `SignalIsNotLost` | `NoLostSignal` | | with `TypeOK` |
| `DimmingAlwaysEnds` | `DimmingWillEnd` | | with `TypeInv` |
| `ThePanelFollowsRequests` | `PanelFollowsRequests` | | `PanelInv` |
| **`Frames_proofs`** | | | |
| `FencesAreNeitherLostNorClosedTwice` | `EveryFenceHasOneOwner` | | `FencesInv` |
| `FramesAlwaysShowLatest` | `FramesShowLatest` | | `LatestInv` |
| `ThePowerHalIsUpToDate` | `PowerHalIsUpToDate` | `~LateObituary` | `HintInv` |
| **`Planes_proofs`** | | | |
| `CommitsAlwaysNameLiveBuffers` | `CommitsNameLiveBuffers` | | `CacheInv` |
| `ThePanelIsUpToDate` | `PanelIsUpToDate` | `QuotientTells` | `UpdateInv` |
| `ScreensAlwaysShowTheirFrames` | `ScreenShowsItsFrame` | `~ComposeAfterLoss` | `M2mInv` |
| `WindowsAreAlwaysLegal` | `WindowsAreLegal` | `DisplayIsAligned` | `GeoInv` |
| **`OverlayResources_proofs`** | | | |
| `EveryStackIsShown` | `StackIsShown` | | `ResourceInv` |
| `TheAssignmentEnds` | `AssignmentEnds` | `TryCount > 2 * LayerCount + 3` | `TriesInv`, with `ResourceInv` |
| **`Services_proofs`** | | | |
| `TheNamesAgree` | `NamesAgree` | | `NamesInv` |
| `TheClientGetsItsEvents` | `EventsReachTheClient` | | `ClientInv` |
| `CrtcsAlwaysComeHome` | `CrtcsComeHome` | | `CrtcIInv` |
| `TheClientKeepsItsConfig` | `ClientConfigKept` | `~ModeSetsFail` | `KeptInv` |
| `LhbmGoesOffWithTheDisplay` | `LhbmOffWithDisplay` | | `LitInv` |
| `RecompositionStaysSafe` | `RecompositionIsSafe` | | `DrIInv` |
| `PlanesAreAlwaysHandedOver` | `PlanesAreHandedOver` | `EachHasChannels`, `~DozeFromOff`, `~FramesInterrupted` | `HandoverInv` |
| `CallsAreAlwaysCarriedOut` | `CallsAreCarriedOut` | `~CallsDuringFrames` | `HwcInv` |
| `ChannelsStayInStep` | `ChannelsInStep` | | `HistInv` |
| **`Libraries_proofs`** | | | |
| `JobsAreAlwaysAsOrdered` | `JobsAreAsOrdered` | `FailuresAreSurvived` | `LibrariesInv` |
| `DevicesAlwaysStayUsable` | `DevicesStayUsable` | `FailuresAreSurvived` | `LibrariesInv` |

`CallsAreModelled` says that the constants hold the arguments the display gives
the controller (the rates 0 and of doze, the lock time 0, enabling);
`QuotientTells` is a property of the shapes of layers that `windowUpdateExceptions` relies on;
`EachHasChannels` that each side has a channel reserved; `DisplayIsAligned` that
the width of the display is a multiple of the channels' alignment, without which
the target of the whole display is not a legal window; `FailuresAreSurvived`
that some ioctls do not fail: the G-Scaler's colour control, which is written
once nothing is dirty any more and so is not written again; STREAMON of the
scaler's destination, after which the source streams alone and the next call
waits for ever; STREAMOFF and DQBUF of the scaler and the JPEG classes, which
clear their flags whatever these return; and the JPEG quality, which counts as
set before it is. Every other ioctl of every call may fail, and the fault sets
of `MCLibraries` satisfy the hypothesis. `JpegAssumption` says that no quality
is the mark `none` of a control that has nothing to set.
`ASSIGN_RESOURCE_TRY_COUNT` is 100, so that the hypothesis on `TryCount` holds of
up to 48 layers.

The arguments:

- *Fences of the controller.* `FenceInv` adds what the program counters say: the
  thread and the presenting thread hold a fence only between taking and closing
  it.
- *Vendor tasks.* The bound is not inductive by itself: an init event handled on
  top of tasks that are left would append past the end. `VendorInv` says that at
  most one vendor event is queued at any time, that an init event finds no
  tasks, and that a frame whose presentation is in progress (`mPending` is set)
  has cancelled everything. The second critical section of `onPresent` may post
  its init event only because of the last part, since nothing clears `mPending`
  between the two sections.
- *Wake-ups.* The thread tests the queue and starts to wait in one critical
  section, and every post outside the thread notifies, but for the promotion's;
  that one adds a lock timer, which is neither a rendering timeout nor a
  notification. So the invariant is the property.
- *Cycle.* Initial states map to initial states and each action maps to a step
  of `MinimumRateCycle` or to a stutter; the only actions that do not stutter
  are `setFixedRefreshRateRange`, `onPresentAtMinimumRate` and `OnMinLock`. A
  failed write of an unset rate breaks it.
- *Peak rate.* `MinRateInv` joins the two properties with the number of lock
  timers (a sum over due times, which `setFixedRefreshRateRange` resets and
  `onPresentAtMinimumRate` moves) and the relation of the configured minimum to
  the present state. The two properties are proved from it at once, as neither
  holds in the next state without the other. A `setEnable(false)` drops every
  event, the lock timer included.
- *Auto mode.* `AutoModeInv` adds that the default controller is the hardware
  only when the current one is, which makes `preSetPowerMode`'s return to the
  default safe.
- *Power off.* `OffInv` adds that no notification is queued while the display is
  not on: it is the only event whose handler leaves the disabled state.
- *Votes.* Refinement first: a step of the display is a step of the controller
  or a stutter, hence the controller's invariants hold inside the display.
  `VotesInv` then relates the controller's minimum rate and delay to the largest
  votes at each step of a power change and of a call that sets a delay.
- *Configuration change.* Given the types, the three properties are inductive:
  every operation that sets or clears the desired period also controls the
  worker, and `RequestIsTracked` already says in which of the two places (the
  desired mode, or the mode that is set with a desired period) the request is.
- *Brightness.* `PanelInv` has one part for each of HBM mode, local HBM and
  level (`HbmOk`, `LhbmOk`, `LevelOk`), which holds as long as that part is not
  lost: the request fixes the state, and the state is on the panel, in the
  commit in flight, or still dirty. For the level there is a second path to
  follow: a write holds the level its thread is to record, no other write is
  under way and no commit with a level comes after its poll (`WriteOk`), as the
  poll knows of the level that the last commit carries; and the states agree
  with the panel whenever no write is under way (`RestOk`).
- *Fences of frames.* `FencesInv` counts the holders: `fds` equals the layers
  plus those with an acquire fence plus those with a release fence plus the displays
  with a target's or a retire fence. Each action changes the count and the sets
  of holders alike; the lemmas on `WithAcquire` and the others say how a set
  changes when one layer, or all of a display's, give up their fence.
- *Latest frame.* Per display (`FrameOf`): what each rendering state implies
  (`StageInv`), that a change since the last assignment shows in the shared flag
  or the state (`ChangeInv`), that accepted types are the assigned ones
  (`TypesInv`), and that a target which is reused, or was composed for this
  frame, holds its layers' present contents (`TargetInv`, `ReuseInv`,
  `SourceInv`).
- *Hints.* `LinkInv` says what worker, obituary and HAL know of each other's
  life; `RatesInv`, `FreshInv`, `IdleInv` and `WaitInv` say for each value that
  it has been told, or a flag is up, or the worker is at the step that tells it.
- *Framebuffers.* An id has one holder: a list, `mCleanBuffers`, or the thread
  that removes it (`HeldInv`). What the commit names is in the list of its
  window's layer, unless another target window has handed that list over
  (`CommitInv`); lists of other layers cannot change behind a commit that is
  being built, as each of them has one window.
- *Partial update.* A pixel that is out of date lies in the damage of a layer of
  the prepared frame, or is forgotten, or a flag that makes the next frame update
  everything is set (`UpdateInv`); the region of a
  commit covers the damage mapped from the buffer to the panel, for any rounding
  of the mapping that `QuotientTells` admits.
- *Composed frames.* The image of a frame is in its buffer, or is the source of
  the engine's last job on that buffer (`ImagesInv`; the engine does its jobs in
  order). The ring's place and the buffers of the validated frame, the commit in
  flight and the screen keep their distance while no frame is lost (`RingInv`),
  only the display that used the MPP last has frames in the ring (`OwnerInv`),
  and a buffer that leaves the ring does so with its image (`DetachedInv`). An
  MPP that composes at once after a lost frame breaks `RingInv`.
- *Windows.* `GeoInv` says what each stage knows: after `doPreProcess` the crop
  lies within the layer's and is aligned if it is a video's; after the assignment
  the image a channel is to show has passed that channel's `isSupported`; after
  `configureHandle` every window is valid, reads inside its buffer, and a
  target's covers all that is composed into it. Division by a variable alignment
  enters through one law (`DivMod`) and the lemmas on rounding up and down; a
  size that rounding makes larger stays below `UintWrap`.
- *Assignment.* `ResourceInv` says, for each place in `assignResourceInternal`,
  what a plan is there (`PlanAt`), if no layer of high priority may go to the
  G2D. Between two operations every layer whose type is client or exynos lies in
  the range of its composition, a range holds no layer but those and layers of
  high priority, each owner of a channel is what the channel shows, and the
  result is not an error (`Standing`). While a pass runs, the layers that came by
  have a channel or a composition that has or will have one (`PassOk`, `Early`,
  `Late`); during the walks that take layers off the client composition, what is
  left of its range is in it (`UpOk`, `DownOk`): the second walk has no test for
  the lower end, and the invariant shows that it needs none. A layer on its way
  from one composition to the other, or pulled in from between, is followed one
  operation at a time (`Fine`, `Moved`).
  `TriesInv` counts: the layers in no composition and the layers that are not
  client (`Left`) are at most two for each layer, every restart takes away one
  of them, until the G2D is given up; that happens once, the client composition
  is opened at most once after it, and the last pass is counted too.
  A loop over a range is a function over numbers; what holds of it after each
  layer is proved for the least number for which it would not (`Least`, `UpTo`),
  since a theorem that takes an operator cannot be used, and for the same reason
  there is one lemma for each operation that a loop applies.
- *Names.* The two maps are inverse bijections on the addresses of layers that
  live; a client's names are those of its own displays.
- *Crtcs.* A swap keeps the record of the loan truthful (`Truthful`) whenever it
  comes and whatever was read before it. A display that is on and has not raced
  has its own crtc, and no hotplug holds its name (`OwnCrtcs`): a hotplug may
  find it off, but then its power-on overlaps that hotplug and it has raced. While it
  changes its power and no hotplug is handled, nobody else swaps, so each step
  finds what the test found (`WakesAlone`).
- *Local HBM.* `KeptInv` says at each step of `setLhbmState` where the client's
  configuration is: active, pending, or in the display's open request.
- *Recomposition.* `ThreadInv` relates the thread's program counter to the two
  status flags, to whether it is joinable, and to the joiner; `DisplaysInv` says
  what of the thread's choice still holds at each of the steps that follow it,
  if no validation overtakes it (`RefreshReasons`), and that a display which is
  being validated has no such choice.
- *Planes.* A plane is on the panel the channel is reserved for, or is not used;
  the lists are those of the panels that are on.
- *Binder calls.* The two parcels of a call have the layout that both tables
  give it (`WordsAgree`, `RouteAgrees`: finite tables, compared entry by entry),
  so the handler reads what the proxy wrote, for any list of settings.
- *Histogram.* `ChannelsAccounted` is inductive once the tests of the scheduler
  are split off (`Accounts`, which holds of the values before the scheduler
  runs; the lemma `Scheduled` says what it makes of them, for any number of
  free channels and waiting clients). `ProgramInv` says for each channel whose
  last change was not lost what its status, the request and the kernel say of
  one another in each phase of a commit.
- *Image libraries.* Each handle has an invariant that ties the flags by which
  it skips ioctls to its device (`GscInv`, `ScInv`, `CompInv`, `DecInv`,
  `ThumbInv`): a side that is not dirty or fresh has its format in the driver, a
  flag of streaming is the queue's, and no buffer waits for the engine between
  two calls of the G-Scaler. Lemmas say what each ioctl does to a handle, made
  or failed; a call is then followed ioctl by ioctl, each state described by
  what the remaining ones need. After a run of the scaler that failed, only the
  part of `ScInv` without `ScSettled` is left; configuring it anew makes both
  sides fresh, which is enough for the next run.

Only model-checked, and why:

- `PeakRateReleased`, `FrameInsertionEnds`, `ThreadStops`, `ChangeIsConfirmed`:
  liveness under fairness, which the prover does not support.

Every invariant that a run checks is also the property of a theorem.

## 7. Where the code and its documentation disagree

One run must find its property violated; `PROJECT.json` quotes the lines.

| run | property | what happens |
| --- | --- | --- |
| `frame_insertion` | `NoFrameInsertionAtMinimumRate` | a power cycle while a minimum rate is set restores the software controller, so frames are inserted that the statistics say cannot be |

What else was met while the models were written, part by part. None of it is a
property of a run; where a constant is named, setting it lets TLC show it.

**Controller.** For a fully supported configuration `onPresent` adds the clock's
reading twice (`VRC:766` and `VRC:772`), so the rendering timeout is due at
twice the uptime. A configuration change or a notification ends hibernation and
leaves the hibernate timer, which the handler then reports as an error. A
promotion posts the lock timer without a notification, so the thread may sleep
past it. When the write that unsets the minimum rate fails, the peak state stays
without a rate or a timer. A failed write of the votes' range records the range
although the vote is not stored.

**Configuration change.** A doze between the commit of a mode and the vsync that
confirms it makes the callback confirm the low power mode, whose id is that of
no configuration (`DRM:846`, asserted at `ExynosDisplay.cpp:4653`). A mode that
was desired but not committed before the display went off is committed after the
power-on has set another one (`DRM:2278`); a vsync for an earlier mode ends a
newer request (`ExynosDisplay.cpp:4662`).

**Brightness.** Each of these is in the model, and is what `lost` names. A write
of the node that fails, or that another write, a request or a commit overtakes
before it is recorded, leaves the recorded level and the panel apart.
`prepareFrameCommit` clears the dirty flags before the commit is known to be
taken, so a refused one loses the brightness, the HBM mode and the local HBM it
carried. After a frame without layers `clearDisplay(false)` forgets local and
instant HBM without an update of the states and without telling the panel, where
they stay on. The message that ends dimming is not sent while the looper has not
been made (`BrightnessController.cpp:896`). Besides, the level adjusted for
local HBM stays after the kernel's timeout and after `resetLhbmState`.

**Local HBM.** A failed commit of the peak mode violates `ClientConfigKept`
(`ModeSetsFail`). Of a request that is turned away while an earlier one is
pending, the earlier may win. A request that is put off makes the present set
`mActiveConfig` while the panel is at its peak; one that comes after the 1 s
competes with the pending configuration. The kernel's timeout skips the
restoration and the reset of the throttle, and the throttle stays when
`WaitForPeakBrightness` fails.

**Frames.** The end of the trusted UI calls `onRefreshDisplays` before
`exitFromTUI`; an error path of `setReleaseFences` closes a fence twice;
`setLayerBlockingRegion` reads an uninitialised rectangle.

**Hints.** An obituary that comes after the HAL is back keeps an old rate
(`LateObituary`); `mPowerHalAidl` is dereferenced untested
(`ExynosDisplay.cpp:662`).

**Framebuffers.** The client target and the G2D's target have no layer and share
the list of the null pointer: when the second of them overflows it, the
framebuffer of the first goes with the full list while the commit still names
it. It is removed after the flip at the earliest, and then turns its plane off
in the kernel; `CommitsNameLiveBuffers` excepts those windows (`spilled`).

**Partial update.** The damage of a frame that is dropped in the trusted user
interface (`ExynosDisplay.cpp:3694`) is kept nowhere; nor is that of a frame the
driver refuses, as `doPostProcessing` clears the flag of geometry changes all
the same (`:3954`): `forgotten` collects it. `windowUpdateExceptions` compares the integer quotient of
widths with 1 ("Skip reason : scaled"), so a layer that is shrunk by less than 2
is not taken for scaled and its region misses pixels: add the shape `[frame |->
<<0, 2>>, crop |-> <<0, 3>>]` to see it. `ExynosDisplay.cpp:5816` indexes by the
wrong counter; `destroyUnusedLayers` compares sizes only.

**Geometry.** A protected RGB image with an unaligned offset shows up to one
alignment of pixels beyond its crop, where a channel aligns RGB. The scaler is
assumed to have a minimum of two alignments.

**Compositions.** A layer of high priority that goes to the G2D may end the
assignment with `-EINVAL`: a second one joins the exynos composition before it
has its G2D (`ExynosDisplay.cpp:5488`), and one that was dropped from the range
keeps its type when the driver refuses the G2D (`ExynosResourceManager.cpp:523`
resets the range only), so that the next layer of the client composition that
surrounds it finds an exynos layer without a composition
(`ExynosDisplay.cpp:5377`); hence `HighOnG2d` in the properties. Where the exynos
composition was split below two adjacent layers of high priority, the loop at
`ExynosDisplay.cpp:5643`, which goes upwards, drops only the upper one; the last
layer of the range is then a device layer, and `assignWindow` gives the
composition no window (`ExynosResourceManager.cpp:1811`); hence `HighApart`: leave
it out of `StackKept` and take five layers and four channels to let TLC show it. `retry_count` also counts the pass that
succeeds (`ExynosResourceManager.cpp:641`), so a hundredth pass that succeeds is
reported as a failure. A layer of high priority
that `addExynosCompositionLayer` drops is not shown
(`ExynosResourceManager.cpp:757`). `doPostProcessing` saves the frame's
information of a frame that is lost, so its result may be reused
(`ComposeAfterLoss`). The thread that allocates destination buffers waits
without a predicate; a signal it misses leaves `mForceReallocState` set
(`ExynosResourceManager.cpp:1075`).

**Planes, crtcs.** A doze from off keeps stale lists (`DozeFromOff`), power
changes between validation and present break the handover (`FramesInterrupted`),
and the first power-on of the first panel while the other is on skips it
(excluded by a guard). A doze does not take a crtc back. Nothing keeps a hotplug
apart from a power change: when one is handled between the other's test and its
swap, the crtc may be swapped twice, and the built-in display is on with the
external display's (`raced`).

**Recomposition.** A thread that has not started when it is told to stop is
replaced, against the comment at `ExynosDevice.cpp:303`; as it is still joinable,
the assignment ends the process (`replaced`). A validation between the thread's
choice and its request may count and undo the choice (`overtaken`). The
notification is sent without the mutex, so a stop may wait 5 s.

**Histogram.** Two queries on one token race (`HistogramDevice.cpp:393` and
`:940`); `blobId` is used after the unlock.

**Services.** Nine methods (`OutcomeIsLost`) return the status of the
transaction and not the handler's; `setDisplayTemperature` reports success for a
display that does not exist; a handler that runs while a frame is validated
loses its change (`CallsDuringFrames`). `HalImpl`'s maps have no mutex of their
own.

**Libraries.** libgscaler: a failure of the colour control returns without a
stop with the dirty flags already cleared; a failing format call returns from
the stop before the content protection is cleared, contrary to the comments; the
source's release fence leaks when a later step fails. libscaler: a failing
`STREAMON` of the destination leaves the source streaming, and the next stop
waits for ever; a failure of `CSC_EQ` is ignored. libhwjpeg: controls are
forgotten before `S_EXT_CTRLS` has succeeded; a failing `DQBUF` clears the flags
while the kernel holds the buffer; `SetImageFormat` and `SetImageBuffer` record
what the driver then refuses; `WaitForCompression` after a blocking `Compress`
returns 0, unlike `exynos-hwjpeg.h:336` says; the decompressor ignores
`V4L2_BUF_FLAG_ERROR`; the camera encoder does not join its thumbnail thread on
error paths.

## 8. What is not modelled, and why

- **Controller**: `reset` (no caller), `enableRefreshRateCalculator`, `dump`,
  histories, `Event`'s strings; the end of its life after `stopThread` (nothing
  destroys a primary display while the service runs); the absence of the
  vendor's library. The calculators' own windows are planned.
- **Configuration change**: timestamps and phase of vsyncs, `RegisterCallback`,
  `Worker::Exit`. That configuration and mode agree when no request is open is
  not stated because it does not hold (section 7).
- **Frames**: readback, colour modes, the idle timer, the boot configuration; a
  failing `checkFrameValidation`, which only the virtual display overrides.
- **Brightness**: the table of levels, operation rates, CABC, ACL; composers
  other than hwc3's, which presents after it sets the brightness.
- **Recomposition**: two validations, or a validation and a power change, at
  once (`owner`).
- **Overlay resources**: the accounting of capacity, several compositors for one
  frame, the threads that free and allocate buffers.
- **Statistics, power residency, TE2, DRM resources, event listener, virtual
  display's frames, EDID**: planned (section 9).
- **Composer service**: the parsing of commands, whose effects are the frame's.
- **Helpers, memory accounting, logging, dumps**: stateless, or pure I/O.
- **libacryl, the camera's JPEG encoder, EXIF, ioctl wrappers**: see the plan.

`PROJECT.json` lists every component with what is left out of it. Two hazards
have no property, with the reason beside them: a write that fails half way (the
properties on the rate assume it does not, and section 7 says what happens), and
`setRefreshRateThrottleNanos` reading under another mutex (excluded by
`DelayMayOverlap`).

## 9. Plan

In this order:

1. **Capacity of the MPPs** (`ExynosMPP::addCapacity`, `removeCapacity`,
   `hasEnoughCapa`): the capacity in use is never underestimated.
2. **Readback**: the buffer, its fence and the time limit against two
   requesters.
3. **Atomic commit**: the properties of one commit, what is kept on a failure.
4. **Statistics** of the refresh rate: an account of time, refined to a clock
   that is divided among states.
5. **Virtual display**, TE2, DRM resources, libacryl.
6. Proofs: the hypotheses on failing writes made as weak as each theorem allows,
   layers of high priority on the G2D in `ResourceInv`, and a theorem with each
   new module.

## 10. Running the checks

```
tlc -config vendor.cfg MCVrrController
tlc -config votes.cfg MCPrimaryDisplayVrr
tlc -config config.cfg MCConfigChange
tlc -config brightness.cfg MCBrightness
tlc -config frames.cfg MCFrames
tlc -config composition.cfg MCComposition
tlc -config planes.cfg MCPlanes
tlc -config services.cfg MCServices
tlapm Services_proofs.tla
```

Each run's module, configuration and properties are in `PROJECT.json`; `tlapm`
takes every `*_proofs.tla` the same way. Provers are given seconds per step, so
run them on an otherwise idle machine.
