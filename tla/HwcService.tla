----------------------------- MODULE HwcService -----------------------------
(***************************************************************************)
(* The binder service beside the composer (libhwcService): a client's      *)
(* method writes its arguments into a parcel, the service reads them, runs *)
(* the handler, and sends the outcome back as a word of the reply or as    *)
(* the status of the transaction.  The client's side (BpExynosHWCService)  *)
(* and the service's side (onTransact) each know the layout of every       *)
(* parcel.  The handlers change the device behind the back of the thread   *)
(* that draws, and then set the flag that makes its next frame assign the  *)
(* resources again.                                                        *)
(***************************************************************************)
EXTENDS Naturals, Sequences

CONSTANTS
    MaxSettings,         \* pairs of the present timeout's settings
    CallsDuringFrames    \* handlers run while a frame is being validated

ASSUME HwcServiceAssumption == MaxSettings \in Nat /\ CallsDuringFrames \in BOOLEAN

VARIABLES
    binderCall,     \* the client's call: step, method, args, the two parcels, answer, result
    device    \* the device: displays, config, assigned, changed, validating

hwcVars == <<binderCall, device>>

NoError == "NO_ERROR"
\* How the outcome travels, and how many words the arguments take.
Layout(words, by) == [words |-> words, by |-> by]

VirtualMethods ==
    {"addVirtualDisplayDevice", "destroyVirtualDisplayDevice", "getWFDMode", "setWFDMode",
     "getPresentationMode", "setPresentationMode", "getWFDOutputResolution",
     "setWFDOutputResolution", "sendWFDCommand", "setSecureVDSMode", "setVDSGlesFormat"}
ExternalMethods ==
    {"getExternalDisplayConfigs", "setExternalDisplayConfig", "setExternalVsyncEnabled",
     "getExternalHdrCapabilities"}
DeviceMethods ==
    {"enableMPP", "setScaleDownRatio", "setLbeCtrl", "setHWCFenceDebug", "getHWCFenceDebug",
     "setBootFinished", "setHWCCtl", "setDDIScaler", "setHWCDebug", "getHWCDebug",
     "setDisplayDeviceMode", "setPanelGammaTableSource"}
PanelMethods ==
    {"setDisplayBrightness", "ignoreDisplayBrightnessUpdateRequests", "setDisplayBrightnessNits",
     "setDisplayBrightnessDbv", "setDisplayLhbm", "setMinIdleRefreshRate",
     "setRefreshRateThrottle", "setDisplayRCDLayerEnabled", "triggerDisplayIdleEnter",
     "setDisplayDbm"}
TimingMethods ==
    {"setDisplayMultiThreadedPresent", "triggerRefreshRateIndicatorUpdate", "dumpBuffers",
     "setPresentTimeoutController", "setPresentTimeoutParameters", "setFixedTe2Rate",
     "setDisplayTemperature"}
Methods == VirtualMethods \cup ExternalMethods \cup DeviceMethods \cup PanelMethods
             \cup TimingMethods

-----------------------------------------------------------------------------
(* The client's side.  "reply": the outcome is the word read from the      *)
(* reply; "status": it is that of the transaction; "void": there is none;  *)
(* "local": the method does not call the service at all.                   *)
BpVirtual ==
    [m \in VirtualMethods |->
        CASE m = "sendWFDCommand" -> Layout(3, "reply")
          [] m = "setWFDOutputResolution" -> Layout(2, "reply")
          [] m \in {"setWFDMode", "setSecureVDSMode", "setVDSGlesFormat"} -> Layout(1, "reply")
          [] m = "setPresentationMode" -> Layout(1, "void")
          [] OTHER -> Layout(0, "reply")]

BpExternal ==
    [m \in ExternalMethods |->
        IF m \in {"getExternalDisplayConfigs", "getExternalHdrCapabilities"}
        THEN Layout(0, "reply") ELSE Layout(1, "reply")]

BpDevice ==
    [m \in DeviceMethods |->
        CASE m \in {"enableMPP", "setScaleDownRatio"} -> Layout(4, "void")
          [] m \in {"setLbeCtrl", "setHWCFenceDebug"} -> Layout(3, "void")
          [] m \in {"setBootFinished", "getHWCFenceDebug"} -> Layout(0, "void")
          [] m \in {"setHWCCtl", "setDDIScaler"} -> Layout(3, "reply")
          [] m = "setHWCDebug" -> Layout(1, "void")
          [] m = "getHWCDebug" -> Layout(0, "reply")
          [] m = "setDisplayDeviceMode" -> Layout(2, "local")
          [] m = "setPanelGammaTableSource" -> Layout(3, "local")]

BpPanel == [m \in PanelMethods |-> Layout(2, "status")]

\* The pairs of setPresentTimeoutParameters follow the two words given here.
BpTiming == [m \in TimingMethods |-> Layout(2, "status")]

Bp == [m \in Methods |-> CASE m \in VirtualMethods -> BpVirtual[m]
                           [] m \in ExternalMethods -> BpExternal[m]
                           [] m \in DeviceMethods -> BpDevice[m]
                           [] m \in PanelMethods -> BpPanel[m]
                           [] m \in TimingMethods -> BpTiming[m]]

-----------------------------------------------------------------------------
(* The service's side: "reply" writes the outcome into the reply and ends  *)
(* the transaction well; "status" ends it with the outcome.  A code that   *)
(* is not listed is refused.                                               *)
BnVirtual ==
    [m \in VirtualMethods |->
        CASE m = "sendWFDCommand" -> Layout(3, "reply")
          [] m = "setWFDOutputResolution" -> Layout(2, "reply")
          [] m \in {"setWFDMode", "setSecureVDSMode", "setVDSGlesFormat"} -> Layout(1, "reply")
          [] m = "setPresentationMode" -> Layout(1, "void")
          [] OTHER -> Layout(0, "reply")]

BnExternal ==
    [m \in ExternalMethods |->
        IF m \in {"getExternalDisplayConfigs", "getExternalHdrCapabilities"}
        THEN Layout(0, "reply") ELSE Layout(1, "reply")]

KnownToDevice ==
    (DeviceMethods \ {"getHWCFenceDebug"})
      \cup {"setDisplayBrightness", "setDisplayLhbm", "setMinIdleRefreshRate",
            "setRefreshRateThrottle"}

BnDevice ==
    [m \in KnownToDevice |->
        CASE m \in {"enableMPP", "setScaleDownRatio"} -> Layout(4, "void")
          [] m \in {"setLbeCtrl", "setHWCFenceDebug"} -> Layout(3, "void")
          [] m \in {"setHWCCtl", "setDDIScaler", "setPanelGammaTableSource"} -> Layout(3, "reply")
          [] m \in {"setDisplayDeviceMode", "setDisplayBrightness", "setDisplayLhbm"} ->
                Layout(2, "reply")
          [] m \in {"setMinIdleRefreshRate", "setRefreshRateThrottle"} -> Layout(2, "status")
          [] m = "setBootFinished" -> Layout(0, "void")
          [] m = "setHWCDebug" -> Layout(1, "reply")
          [] m = "getHWCDebug" -> Layout(0, "reply")]

KnownToPanel == (PanelMethods \cup TimingMethods) \ KnownToDevice

\* Mutant: a handler's outcome goes into a reply that the client does not read.
BnPanelReplies ==
    [m \in KnownToPanel |->
        IF m \in {"setDisplayRCDLayerEnabled", "triggerDisplayIdleEnter",
                  "triggerRefreshRateIndicatorUpdate", "setFixedTe2Rate", "setDisplayTemperature"}
        THEN Layout(2, "status") ELSE Layout(2, "reply")]

BnPanel ==
    [m \in KnownToPanel |->
        IF m \in {"setDisplayRCDLayerEnabled", "triggerDisplayIdleEnter", "dumpBuffers",
                  "triggerRefreshRateIndicatorUpdate", "setFixedTe2Rate", "setDisplayTemperature"}
        THEN Layout(2, "status") ELSE Layout(2, "reply")]

Bn == [m \in Methods \ {"getHWCFenceDebug"} |->
          CASE m \in VirtualMethods -> BnVirtual[m]
            [] m \in ExternalMethods -> BnExternal[m]
            [] m \in KnownToDevice -> BnDevice[m]
            [] m \in KnownToPanel -> BnPanel[m]]

-----------------------------------------------------------------------------
(* The handlers.  The words of the arguments are 1, 2, ... if they are in  *)
(* order; 0 is a value out of range, 9 a display that does not exist.      *)
Arguments(m) ==
    LET n == Bp[m].words
        good == [i \in 1..n |-> i]
    IN {good} \cup {[good EXCEPT ![i] = 0] : i \in 1..n}
              \cup (IF n = 0 THEN {} ELSE {[good EXCEPT ![1] = 9]})

Settings(m) ==
    IF m = "setPresentTimeoutParameters"
    THEN UNION {[1..k -> {<<7, 8>>}] : k \in 0..MaxSettings} ELSE {<<>>}

Unless(refused, error) == IF refused THEN error ELSE NoError

\* The methods of the virtual display look for the first there is.
OutcomeForVirtual(m) ==
    Unless("virtual" \notin device.displays
           /\ m \notin {"addVirtualDisplayDevice", "destroyVirtualDisplayDevice",
                        "setPresentationMode"}, "INVALID_OPERATION")

RangeChecked == {"setDisplayBrightness", "setDisplayBrightnessNits", "setDisplayLhbm",
                 "setDisplayDbm"}
OutcomeForPanel(m, args) ==
    Unless(args[1] = 9 \/ (m \in RangeChecked /\ args[2] = 0), "EINVAL")

OutcomeForTiming(m, args) ==
    Unless(args[1] = 9 /\ m # "setDisplayTemperature", "EINVAL")

OutcomeForDevice(m, args) ==
    Unless((m = "setHWCCtl" /\ args[2] = 0) \/ (m = "setDDIScaler" /\ args[1] = 9), "refused")

Outcome(m, args) ==
    CASE m \in VirtualMethods -> OutcomeForVirtual(m)
      [] m \in PanelMethods -> OutcomeForPanel(m, args)
      [] m \in TimingMethods -> OutcomeForTiming(m, args)
      [] OTHER -> OutcomeForDevice(m, args)

\* setHWCControl with the controls that set the flag, and the others that do.
Reconfigures(m, args) ==
    m \in {"enableMPP", "setScaleDownRatio"}
    \/ (m \in {"setHWCCtl", "setDisplayRCDLayerEnabled"} /\ Outcome(m, args) = NoError)

-----------------------------------------------------------------------------
NoCall == [step |-> "idle", method |-> "none", args |-> <<>>, settings |-> <<>>, parcel |-> <<>>,
           read |-> <<>>, answer |-> NoError, status |-> NoError, result |-> NoError]

HwcInit ==
    /\ binderCall = NoCall
    /\ device = [displays |-> {"primary"}, config |-> 0, assigned |-> 0, changed |-> FALSE,
                 validating |-> FALSE]

Flat(settings) == [i \in 1..(2 * Len(settings)) |-> settings[(i + 1) \div 2][2 - (i % 2)]]

\* A client's method: the parcel is written and sent.
Call(m) ==
    /\ binderCall.step = "idle"
    /\ \E args \in Arguments(m), settings \in Settings(m) :
          binderCall' = [NoCall EXCEPT
              !.step = IF Bp[m].by = "local" THEN "returned" ELSE "sent",
              !.method = m, !.args = args, !.settings = settings,
              !.parcel = args \o Flat(settings)]
    /\ UNCHANGED device

\* The words that follow the first n, in pairs.
Pairs(parcel, n) ==
    [i \in 1..((Len(parcel) - n) \div 2) |-> <<parcel[n + 2 * i - 1], parcel[n + 2 * i]>>]

\* setGeometryChanged after the change itself.
ChangeAnnounced == [device EXCEPT !.config = 1 - @, !.changed = TRUE]

(* onTransact with the handler it calls.                                   *)
Serve ==
    /\ binderCall.step = "sent" /\ binderCall.method \in DOMAIN Bn
    /\ CallsDuringFrames \/ ~device.validating
    /\ LET m == binderCall.method
           args == SubSeq(binderCall.parcel, 1, Bn[m].words)
           outcome == Outcome(m, args)
       IN /\ binderCall' = [binderCall EXCEPT !.step = "served",
                 !.read = <<args, IF m = "setPresentTimeoutParameters"
                                  THEN Pairs(binderCall.parcel, 2) ELSE <<>> >>,
                 !.answer = outcome,
                 !.status = IF Bn[m].by = "status" THEN outcome ELSE NoError]
          /\ device' = IF Reconfigures(m, args) THEN ChangeAnnounced ELSE device

\* A code the service does not know (getHWCFenceDebug).
Refuse ==
    /\ binderCall.step = "sent" /\ binderCall.method \notin DOMAIN Bn
    /\ binderCall' = [binderCall EXCEPT !.step = "served",
           !.read = <<binderCall.args, binderCall.settings>>,
           !.answer = "UNKNOWN_TRANSACTION", !.status = "UNKNOWN_TRANSACTION"]
    /\ UNCHANGED device

\* The rest of the client's method: what it returns.
Return ==
    /\ binderCall.step = "served"
    /\ binderCall' = [binderCall EXCEPT !.step = "returned",
           !.result = IF binderCall.status # NoError THEN binderCall.status
                      ELSE IF /\ Bp[binderCall.method].by = "reply"
                              /\ Bn[binderCall.method].by = "reply"
                           THEN binderCall.answer ELSE NoError]
    /\ UNCHANGED device

Done == binderCall.step = "returned" /\ binderCall' = NoCall /\ UNCHANGED device

\* A frame: its resources are assigned if the flag says so, and then the flag is cleared.
FrameBegins ==
    /\ ~device.validating
    /\ device' = [device EXCEPT !.validating = TRUE,
                                !.assigned = IF device.changed THEN device.config ELSE @]
    /\ UNCHANGED binderCall

FrameEnds ==
    /\ device.validating
    /\ device' = [device EXCEPT !.validating = FALSE, !.changed = FALSE]
    /\ UNCHANGED binderCall

\* The framework makes or removes a virtual display.
VirtualDisplayChanges ==
    /\ \E d \in {{"primary"}, {"primary", "virtual"}} \ {device.displays} :
          device' = [device EXCEPT !.displays = d]
    /\ UNCHANGED binderCall

HwcNext ==
    \/ \E m \in Methods : Call(m)
    \/ Serve \/ Refuse \/ Return \/ Done
    \/ FrameBegins \/ FrameEnds \/ VirtualDisplayChanges

HwcSpec == HwcInit /\ [][HwcNext]_hwcVars

-----------------------------------------------------------------------------
\* The methods whose outcome the service puts where the client does not look.
OutcomeIsLost ==
    {"setDisplayBrightness", "ignoreDisplayBrightnessUpdateRequests", "setDisplayBrightnessNits",
     "setDisplayBrightnessDbv", "setDisplayLhbm", "setDisplayDbm",
     "setDisplayMultiThreadedPresent", "setPresentTimeoutController",
     "setPresentTimeoutParameters"}

(* The handler gets the arguments of the call, the client gets the         *)
(* handler's outcome, and a change of the configuration is assigned or     *)
(* still announced when the call ends.                                     *)
CallsAreCarriedOut ==
    /\ binderCall.step \in {"served", "returned"} /\ Bp[binderCall.method].by # "local" =>
          binderCall.read = <<binderCall.args, binderCall.settings>>
    /\ binderCall.step = "returned" /\ binderCall.method \notin OutcomeIsLost =>
          binderCall.result = binderCall.answer
    /\ device.assigned = device.config \/ device.changed
=============================================================================
