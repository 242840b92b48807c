-------------------------- MODULE ComposerService --------------------------
(***************************************************************************)
(* The composer service and its client: one client at a time, the layers   *)
(* and displays that it owns, and the hotplug of an external display.      *)
(*                                                                         *)
(* A layer has three records: the display's own list (mLayers), the two    *)
(* maps between SurfaceFlinger's name and the layer's address (HalImpl),   *)
(* and the client's resources (ResourceManager).  The service outlives its *)
(* clients, and with it the first two.  SurfaceFlinger destroys a client   *)
(* on one thread and creates the next on another; a third thread handles   *)
(* the hotplug.                                                            *)
(***************************************************************************)
EXTENDS Integers, FiniteSets

CONSTANTS
    ComposerClients,    \* successive clients of the service
    Internals,          \* built-in displays
    Externals,          \* displays that come and go
    Virtuals,           \* displays that the client creates
    Names,              \* SurfaceFlinger's names of layers
    Addresses,          \* addresses of layers in the service
    Unnamed

Displays == Internals \union Externals \union Virtuals

ASSUME ComposerAssumption ==
    /\ IsFiniteSet(Displays)
    /\ Internals \intersect Externals = {} /\ Virtuals \intersect (Internals \union Externals) = {}
    /\ Unnamed \notin Names \union Addresses \union ComposerClients

VARIABLES
    client,         \* of each client: "none", "waiting", "alive", or a step of its end
    mClientAlive,
    callback,       \* registered: the device has HalImpl's functions,
                    \* owner: the client of mEventCallback
    mResources,     \* tracked: displays of the client, layers: names of their layers
    display,        \* plug: mPlugState, hpd: mHpdStatus, enabled: mEnabled,
                    \* layers: addresses in mLayers, report: of a hotplug, to be made
    toHal,          \* mSfLayerToHalLayerMap
    toSf,           \* mHalLayerToSfLayerMap
    heap            \* addresses of the layers that exist

serviceVars == <<client, mClientAlive, callback, mResources, display, toHal, toSf, heap>>
layerVars == <<mResources, display, toHal, toSf, heap>>

-----------------------------------------------------------------------------
NoResources == [tracked |-> {}, layers |-> [d \in Displays |-> {}]]

ServiceInit ==
    /\ client = [c \in ComposerClients |-> "none"]
    /\ mClientAlive = FALSE
    /\ callback = [registered |-> FALSE, owner |-> Unnamed]
    /\ mResources = NoResources
    /\ display = [d \in Displays |-> [plug |-> d \in Internals, hpd |-> FALSE,
                      enabled |-> FALSE, layers |-> {}, report |-> FALSE]]
    /\ toHal = [n \in Names |-> Unnamed]
    /\ toSf = [a \in Addresses |-> Unnamed]
    /\ heap = {}

-----------------------------------------------------------------------------
(* The life of a client.                                                   *)

Become(c, state) == client' = [client EXCEPT ![c] = state]

(* A client that comes before the end of the last one waits for it, for a  *)
(* second at most.                                                         *)
MayStart(c) == ~mClientAlive
CreateClient(c) ==
    /\ client[c] = "none"
    /\ IF MayStart(c)
       THEN /\ Become(c, "alive") /\ mClientAlive' = TRUE
            /\ mResources' = NoResources
       ELSE Become(c, "waiting") /\ UNCHANGED <<mClientAlive, mResources>>
    /\ UNCHANGED <<callback, display, toHal, toSf, heap>>

WaitForClientDestroyed(c) ==
    /\ client[c] = "waiting"
    /\ IF mClientAlive
       THEN Become(c, "none") /\ UNCHANGED <<mClientAlive, mResources>>
       ELSE /\ Become(c, "alive") /\ mClientAlive' = TRUE
            /\ mResources' = NoResources
    /\ UNCHANGED <<callback, display, toHal, toSf, heap>>

Tracking(r, d) == [tracked |-> r.tracked \union {d}, layers |-> [r.layers EXCEPT ![d] = {}]]
Dropping(r, d) == [tracked |-> r.tracked \ {d}, layers |-> [r.layers EXCEPT ![d] = {}]]

(* The client is told of the displays that are there.                      *)
RegisterCallback(c) ==
    /\ client[c] = "alive" /\ callback.owner = Unnamed
    /\ callback' = [registered |-> TRUE, owner |-> c]
    /\ LET there == {d \in Displays : display[d].plug}
       IN mResources' = [tracked |-> mResources.tracked \union there,
                         layers |-> [d \in Displays |->
                             IF d \in there THEN {} ELSE mResources.layers[d]]]
    /\ UNCHANGED <<client, mClientAlive, display, toHal, toSf, heap>>

\* Mutant: the event callback goes first.
ForgetOwner == callback' = [callback EXCEPT !.owner = Unnamed]

(* The end of a client: no more events, then the pointer that they use.    *)
UnregisterFunctions == callback' = [callback EXCEPT !.registered = FALSE]
UnregisterCallback(c) ==
    /\ client[c] = "alive"
    /\ Become(c, "unregistering") /\ UnregisterFunctions
    /\ UNCHANGED <<mClientAlive, layerVars>>

UnregisterEventCallback(c) ==
    /\ client[c] = "unregistering"
    /\ Become(c, "cleaning")
    /\ callback' = [registered |-> FALSE, owner |-> Unnamed]
    /\ UNCHANGED <<mClientAlive, layerVars>>

ClientDestroyed(c) ==
    /\ client[c] = "cleaning" /\ mResources.tracked = {}
    /\ Become(c, "none") /\ mClientAlive' = FALSE
    /\ UNCHANGED <<callback, layerVars>>

-----------------------------------------------------------------------------
(* Layers.                                                                 *)

CanCall(c) == client[c] = "alive" /\ callback.owner = c

(* The device's part of createLayer, with a name of SurfaceFlinger's when  *)
(* the commands are batched.                                               *)
CreatesOn(d, a) == display[d].plug /\ a \notin heap

(* The layer stays without the client's resources when the display is not  *)
(* among them, between a hotplug and its report.                           *)
CreateLayer(c, d, n, a) ==
    /\ CanCall(c) /\ toHal[n] = Unnamed /\ CreatesOn(d, a)
    /\ display' = [display EXCEPT ![d].layers = @ \union {a}]
    /\ heap' = heap \union {a}
    /\ toHal' = [toHal EXCEPT ![n] = a] /\ toSf' = [toSf EXCEPT ![a] = n]
    /\ mResources' = IF d \in mResources.tracked
                     THEN [mResources EXCEPT !.layers[d] = @ \union {n}] ELSE mResources
    /\ UNCHANGED <<client, mClientAlive, callback>>

\* Mutant: the address keeps its name.
EraseName(n) == toHal' = [toHal EXCEPT ![n] = Unnamed] /\ UNCHANGED toSf

EraseNames(n) ==
    /\ toHal' = [toHal EXCEPT ![n] = Unnamed]
    /\ toSf' = [toSf EXCEPT ![toHal[n]] = Unnamed]

(* getHalLayer finds the layer in the list of its display.                 *)
IsLayerOf(d, n) == toHal[n] \in display[d].layers

(* The layer goes also when the display is disconnected, but then the      *)
(* error keeps its name among the client's resources.                      *)
DestroyLayer(c, d, n) ==
    /\ CanCall(c) /\ IsLayerOf(d, n)
    /\ display' = [display EXCEPT ![d].layers = @ \ {toHal[n]}]
    /\ heap' = heap \ {toHal[n]}
    /\ EraseNames(n)
    /\ mResources' = IF display[d].plug
                     THEN [mResources EXCEPT !.layers[d] = @ \ {n}] ELSE mResources
    /\ UNCHANGED <<client, mClientAlive, callback>>

(* At the end of a client, display by display.                             *)
DestroyResources(c, d) ==
    /\ client[c] = "cleaning" /\ d \in mResources.tracked
    /\ LET names == {n \in mResources.layers[d] : IsLayerOf(d, n)}
           gone == {toHal[n] : n \in names}
       IN /\ display' = [display EXCEPT ![d].layers = @ \ gone,
                                        ![d].plug = @ /\ d \notin Virtuals]
          /\ heap' = heap \ gone
          /\ toHal' = [n \in Names |-> IF n \in names THEN Unnamed ELSE toHal[n]]
          /\ toSf' = [a \in Addresses |-> IF a \in gone THEN Unnamed ELSE toSf[a]]
    /\ mResources' = Dropping(mResources, d)
    /\ UNCHANGED <<client, mClientAlive, callback>>

-----------------------------------------------------------------------------
(* Displays.                                                               *)

CreateVirtualDisplay(c, d) ==
    /\ CanCall(c) /\ d \in Virtuals
    /\ display' = [display EXCEPT ![d].plug = TRUE]
    /\ mResources' = IF d \in mResources.tracked THEN mResources ELSE Tracking(mResources, d)
    /\ UNCHANGED <<client, mClientAlive, callback, toHal, toSf, heap>>

DestroyVirtualDisplay(c, d) ==
    /\ CanCall(c) /\ d \in Virtuals
    /\ display' = [display EXCEPT ![d].plug = FALSE]
    /\ mResources' = Dropping(mResources, d)
    /\ UNCHANGED <<client, mClientAlive, callback, toHal, toSf, heap>>

(* openExternalDisplay forgets the layers of the display without deleting  *)
(* them: their names stay.                                                 *)
Opened(d) == [display[d] EXCEPT !.plug = TRUE, !.layers = {}]

(* The display that is gone stays open when its power cannot be cut.       *)
Closed(d) ==
    {[display[d] EXCEPT !.plug = FALSE, !.enabled = FALSE]}
    \union IF display[d].enabled THEN {display[d]} ELSE {}

ChangesTo(d, record) == display' = [display EXCEPT ![d] = record]

(* The thread that handles a hotplug changes the display first.            *)
HandleHotplugEvent(d) ==
    /\ d \in Externals /\ ~display[d].report
    /\ \E r \in IF display[d].hpd THEN Closed(d) ELSE {Opened(d)} :
            ChangesTo(d, [r EXCEPT !.hpd = ~@, !.report = TRUE])
    /\ UNCHANGED <<client, mClientAlive, callback, mResources, toHal, toSf, heap>>

(* ... and then reports, if there is someone to report to.                 *)
OnHotPlug(d) ==
    /\ display[d].report
    /\ display' = [display EXCEPT ![d].report = FALSE]
    /\ mResources' =
        CASE ~callback.registered -> mResources
          [] callback.registered /\ display[d].hpd -> Tracking(mResources, d)
          [] callback.registered /\ ~display[d].hpd -> Dropping(mResources, d)
    /\ UNCHANGED <<client, mClientAlive, callback, toHal, toSf, heap>>

(* The client switches the display on, which opens it once more, also when *)
(* its power then fails to come.                                           *)
Enable(c, d) ==
    /\ CanCall(c) /\ d \in Externals /\ display[d].hpd /\ ~display[d].enabled
    /\ \E succeeds \in BOOLEAN : ChangesTo(d, [Opened(d) EXCEPT !.enabled = succeeds])
    /\ UNCHANGED <<client, mClientAlive, callback, mResources, toHal, toSf, heap>>

(* The display is switched off only when its cable is gone.                *)
Disable(c, d) ==
    /\ CanCall(c) /\ d \in Externals /\ ~display[d].hpd /\ display[d].enabled
    /\ ChangesTo(d, [display[d] EXCEPT !.enabled = FALSE])
    /\ UNCHANGED <<client, mClientAlive, callback, mResources, toHal, toSf, heap>>

-----------------------------------------------------------------------------
ServiceNext ==
    \/ \E c \in ComposerClients :
        \/ CreateClient(c) \/ WaitForClientDestroyed(c) \/ RegisterCallback(c)
        \/ UnregisterCallback(c) \/ UnregisterEventCallback(c) \/ ClientDestroyed(c)
        \/ \E d \in Displays :
            \/ DestroyResources(c, d) \/ CreateVirtualDisplay(c, d)
            \/ DestroyVirtualDisplay(c, d) \/ Enable(c, d) \/ Disable(c, d)
            \/ \E n \in Names : DestroyLayer(c, d, n)
            \/ \E n \in Names, a \in Addresses : CreateLayer(c, d, n, a)
    \/ \E d \in Displays : HandleHotplugEvent(d) \/ OnHotPlug(d)

ServiceSpec == ServiceInit /\ [][ServiceNext]_serviceVars

-----------------------------------------------------------------------------
(* The two maps are each other's inverse, and name exactly layers that     *)
(* exist, every layer that a display may report on among them: however     *)
(* clients, hotplugs and power changes come, validateDisplay never reports *)
(* on a layer without a name, no name leads to an address that was freed   *)
(* or now belongs to another layer, and a client's name of a layer in its  *)
(* display's list is a name it may use.                                    *)
NamesAgree ==
    /\ \A n \in Names : toHal[n] # Unnamed => toSf[toHal[n]] = n /\ toHal[n] \in heap
    /\ \A a \in Addresses : toSf[a] # Unnamed => toHal[toSf[a]] = a
    /\ \A d \in Displays : \A a \in display[d].layers : toSf[a] # Unnamed
    /\ \A d, e \in Displays : d # e => display[d].layers \intersect display[e].layers = {}

(* An event of the device finds the callback of the one client that is     *)
(* alive, at each step of the end of one client and the start of the next: *)
(* two clients are never served at once.                                   *)
EventsReachTheClient ==
    /\ callback.registered => callback.owner # Unnamed
    /\ callback.owner # Unnamed => client[callback.owner] \in {"alive", "unregistering"}
    /\ Cardinality({c \in ComposerClients : client[c] \notin {"none", "waiting"}}) <= 1
    /\ mClientAlive <=> \E c \in ComposerClients : client[c] \notin {"none", "waiting"}
=============================================================================
