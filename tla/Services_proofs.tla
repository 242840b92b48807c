-------------------------- MODULE Services_proofs --------------------------
(***************************************************************************)
(* What is proved of the services around the frames: of the composer's     *)
(* names and events, of the crtcs that an external display borrows, of the *)
(* fingerprint sensor's bright spot, of the thread that chooses the        *)
(* composition of an idle screen, of the planes two panels share, of the   *)
(* binder service, and of the channels of the histogram device.  The       *)
(* components share no variable.                                           *)
(***************************************************************************)
EXTENDS ComposerService, CrtcBorrowing, LocalHbm, DynamicRecomposition, PlaneHandover,
        HwcService, HistogramChannels, FiniteSetTheorems, SequenceTheorems, TLAPS

USE DEF serviceVars, layerVars, crtcVars, lhbmVars, drVars, handoverVars, hwcVars,
        channelVars

-----------------------------------------------------------------------------
(* The composer service.                                                   *)

DisplayRecords ==
  [Displays -> [plug : BOOLEAN, hpd : BOOLEAN, enabled : BOOLEAN, layers : SUBSET Addresses, report : BOOLEAN]]

NamesType ==
  /\ toHal \in [Names -> Addresses \union {Unnamed}]
  /\ toSf \in [Addresses -> Names \union {Unnamed}]
  /\ heap \subseteq Addresses
  /\ display \in DisplayRecords

ResourcesType == mResources \in [tracked : SUBSET Displays, layers : [Displays -> SUBSET Names]]

NamesInv == NamesType /\ NamesAgree

LEMMA ResourcesStep ==
  ASSUME ResourcesType, [ServiceNext]_serviceVars
  PROVE  ResourcesType'
<1>1. NoResources \in [tracked : SUBSET Displays, layers : [Displays -> SUBSET Names]]
  BY DEF NoResources
<1>2. \A d \in Displays :
        /\ Tracking(mResources, d) \in [tracked : SUBSET Displays, layers : [Displays -> SUBSET Names]]
        /\ Dropping(mResources, d) \in [tracked : SUBSET Displays, layers : [Displays -> SUBSET Names]]
  BY DEF ResourcesType, Tracking, Dropping
<1>3. ASSUME NEW c \in ComposerClients,
             \/ CreateClient(c) \/ WaitForClientDestroyed(c)
             \/ UnregisterCallback(c) \/ UnregisterEventCallback(c) \/ ClientDestroyed(c)
      PROVE  ResourcesType'
  BY <1>1, <1>3 DEF CreateClient, WaitForClientDestroyed, UnregisterCallback, UnregisterEventCallback,
     ClientDestroyed, ResourcesType
<1>4. ASSUME NEW c \in ComposerClients, RegisterCallback(c)
      PROVE  ResourcesType'
  BY <1>4 DEF RegisterCallback, ResourcesType
<1>5. ASSUME NEW c \in ComposerClients, NEW d \in Displays, NEW n \in Names, NEW a \in Addresses,
             CreateLayer(c, d, n, a)
      PROVE  ResourcesType'
  BY <1>5 DEF CreateLayer, ResourcesType
<1>6. ASSUME NEW c \in ComposerClients, NEW d \in Displays, NEW n \in Names, DestroyLayer(c, d, n)
      PROVE  ResourcesType'
  BY <1>6 DEF DestroyLayer, ResourcesType
<1>7. ASSUME NEW c \in ComposerClients, NEW d \in Displays,
             \/ DestroyResources(c, d) \/ CreateVirtualDisplay(c, d) \/ DestroyVirtualDisplay(c, d)
             \/ Enable(c, d) \/ Disable(c, d)
      PROVE  ResourcesType'
  BY <1>2, <1>7 DEF DestroyResources, CreateVirtualDisplay, DestroyVirtualDisplay, Enable, Disable, ResourcesType
<1>8. ASSUME NEW d \in Displays, HandleHotplugEvent(d) \/ OnHotPlug(d)
      PROVE  ResourcesType'
  <2>1. mResources' \in {mResources, Tracking(mResources, d), Dropping(mResources, d)}
    BY <1>8 DEF HandleHotplugEvent, OnHotPlug
  <2> QED  BY <1>2, <2>1 DEF ResourcesType
<1>9. CASE UNCHANGED serviceVars
  BY <1>9 DEF ResourcesType
<1> QED
  BY <1>3, <1>4, <1>5, <1>6, <1>7, <1>8, <1>9 DEF ServiceNext

LEMMA CreateKeepsNames ==
  ASSUME ComposerAssumption, NamesInv, NEW c \in ComposerClients, NEW d \in Displays, NEW n \in Names,
         NEW a \in Addresses, CreateLayer(c, d, n, a)
  PROVE  NamesInv'
<1> USE DEF NamesInv
<1>1. toHal[n] = Unnamed /\ a \notin heap /\ Unnamed \notin Names \union Addresses
  BY DEF CreateLayer, CreatesOn, ComposerAssumption
<1>2. /\ toHal' = [toHal EXCEPT ![n] = a] /\ toSf' = [toSf EXCEPT ![a] = n] /\ heap' = heap \union {a}
      /\ display' = [display EXCEPT ![d].layers = @ \union {a}]
  BY DEF CreateLayer
<1>3. NamesType'
  BY <1>2 DEF NamesType, DisplayRecords
<1>4. \A m \in Names : toHal[m] # a
  BY <1>1 DEF NamesAgree, NamesType
<1>5. toSf[a] = Unnamed
  BY <1>1, <1>4 DEF NamesAgree, NamesType
<1>6. \A e \in Displays : /\ display'[e].layers = IF e = d THEN display[d].layers \union {a} ELSE display[e].layers
                          /\ a \notin display[e].layers
  BY <1>2, <1>5 DEF NamesAgree, NamesType, DisplayRecords
<1>7. \A m \in Names : toHal'[m] = IF m = n THEN a ELSE toHal[m]
  BY <1>2 DEF NamesType, DisplayRecords
<1>8. \A b \in Addresses : toSf'[b] = IF b = a THEN n ELSE toSf[b]
  BY <1>2 DEF NamesType, DisplayRecords
<1>9. \A m \in Names : toHal'[m] # Unnamed => toSf'[toHal'[m]] = m /\ toHal'[m] \in heap'
  BY <1>2, <1>4, <1>7, <1>8 DEF NamesAgree, NamesType
<1>10. \A b \in Addresses : toSf'[b] # Unnamed => toHal'[toSf'[b]] = b
  <2> SUFFICES ASSUME NEW b \in Addresses, toSf'[b] # Unnamed PROVE toHal'[toSf'[b]] = b
    OBVIOUS
  <2>1. CASE b = a
    BY <1>7, <1>8, <2>1
  <2>2. CASE b # a
    <3>1. toSf[b] \in Names /\ toHal[toSf[b]] = b /\ toSf'[b] = toSf[b]
      BY <1>8, <2>2 DEF NamesAgree, NamesType
    <3> QED  BY <1>1, <1>7, <3>1 
  <2> QED  BY <2>1, <2>2
<1>11. \A e \in Displays : \A b \in display'[e].layers : toSf'[b] # Unnamed
  BY <1>1, <1>6, <1>8 DEF NamesAgree, NamesType, DisplayRecords
<1>12. \A e, f \in Displays : e # f => display'[e].layers \intersect display'[f].layers = {}
  BY <1>6 DEF NamesAgree
<1> QED  BY <1>3, <1>9, <1>10, <1>11, <1>12 DEF NamesAgree

(* Some names of a display's layers are erased, with the layers.           *)
LEMMA EraseKeepsNames ==
  ASSUME ComposerAssumption, NamesInv, NEW d \in Displays, NEW names \in SUBSET Names,
         NEW gone, \A x : x \in gone <=> \E n \in names : x = toHal[n],
         \A n \in names : toHal[n] \in display[d].layers,
         display' \in DisplayRecords,
         \A e \in Displays : display'[e].layers = IF e = d THEN display[d].layers \ gone ELSE display[e].layers,
         heap' = heap \ gone,
         toHal' \in [Names -> Addresses \union {Unnamed}], toSf' \in [Addresses -> Names \union {Unnamed}],
         \A n \in Names : toHal'[n] = IF n \in names THEN Unnamed ELSE toHal[n],
         \A a \in Addresses : toSf'[a] = IF a \in gone THEN Unnamed ELSE toSf[a]
  PROVE  NamesInv'
<1> USE DEF NamesInv
<1>1. Unnamed \notin Names \union Addresses
  BY DEF ComposerAssumption
<1>2. NamesType'
  BY DEF NamesType
<1>3. \A e \in Displays : display[e].layers \subseteq Addresses
  BY DEF NamesType, DisplayRecords
<1>4. gone \subseteq display[d].layers /\ Unnamed \notin gone
  BY <1>1, <1>3
<1>5. \A m \in Names : toHal[m] # Unnamed /\ toHal[m] \in gone => m \in names
  BY DEF NamesAgree
<1>6. \A a \in Addresses : toSf[a] # Unnamed /\ toSf[a] \in names => a \in gone
  BY DEF NamesAgree
<1>7. \A m \in Names : toHal'[m] # Unnamed => toSf'[toHal'[m]] = m /\ toHal'[m] \in heap'
  BY <1>5 DEF NamesAgree, NamesType
<1>8. \A b \in Addresses : toSf'[b] # Unnamed => toHal'[toSf'[b]] = b
  <2> SUFFICES ASSUME NEW b \in Addresses, toSf'[b] # Unnamed PROVE toHal'[toSf'[b]] = b
    OBVIOUS
  <2>1. b \notin gone /\ toSf'[b] = toSf[b]
    OBVIOUS
  <2>2. toSf[b] \in Names /\ toHal[toSf[b]] = b
    BY <2>1 DEF NamesAgree, NamesType
  <2> QED  BY <1>6, <2>1, <2>2
<1>9. \A e \in Displays : \A b \in display'[e].layers : toSf'[b] # Unnamed
  <2> SUFFICES ASSUME NEW e \in Displays, NEW b \in display'[e].layers PROVE toSf'[b] # Unnamed
    OBVIOUS
  <2>1. b \in display[e].layers
    OBVIOUS
  <2>2. b \notin gone
    <3>1. CASE e = d
      BY <3>1
    <3>2. CASE e # d
      BY <1>4, <2>1, <3>2 DEF NamesAgree
    <3> QED  BY <3>1, <3>2
  <2>3. b \in Addresses /\ toSf[b] # Unnamed
    BY <1>3, <2>1 DEF NamesAgree
  <2> QED  BY <2>2, <2>3
<1>10. \A e, f \in Displays : e # f => display'[e].layers \intersect display'[f].layers = {}
  BY DEF NamesAgree
<1> QED  BY <1>2, <1>7, <1>8, <1>9, <1>10 DEF NamesAgree

(* A display forgets all its layers, or keeps them.                        *)
LEMMA OpenKeepsNames ==
  ASSUME NamesInv, UNCHANGED <<toHal, toSf, heap>>,
         display' \in DisplayRecords,
         \A d \in Displays : display'[d].layers \subseteq display[d].layers
  PROVE  NamesInv'
<1> USE DEF NamesInv
<1>1. NamesType'
  BY DEF NamesType
<1>2. \A e \in Displays : \A b \in display'[e].layers : toSf[b] # Unnamed
  BY DEF NamesAgree
<1>3. \A e, f \in Displays : e # f => display'[e].layers \intersect display'[f].layers = {}
  BY DEF NamesAgree
<1> QED  BY <1>1, <1>2, <1>3 DEF NamesAgree

LEMMA NamesStep ==
  ASSUME ComposerAssumption, ResourcesType, NamesInv, [ServiceNext]_serviceVars
  PROVE  NamesInv'
<1>0. NamesType
  BY DEF NamesInv
<1>1. ASSUME NEW c \in ComposerClients,
             \/ CreateClient(c) \/ WaitForClientDestroyed(c) \/ RegisterCallback(c)
             \/ UnregisterCallback(c) \/ UnregisterEventCallback(c) \/ ClientDestroyed(c)
      PROVE  NamesInv'
  <2>1. UNCHANGED <<display, toHal, toSf, heap>>
    BY <1>1 DEF CreateClient, WaitForClientDestroyed, RegisterCallback, UnregisterCallback,
       UnregisterEventCallback, ClientDestroyed
  <2> QED  BY <2>1 DEF NamesInv, NamesType, NamesAgree
<1>2. ASSUME NEW c \in ComposerClients, NEW d \in Displays, NEW n \in Names, DestroyLayer(c, d, n)
      PROVE  NamesInv'
  <2>1. toHal[n] \in display[d].layers /\ toHal[n] \in Addresses
    BY <1>0, <1>2 DEF DestroyLayer, IsLayerOf, NamesType, DisplayRecords
  <2>2. /\ display' = [display EXCEPT ![d].layers = @ \ {toHal[n]}] /\ heap' = heap \ {toHal[n]}
        /\ toHal' = [toHal EXCEPT ![n] = Unnamed] /\ toSf' = [toSf EXCEPT ![toHal[n]] = Unnamed]
    BY <1>2 DEF DestroyLayer, EraseNames
  <2>3. /\ display' \in DisplayRecords
        /\ \A e \in Displays :
             display'[e].layers = IF e = d THEN display[d].layers \ {toHal[n]} ELSE display[e].layers
    BY <1>0, <2>2 DEF NamesType, DisplayRecords
  <2>4. /\ toHal' \in [Names -> Addresses \union {Unnamed}]
        /\ \A m \in Names : toHal'[m] = IF m \in {n} THEN Unnamed ELSE toHal[m]
    BY <1>0, <2>2 DEF NamesType
  <2>5. /\ toSf' \in [Addresses -> Names \union {Unnamed}]
        /\ \A a \in Addresses : toSf'[a] = IF a \in {toHal[n]} THEN Unnamed ELSE toSf[a]
    BY <1>0, <2>1, <2>2 DEF NamesType
  <2>6. {n} \in SUBSET Names /\ (\A m \in {n} : toHal[m] \in display[d].layers)
        /\ (\A x : x \in {toHal[n]} <=> \E m \in {n} : x = toHal[m])
    BY <2>1
  <2>7. heap' = heap \ {toHal[n]}
    BY <2>2
  <2> QED  BY <2>3, <2>4, <2>5, <2>6, <2>7, EraseKeepsNames
<1>3. ASSUME NEW c \in ComposerClients, NEW d \in Displays, DestroyResources(c, d)
      PROVE  NamesInv'
  <2> DEFINE names == {n \in mResources.layers[d] : IsLayerOf(d, n)}
             gone == {toHal[n] : n \in names}
  <2>1. names \in SUBSET Names
    BY DEF ResourcesType
  <2>2. \A n \in names : toHal[n] \in display[d].layers
    BY DEF IsLayerOf
  <2>3. /\ display' = [display EXCEPT ![d].layers = @ \ gone, ![d].plug = @ /\ d \notin Virtuals]
        /\ heap' = heap \ gone
        /\ toHal' = [n \in Names |-> IF n \in names THEN Unnamed ELSE toHal[n]]
        /\ toSf' = [a \in Addresses |-> IF a \in gone THEN Unnamed ELSE toSf[a]]
    BY <1>3 DEF DestroyResources
  <2>4. \A x : x \in gone <=> \E n \in names : x = toHal[n]
    OBVIOUS
  <2>9. /\ toHal' \in [Names -> Addresses \union {Unnamed}]
        /\ \A n \in Names : toHal'[n] = IF n \in names THEN Unnamed ELSE toHal[n]
    BY <1>0, <2>3 DEF NamesType
  <2>10. /\ toSf' \in [Addresses -> Names \union {Unnamed}]
         /\ \A a \in Addresses : toSf'[a] = IF a \in gone THEN Unnamed ELSE toSf[a]
    BY <1>0, <2>3 DEF NamesType
  <2> HIDE DEF names, gone
  <2> DEFINE plug == display[d].plug /\ d \notin Virtuals
             erased == [display EXCEPT ![d].layers = @ \ gone]
  <2>5. plug \in BOOLEAN
    OBVIOUS
  <2>6. display' = [erased EXCEPT ![d].plug = plug]
    BY <1>0, <2>3 DEF NamesType, DisplayRecords
  <2>7. /\ erased \in DisplayRecords
        /\ \A e \in Displays : erased[e].layers = IF e = d THEN display[d].layers \ gone ELSE display[e].layers
    BY <1>0 DEF NamesType, DisplayRecords
  <2> HIDE DEF plug, erased
  <2>8. /\ display' \in DisplayRecords
        /\ \A e \in Displays : display'[e].layers = erased[e].layers
    BY <2>5, <2>6, <2>7 DEF DisplayRecords
  <2>11. \A e \in Displays : display'[e].layers = IF e = d THEN display[d].layers \ gone ELSE display[e].layers
    BY <2>7, <2>8
  <2>12. display' \in DisplayRecords /\ heap' = heap \ gone
    BY <2>3, <2>8
  <2> QED  BY <2>1, <2>2, <2>4, <2>9, <2>10, <2>11, <2>12, EraseKeepsNames
<1>4. ASSUME NEW c \in ComposerClients, NEW d \in Displays, NEW n \in Names, NEW a \in Addresses,
             CreateLayer(c, d, n, a)
      PROVE  NamesInv'
  BY <1>4, CreateKeepsNames DEF NamesInv
<1>5. ASSUME NEW c \in ComposerClients, NEW d \in Displays,
             \/ CreateVirtualDisplay(c, d) \/ DestroyVirtualDisplay(c, d) \/ Enable(c, d) \/ Disable(c, d)
      PROVE  NamesInv'
  <2>1. UNCHANGED <<toHal, toSf, heap>>
    BY <1>5 DEF CreateVirtualDisplay, DestroyVirtualDisplay, Enable, Disable
  <2> DEFINE opened(x) == [Opened(d) EXCEPT !.enabled = x]
             plugged(x) == [display[d] EXCEPT !.plug = x]
             off == [display[d] EXCEPT !.enabled = FALSE]
             records == {opened(TRUE), opened(FALSE), off, plugged(TRUE), plugged(FALSE)}
  <2>2. \E new \in records : display' = [display EXCEPT ![d] = new]
    <3>1. CASE CreateVirtualDisplay(c, d) \/ DestroyVirtualDisplay(c, d)
      BY <1>0, <3>1 DEF CreateVirtualDisplay, DestroyVirtualDisplay, NamesType, DisplayRecords
    <3>2. CASE Enable(c, d)
      BY <3>2 DEF Enable, ChangesTo
    <3>3. CASE Disable(c, d)
      BY <3>3 DEF Disable, ChangesTo
    <3> QED  BY <1>5, <3>1, <3>2, <3>3
  <2>4. \A new \in records :
          /\ new \in [plug : BOOLEAN, hpd : BOOLEAN, enabled : BOOLEAN, layers : SUBSET Addresses, report : BOOLEAN]
          /\ new.layers \subseteq display[d].layers
    BY <1>0 DEF NamesType, DisplayRecords, Opened
  <2> HIDE DEF records
  <2>3. /\ display' \in DisplayRecords
        /\ \A e \in Displays : display'[e].layers \subseteq display[e].layers
    BY <1>0, <2>2, <2>4 DEF NamesType, DisplayRecords
  <2> QED  BY <2>1, <2>3, OpenKeepsNames
<1>6. ASSUME NEW d \in Displays, HandleHotplugEvent(d) \/ OnHotPlug(d)
      PROVE  NamesInv'
  <2>1. UNCHANGED <<toHal, toSf, heap>>
    BY <1>6 DEF HandleHotplugEvent, OnHotPlug
  <2> DEFINE moved(r) == [r EXCEPT !.hpd = ~@, !.report = TRUE]
             told == [display[d] EXCEPT !.report = FALSE]
             records == {told} \union {moved(r) : r \in Closed(d) \union {Opened(d)}}
  <2>2. \E new \in records : display' = [display EXCEPT ![d] = new]
    <3>1. CASE HandleHotplugEvent(d)
      <4>1. PICK r \in Closed(d) \union {Opened(d)} : display' = [display EXCEPT ![d] = moved(r)]
        BY <3>1 DEF HandleHotplugEvent, ChangesTo
      <4> QED  BY <4>1
    <3>2. CASE OnHotPlug(d)
      BY <1>0, <3>2 DEF OnHotPlug, NamesType, DisplayRecords
    <3> QED  BY <1>6, <3>1, <3>2
  <2>3. \A new \in records :
          /\ new \in [plug : BOOLEAN, hpd : BOOLEAN, enabled : BOOLEAN, layers : SUBSET Addresses, report : BOOLEAN]
          /\ new.layers \subseteq display[d].layers
    <3> DEFINE kinds == [plug : BOOLEAN, hpd : BOOLEAN, enabled : BOOLEAN, layers : SUBSET Addresses, report : BOOLEAN]
    <3>1. \A r \in Closed(d) \union {Opened(d)} : r \in kinds /\ r.layers \subseteq display[d].layers
      BY <1>0 DEF NamesType, DisplayRecords, Opened, Closed
    <3>2. \A r \in Closed(d) \union {Opened(d)} : moved(r) \in kinds /\ moved(r).layers \subseteq display[d].layers
      BY <3>1
    <3>3. told \in kinds /\ told.layers \subseteq display[d].layers
      BY <1>0 DEF NamesType, DisplayRecords
    <3> HIDE DEF moved, told
    <3> QED  BY <3>2, <3>3
  <2> HIDE DEF records
  <2>4. /\ display' \in DisplayRecords
        /\ \A e \in Displays : display'[e].layers \subseteq display[e].layers
    BY <1>0, <2>2, <2>3 DEF NamesType, DisplayRecords
  <2> QED  BY <2>1, <2>4, OpenKeepsNames
<1>7. CASE UNCHANGED serviceVars
  BY <1>7 DEF NamesInv, NamesType, NamesAgree
<1> QED
  BY <1>1, <1>2, <1>3, <1>4, <1>5, <1>6, <1>7 DEF ServiceNext


(* The two maps between SurfaceFlinger's name and the layer's address are  *)
(* each other's inverse and name exactly layers that exist, every layer a  *)
(* display may report on among them, however clients, hotplugs and power   *)
(* changes come.                                                           *)
THEOREM TheNamesAgree == ServiceSpec => []NamesAgree
<1>1. ServiceInit => NamesInv /\ ResourcesType
  BY DEF ServiceInit, NamesInv, NamesType, NamesAgree, ResourcesType, NoResources, DisplayRecords
<1>2. NamesInv /\ ResourcesType /\ [ServiceNext]_serviceVars => NamesInv' /\ ResourcesType'
  BY NamesStep, ResourcesStep, ComposerAssumption
<1>3. NamesInv => NamesAgree
  BY DEF NamesInv
<1> QED  BY <1>1, <1>2, <1>3, PTL DEF ServiceSpec

(* A client is served: it lives, or is at a step of its end.               *)
Served(c) == client[c] \notin {"none", "waiting"}

ClientInv ==
  /\ client \in [ComposerClients -> {"none", "waiting", "alive", "unregistering", "cleaning"}]
  /\ callback \in [registered : BOOLEAN, owner : ComposerClients \union {Unnamed}]
  /\ callback.registered => callback.owner # Unnamed
  /\ callback.owner # Unnamed => client[callback.owner] \in {"alive", "unregistering"}
  /\ \A c, d \in ComposerClients : Served(c) /\ Served(d) => c = d
  /\ mClientAlive <=> \E c \in ComposerClients : Served(c)

LEMMA ClientStep ==
  ASSUME ComposerAssumption, ClientInv, [ServiceNext]_serviceVars
  PROVE  ClientInv'
<1> USE DEF ClientInv, Served, Become
<1>1. ASSUME NEW c \in ComposerClients, CreateClient(c) \/ WaitForClientDestroyed(c)
      PROVE  ClientInv'
  BY <1>1 DEF CreateClient, WaitForClientDestroyed, MayStart
<1>2. ASSUME NEW c \in ComposerClients, RegisterCallback(c)
      PROVE  ClientInv'
  BY <1>2 DEF RegisterCallback, ComposerAssumption
<1>3. ASSUME NEW c \in ComposerClients, UnregisterCallback(c)
      PROVE  ClientInv'
  <2>1. /\ client' = [client EXCEPT ![c] = "unregistering"] /\ client[c] = "alive"
        /\ callback' = [callback EXCEPT !.registered = FALSE] /\ UNCHANGED mClientAlive
    BY <1>3 DEF UnregisterCallback, UnregisterFunctions
  <2>2. callback'.registered = FALSE /\ callback'.owner = callback.owner /\ callback' \in [registered : BOOLEAN,
        owner : ComposerClients \union {Unnamed}]
    BY <2>1
  <2>3. \A d \in ComposerClients : client'[d] = IF d = c THEN "unregistering" ELSE client[d]
    BY <2>1
  <2>4. \A d \in ComposerClients : Served(d)' <=> Served(d)
    BY <2>1, <2>3
  <2> QED  BY <2>1, <2>2, <2>3, <2>4
<1>4. ASSUME NEW c \in ComposerClients, UnregisterEventCallback(c)
      PROVE  ClientInv'
  BY <1>4 DEF UnregisterEventCallback
<1>5. ASSUME NEW c \in ComposerClients, ClientDestroyed(c)
      PROVE  ClientInv'
  BY <1>5 DEF ClientDestroyed
<1>6. ASSUME NEW c \in ComposerClients, NEW d \in Displays,
             \/ DestroyResources(c, d) \/ CreateVirtualDisplay(c, d) \/ DestroyVirtualDisplay(c, d)
             \/ Enable(c, d) \/ Disable(c, d)
             \/ \E n \in Names : DestroyLayer(c, d, n) \/ \E a \in Addresses : CreateLayer(c, d, n, a)
      PROVE  ClientInv'
  <2>1. UNCHANGED <<client, mClientAlive, callback>>
    BY <1>6 DEF DestroyResources, CreateVirtualDisplay, DestroyVirtualDisplay, Enable, Disable, DestroyLayer, CreateLayer
  <2> QED  BY <2>1
<1>7. ASSUME NEW d \in Displays, HandleHotplugEvent(d) \/ OnHotPlug(d)
      PROVE  ClientInv'
  <2>1. UNCHANGED <<client, mClientAlive, callback>>
    BY <1>7 DEF HandleHotplugEvent, OnHotPlug
  <2> QED  BY <2>1
<1>8. CASE UNCHANGED serviceVars
  BY <1>8
<1> QED
  BY <1>1, <1>2, <1>3, <1>4, <1>5, <1>6, <1>7, <1>8 DEF ServiceNext

(* An event of the device finds the callback of the one client that is     *)
(* alive, at each step of the end of one client and the start of the next; *)
(* two clients are never served at once.                                   *)
THEOREM TheClientGetsItsEvents == ServiceSpec => []EventsReachTheClient
<1>1. ServiceInit => ClientInv
  BY DEF ServiceInit, ClientInv, Served
<1>2. ClientInv /\ [ServiceNext]_serviceVars => ClientInv'
  BY ClientStep, ComposerAssumption
<1>3. ClientInv => EventsReachTheClient
  <2> SUFFICES ASSUME ClientInv PROVE EventsReachTheClient
    OBVIOUS
  <2> DEFINE served == {c \in ComposerClients : client[c] \notin {"none", "waiting"}}
  <2>1. served = {} \/ \E c : served = {c}
    BY DEF ClientInv, Served
  <2>2. Cardinality(served) \in {0, 1}
    BY <2>1, FS_EmptySet, FS_Singleton
  <2>3. Cardinality(served) <= 1
    BY <2>2
  <2> HIDE DEF served
  <2> QED  BY <2>3 DEF served, ClientInv, Served, EventsReachTheClient
<1> QED  BY <1>1, <1>2, <1>3, PTL DEF ServiceSpec

-----------------------------------------------------------------------------
(* The crtcs.                                                              *)

CrtcDisplays == Primaries \union {External}

\* Who has whose crtc when the external display has borrowed that of from.
Owners(from) ==
    [d \in CrtcDisplays |-> CASE d = External /\ from # NoDisplay -> from
                          [] d = from -> External
                          [] OTHER -> d]

\* A record of the crtcs that tells the truth.
Truthful(c) == /\ c.from \in Primaries \union {NoDisplay}
               /\ c = [of |-> Owners(c.from), from |-> c.from]

PowerSteps == {"disable to return", "return", "lend other", "enable, on", "on",
               "disable to lend", "lend own", "enable, off", "off"}

CrtcTypes ==
    /\ power \in [Primaries -> {"unset", "on", "off", "doze"}]
    /\ report \in [pc : {"none", "read", "return", "find", "lend"}, status : BOOLEAN,
                   seen : Primaries \union {NoDisplay}]
    /\ waking \in [who : Primaries \union {NoDisplay}, pc : PowerSteps \union {"done"}]
    /\ waking.who = NoDisplay <=> waking.pc = "done"

(* A display that is on has its own crtc, and no hotplug is about to swap  *)
(* it.                                                                     *)
OwnCrtcs ==
    \A p \in Primaries \ raced : power[p] = "on" /\ waking.who # p =>
        crtcs.from # p /\ (report.pc \in {"return", "lend"} => report.seen # p)

(* While a display changes its power and no hotplug is handled, nobody     *)
(* else swaps.                                                             *)
WakesAlone ==
    waking.who \in Primaries \ raced =>
        /\ MutexIsFree
        /\ waking.pc \in {"disable to return", "return"} => crtcs.from = waking.who
        /\ waking.pc = "lend other" => crtcs.from = NoDisplay
        /\ waking.pc \in {"enable, on", "on"} => crtcs.from # waking.who

CrtcIInv == Truthful(crtcs) /\ CrtcTypes /\ OwnCrtcs /\ WakesAlone

-----------------------------------------------------------------------------
\* An exchange of the external display's crtc, or its return, keeps the record true.
LEMMA SwappedIsTruthful ==
    ASSUME NEW c, NEW p \in Primaries, Truthful(c)
    PROVE  /\ Truthful(Swapped(c, p))
           /\ Swapped(c, p).from \in {c.from, p, NoDisplay}
           /\ c.from = NoDisplay => Swapped(c, p).from = p
           /\ c.from = p => Swapped(c, p).from = NoDisplay
           /\ c.from \notin {NoDisplay, p} => Swapped(c, p) = c
<1>0. p # NoDisplay /\ p # External /\ NoDisplay # External /\ External \notin Primaries
      /\ NoDisplay \notin Primaries
  BY CrtcAssumption
<1>1. CASE c.from \notin {NoDisplay, p}
  BY <1>1 DEF Swapped
<1>2. CASE c.from = NoDisplay
  <2>1. Swapped(c, p) = [of |-> [c.of EXCEPT ![External] = c.of[p], ![p] = c.of[External]],
                         from |-> p]
    BY <1>0, <1>2 DEF Swapped
  <2>2. c.of = [d \in CrtcDisplays |-> d]
    BY <1>0, <1>2 DEF Truthful, Owners, CrtcDisplays
  <2>3. [c.of EXCEPT ![External] = c.of[p], ![p] = c.of[External]] = Owners(p)
    BY <1>0, <2>2 DEF Owners, CrtcDisplays
  <2> QED BY <1>0, <1>2, <2>1, <2>3 DEF Truthful
<1>3. CASE c.from = p
  <2>1. Swapped(c, p) = [of |-> [c.of EXCEPT ![External] = c.of[p], ![p] = c.of[External]],
                         from |-> NoDisplay]
    BY <1>0, <1>3 DEF Swapped
  <2>2. c.of = Owners(p)
    BY <1>3 DEF Truthful
  <2>3. [c.of EXCEPT ![External] = c.of[p], ![p] = c.of[External]] = Owners(NoDisplay)
    BY <1>0, <2>2 DEF Owners, CrtcDisplays
  <2> QED BY <1>0, <1>3, <2>1, <2>3 DEF Truthful
<1> QED BY <1>1, <1>2, <1>3

\* What is found is off.
LEMMA FoundIsOff ==
    ASSUME NEW except, NEW p \in PoweredOffOr(except), power \in [Primaries -> {"unset", "on", "off", "doze"}]
    PROVE  p = NoDisplay \/ (p \in Primaries /\ p # except /\ power[p] = "off")
BY DEF PoweredOffOr, PoweredOff

-----------------------------------------------------------------------------
LEMMA InitCrtcIInv == CrtcInit => CrtcIInv
<1> SUFFICES ASSUME CrtcInit PROVE CrtcIInv OBVIOUS
<1>1. Truthful(crtcs)
  BY CrtcAssumption DEF CrtcInit, Truthful, Owners, CrtcDisplays
<1> QED BY <1>1, CrtcAssumption DEF CrtcInit, CrtcIInv, CrtcTypes, OwnCrtcs, WakesAlone, NoReport, NoChange

LEMMA NextCrtcIInv ==
    ASSUME CrtcIInv, [CrtcNext]_crtcVars
    PROVE  CrtcIInv'
<1> USE DEF crtcVars, CrtcIInv, CrtcTypes, OwnCrtcs, WakesAlone, MutexIsFree
<1>n. NoDisplay \notin Primaries
  BY CrtcAssumption
<1>1. ASSUME NEW on \in BOOLEAN, SetExternalPower(on)
      PROVE  CrtcIInv'
  BY <1>1 DEF SetExternalPower
<1>2. ASSUME NEW c \in BOOLEAN, NEW e \in BOOLEAN, ConnectorChanges(c, e)
      PROVE  CrtcIInv'
  BY <1>2 DEF ConnectorChanges
<1>3. CASE HandleHotplug
  <2>1. /\ UNCHANGED <<crtcs, power, waking>> /\ report' = [NoReport EXCEPT !.pc = "read"]
        /\ raced' = raced \union ({waking.who} \ {NoDisplay})
    BY <1>3 DEF HandleHotplug
  <2> QED BY <1>n, <2>1 DEF NoReport
<1>4. CASE ReadBorrowed
  <2> DEFINE b == ext.hpd /\ ~connector.error
  <2>1. /\ UNCHANGED <<crtcs, power, waking, raced>> /\ report.pc = "read"
        /\ report' = [pc |-> "return", status |-> b, seen |-> crtcs.from]
    BY <1>4 DEF ReadBorrowed
  <2>2. b \in BOOLEAN
    OBVIOUS
  <2> HIDE DEF b
  <2> QED BY <2>1, <2>2 DEF Truthful
<1>5. CASE ReturnOnHotplug \/ LendOnHotplug
  <2>1. /\ UNCHANGED <<power, waking, raced>> /\ report.pc \in {"return", "lend"} /\ SwapSeen
        /\ report' \in {[report EXCEPT !.pc = "find"], NoReport}
    BY <1>5 DEF ReturnOnHotplug, LendOnHotplug
  <2>2. Truthful(crtcs') /\ crtcs'.from \in {crtcs.from, report.seen, NoDisplay}
    BY <2>1, SwappedIsTruthful DEF SwapSeen
  <2>3. waking.who \notin Primaries \ raced
    BY <2>1
  <2>4. report' \in [pc : {"find", "none"}, status : BOOLEAN, seen : Primaries \union {NoDisplay}]
    <3>1. CASE report' = NoReport
      BY <3>1 DEF NoReport
    <3>2. CASE report' = [report EXCEPT !.pc = "find"]
      BY <3>2
    <3> QED BY <2>1, <3>1, <3>2
  <2>5. UNCHANGED <<power, waking, raced>> /\ report.pc \in {"return", "lend"}
    BY <2>1
  <2>a. CrtcTypes'
    BY <1>n, <2>4, <2>5
  <2>b. Truthful(crtcs)'
    BY <2>1, <2>2, <2>3 DEF Truthful
  <2>c. OwnCrtcs'
    <3> SUFFICES ASSUME NEW q \in Primaries \ raced', power'[q] = "on", waking'.who # q
                 PROVE  crtcs'.from # q /\ (report'.pc \in {"return", "lend"} => report'.seen # q)
      OBVIOUS
    <3> QED BY <1>n, <2>2, <2>4, <2>5
  <2>d. WakesAlone'
    BY <1>n, <2>3, <2>5
  <2> QED BY <2>a, <2>b, <2>c, <2>d
<1>6. CASE FindPoweredOff
  <2>1. PICK p \in PoweredOffOr(NoDisplay) : report' = [report EXCEPT !.pc = "lend", !.seen = p]
    BY <1>6 DEF FindPoweredOff
  <2>2. p = NoDisplay \/ (p \in Primaries /\ power[p] = "off")
    BY FoundIsOff
  <2>3. waking.who \notin Primaries \ raced /\ UNCHANGED <<crtcs, power, waking, raced>>
    BY <1>6 DEF FindPoweredOff
  <2>a. CrtcTypes'
    BY <1>n, <2>1, <2>2, <2>3
  <2>b. Truthful(crtcs)'
    BY <2>1, <2>2, <2>3 DEF Truthful
  <2>c. OwnCrtcs'
    <3> SUFFICES ASSUME NEW q \in Primaries \ raced', power'[q] = "on", waking'.who # q
                 PROVE  crtcs'.from # q /\ (report'.pc \in {"return", "lend"} => report'.seen # q)
      OBVIOUS
    <3> QED BY <1>n, <2>1, <2>2, <2>3
  <2>d. WakesAlone'
    BY <1>n, <2>1, <2>2, <2>3
  <2> QED BY <2>a, <2>b, <2>c, <2>d
<1>7. ASSUME NEW p \in Primaries, PowerOn(p) \/ PowerOff(p)
      PROVE  CrtcIInv'
  <2>1. PICK pc \in PowerSteps : Starts(p, pc)
    BY <1>7 DEF PowerOn, PowerOff, PowerSteps
  <2>2. /\ UNCHANGED <<crtcs, power, report>> /\ waking' = [who |-> p, pc |-> pc]
        /\ raced' = IF MutexIsFree THEN raced \ {p} ELSE raced \union {p}
    BY <2>1 DEF Starts
  <2>3. waking.who = NoDisplay
    BY <2>1 DEF Starts, NoChange
  <2>4. /\ pc \in {"disable to return", "return"} => crtcs.from = p
        /\ pc # "lend other"
        /\ pc \in {"enable, on", "on"} => crtcs.from # p
    <3>1. ASSUME NEW b, Starts(p, b) PROVE pc = b
      <4>1. waking' = [who |-> p, pc |-> b]
        BY <3>1 DEF Starts
      <4> HIDE DEF CrtcIInv, crtcVars
      <4>2. waking'.pc = b
        BY <4>1
      <4>3. waking'.pc = pc
        BY <2>2
      <4> QED BY <4>2, <4>3
    <3>2. CASE PowerOn(p)
      BY <3>1, <3>2 DEF PowerOn
    <3>3. CASE PowerOff(p)
      BY <3>1, <3>3 DEF PowerOff
    <3> QED BY <1>7, <3>2, <3>3
  <2>5. CrtcTypes' /\ Truthful(crtcs)'
    BY <1>n, <2>2 DEF PowerSteps
  <2>6. OwnCrtcs'
    BY <1>n, <2>2, <2>3
  <2>7. WakesAlone'
    BY <2>2, <2>4
  <2> QED BY <2>5, <2>6, <2>7
<1>8. CASE DisableExternal
  BY <1>8 DEF DisableExternal, From, PowerSteps
<1>9. CASE EnableExternal
  BY <1>9 DEF EnableExternal, From, PowerSteps
<1>10. CASE TakeCrtcBack
  <2>1. /\ UNCHANGED <<power, report, raced>> /\ waking.pc = "return" /\ crtcs' = Swapped(crtcs, waking.who)
        /\ waking' = [waking EXCEPT !.pc = "lend other"] /\ waking.who \in Primaries
    BY <1>10 DEF TakeCrtcBack, From
  <2>2. /\ Truthful(crtcs') /\ crtcs'.from \in {crtcs.from, waking.who, NoDisplay}
        /\ crtcs.from = waking.who => crtcs'.from = NoDisplay
    <3>1. Truthful(crtcs)
      OBVIOUS
    <3> HIDE DEF CrtcIInv
    <3> QED BY <2>1, <3>1, SwappedIsTruthful
  <2>a. CrtcTypes'
    BY <1>n, <2>1, <2>2 DEF PowerSteps
  <2>b. Truthful(crtcs)'
    BY <2>1, <2>2 DEF Truthful
  <2>c. OwnCrtcs'
    <3> SUFFICES ASSUME NEW q \in Primaries \ raced', power'[q] = "on", waking'.who # q
                 PROVE  crtcs'.from # q /\ (report'.pc \in {"return", "lend"} => report'.seen # q)
      OBVIOUS
    <3> QED BY <1>n, <2>1, <2>2 DEF PowerSteps
  <2>d. WakesAlone'
    BY <1>n, <2>1, <2>2 DEF PowerSteps
  <2> QED BY <2>a, <2>b, <2>c, <2>d
<1>11. CASE LendOther
  <2>1. /\ UNCHANGED <<power, report, raced>> /\ waking.pc = "lend other"
        /\ waking' = [waking EXCEPT !.pc = "enable, on"] /\ waking.who \in Primaries
    BY <1>11 DEF LendOther, From
  <2>2. PICK p \in PoweredOffOr(waking.who) : crtcs' = IF p = NoDisplay THEN crtcs ELSE Swapped(crtcs, p)
    BY <1>11 DEF LendOther
  <2>3. p = NoDisplay \/ (p \in Primaries /\ p # waking.who /\ power[p] = "off")
    BY FoundIsOff
  <2>4. Truthful(crtcs') /\ crtcs'.from \in {crtcs.from, p, NoDisplay}
    BY <2>2, <2>3, SwappedIsTruthful
  <2>a. CrtcTypes'
    BY <1>n, <2>1, <2>3, <2>4 DEF PowerSteps
  <2>b. Truthful(crtcs)'
    BY <2>1, <2>3, <2>4 DEF Truthful
  <2>c. OwnCrtcs'
    <3> SUFFICES ASSUME NEW q \in Primaries \ raced', power'[q] = "on", waking'.who # q
                 PROVE  crtcs'.from # q /\ (report'.pc \in {"return", "lend"} => report'.seen # q)
      OBVIOUS
    <3>1. power[q] = "on" /\ waking.who # q /\ UNCHANGED report /\ q \notin raced
      BY <2>1
    <3>2. crtcs.from # q /\ (report.pc \in {"return", "lend"} => report.seen # q)
      BY <3>1
    <3> QED BY <1>n, <2>3, <2>4, <3>1, <3>2
  <2>d. WakesAlone'
    BY <1>n, <2>1, <2>3, <2>4 DEF PowerSteps
  <2> QED BY <2>a, <2>b, <2>c, <2>d
<1>12. CASE LendOwn
  <2>1. /\ UNCHANGED <<power, report, raced>> /\ crtcs' = Swapped(crtcs, waking.who)
        /\ waking' = [waking EXCEPT !.pc = "enable, off"] /\ waking.pc = "lend own" /\ waking.who \in Primaries
    BY <1>12 DEF LendOwn, From
  <2>2. Truthful(crtcs') /\ crtcs'.from \in {crtcs.from, waking.who, NoDisplay}
    BY <2>1, SwappedIsTruthful
  <2>a. CrtcTypes'
    BY <1>n, <2>1, <2>2 DEF PowerSteps
  <2>b. Truthful(crtcs)'
    BY <2>1, <2>2 DEF Truthful
  <2>c. OwnCrtcs'
    <3> SUFFICES ASSUME NEW q \in Primaries \ raced', power'[q] = "on", waking'.who # q
                 PROVE  crtcs'.from # q /\ (report'.pc \in {"return", "lend"} => report'.seen # q)
      OBVIOUS
    <3> QED BY <1>n, <2>1, <2>2 DEF PowerSteps
  <2>d. WakesAlone'
    BY <1>n, <2>1, <2>2 DEF PowerSteps
  <2> QED BY <2>a, <2>b, <2>c, <2>d
<1>13. CASE PowerIsSet
  <2>1. /\ UNCHANGED <<crtcs, report, raced>> /\ waking.pc \in {"on", "off"} /\ waking' = NoChange
        /\ power' = [power EXCEPT ![waking.who] = waking.pc] /\ waking.who \in Primaries
    BY <1>13 DEF PowerIsSet
  <2>2. CrtcTypes' /\ Truthful(crtcs)'
    BY <1>n, <2>1 DEF NoChange
  <2>3. OwnCrtcs'
    <3> SUFFICES ASSUME NEW p \in Primaries \ raced', power'[p] = "on"
                 PROVE  crtcs'.from # p /\ (report'.pc \in {"return", "lend"} => report'.seen # p)
      OBVIOUS
    <3>1. CASE p = waking.who
      BY <2>1, <3>1
    <3>2. CASE p # waking.who
      BY <2>1, <3>2
    <3> QED BY <3>1, <3>2
  <2>4. WakesAlone'
    BY <1>n, <2>1 DEF NoChange
  <2> QED BY <2>2, <2>3, <2>4
<1>14. ASSUME NEW p \in Primaries, PowerDoze(p)
      PROVE  CrtcIInv'
  BY <1>14 DEF PowerDoze
<1>15. CASE UNCHANGED crtcVars
  BY <1>15
<1> QED BY <1>1, <1>2, <1>3, <1>4, <1>5, <1>6, <1>7, <1>8, <1>9, <1>10, <1>11, <1>12, <1>13, <1>14, <1>15
        DEF CrtcNext

LEMMA CrtcIInvSuffices == CrtcIInv => CrtcsComeHome
<1> SUFFICES ASSUME CrtcIInv PROVE CrtcsComeHome OBVIOUS
<1>1. crtcs.of = Owners(crtcs.from)
  BY DEF CrtcIInv, Truthful
<1>2. ASSUME NEW p \in Primaries \ raced, power[p] = "on", waking.who # p PROVE HasOwnCrtc(p)
  BY <1>1, <1>2, CrtcAssumption DEF CrtcIInv, OwnCrtcs, HasOwnCrtc, Owners, CrtcDisplays
<1> QED BY <1>1, <1>2 DEF CrtcsComeHome, Owners, CrtcDisplays

(* However the steps of hotplugs, failed link trainings and power changes  *)
(* interleave, the record of the loan is true, and a built-in display that *)
(* is on has its own crtc, unless onHotPlug and its last power change      *)
(* overlapped, for any number of displays.                                 *)
THEOREM CrtcsAlwaysComeHome == CrtcSpec => []CrtcsComeHome
<1>1. CrtcInit => CrtcIInv
  BY InitCrtcIInv
<1>2. CrtcIInv /\ [CrtcNext]_crtcVars => CrtcIInv'
  BY NextCrtcIInv
<1>3. CrtcIInv => CrtcsComeHome
  BY CrtcIInvSuffices
<1> QED BY <1>1, <1>2, <1>3, PTL DEF CrtcSpec

-----------------------------------------------------------------------------
(* Local HBM.                                                              *)

CallSteps ==
  {"idle", "wait_for_power_on", "check_status", "set_config", "wait_for_lhbm_off", "restore", "put_out",
   "wait_for_peak_rate", "wait_for_lhbm_on", "wait_for_peak_brightness", "lit", "powered", "enable_err",
   "restore_after_error"}

PanelModes == LhbmConfigs \union {DozeMode}

LhbmTypeInv ==
  /\ cfg \in [active : LhbmConfigs, pending : LhbmConfigs \union {NoConfig}, set : PanelModes]
  /\ configRequest \in [state : {"done", "pending", "requested"}, desired : LhbmConfigs]
  /\ lit \in [power : {"on", "off", "doze"}, on : BOOLEAN, throttle : BOOLEAN]
  /\ call \in [pc : CallSteps, enable : BOOLEAN]

(* A forced mode: what is active is what was forced, and unless the commit *)
(* fails the panel has it.                                                 *)
LEMMA ForcedFacts ==
  ASSUME LhbmTypeInv, NEW config \in LhbmConfigs, NEW c, c.pending \in LhbmConfigs \union {NoConfig},
         SetForced(config, c)
  PROVE  /\ cfg' \in [active : LhbmConfigs, pending : LhbmConfigs \union {NoConfig}, set : PanelModes]
         /\ cfg'.active = config /\ cfg'.pending = c.pending
         /\ ~ModeSetsFail => cfg'.set = config
         /\ configRequest' \in [state : {"done", "pending", "requested"}, desired : LhbmConfigs]
         /\ configRequest'.desired = configRequest.desired
         /\ configRequest'.state # "done" => configRequest.state = configRequest'.state
<1>1. PICK reached \in IF ModeSetsFail THEN {config, cfg.set} ELSE {config} :
        /\ cfg' = [active |-> config, pending |-> c.pending, set |-> reached]
        /\ configRequest' = [configRequest EXCEPT !.state = IF @ = "requested" THEN "done" ELSE @]
  BY DEF SetForced
<1>2. reached \in PanelModes
  BY DEF LhbmTypeInv, PanelModes
<1> QED  BY <1>1, <1>2 DEF LhbmTypeInv

LEMMA RestoredFacts ==
  ASSUME LhbmTypeInv, LhbmAssumption, Restored
  PROVE  /\ cfg' \in [active : LhbmConfigs, pending : LhbmConfigs \union {NoConfig}, set : PanelModes]
         /\ configRequest' \in [state : {"done", "pending", "requested"}, desired : LhbmConfigs]
         /\ configRequest'.desired = configRequest.desired
         /\ configRequest'.state # "done" => configRequest.state = configRequest'.state
         /\ \/ cfg' = cfg
            \/ cfg.pending = NoConfig /\ cfg' = cfg
            \/ cfg.pending # NoConfig /\ cfg'.pending = NoConfig /\ cfg'.active = cfg.pending
            \/ cfg.pending = cfg.set /\ cfg'.pending = NoConfig /\ cfg'.active = cfg.active
<1>1. CASE lit.power = "doze"
  BY <1>1 DEF Restored, LhbmTypeInv
<1>2. CASE lit.power # "doze" /\ cfg.pending \notin {NoConfig, cfg.set}
  <2> DEFINE c == [cfg EXCEPT !.pending = NoConfig]
  <2>1. SetForced(cfg.pending, c) /\ cfg.pending \in LhbmConfigs /\ c.pending = NoConfig
    BY <1>2 DEF Restored, LhbmTypeInv
  <2> HIDE DEF c
  <2> QED  BY <1>2, <2>1, ForcedFacts
<1>3. CASE lit.power # "doze" /\ cfg.pending \in {NoConfig, cfg.set}
  <2>1. cfg' = [cfg EXCEPT !.pending = NoConfig] /\ UNCHANGED configRequest
    BY <1>3 DEF Restored
  <2> QED  BY <1>3, <2>1 DEF LhbmTypeInv
<1> QED  BY <1>1, <1>2, <1>3

LEMMA HandedOverFacts ==
  ASSUME LhbmTypeInv
  PROVE  LET h == HandedOver(cfg) IN
         /\ h \in [active : LhbmConfigs, pending : LhbmConfigs \union {NoConfig}, set : PanelModes]
         /\ \/ h = cfg
            \/ configRequest.state # "done" /\ h.active = configRequest.desired
               /\ h.pending \in {cfg.pending, configRequest.desired}
BY DEF LhbmTypeInv, HandedOver, PanelModes

LEMMA KeepFacts ==
  ASSUME LhbmTypeInv
  PROVE  LET k == KeepForLater(cfg) IN
         /\ k \in [active : LhbmConfigs, pending : LhbmConfigs \union {NoConfig}, set : PanelModes]
         /\ k.active = cfg.active /\ k.set = cfg.set
         /\ k.pending = IF cfg.pending = NoConfig /\ cfg.active # Peak THEN cfg.active ELSE cfg.pending
BY DEF LhbmTypeInv, KeepForLater

LEMMA LhbmTypeStep ==
  ASSUME LhbmAssumption, LhbmTypeInv, [LhbmNext]_lhbmVars
  PROVE  LhbmTypeInv'
<1>1. ASSUME NEW config \in LhbmConfigs, RequestConfig(config)
      PROVE  LhbmTypeInv'
  BY <1>1 DEF RequestConfig, LhbmTypeInv
<1>2. ASSUME NEW due \in BOOLEAN, PresentFrame(due)
      PROVE  LhbmTypeInv'
  <2>1. cfg' \in {cfg, HandedOver(cfg)} /\ UNCHANGED <<lit, call>>
    BY <1>2 DEF PresentFrame
  <2>2. configRequest' \in [state : {"done", "pending", "requested"}, desired : LhbmConfigs]
    BY <1>2 DEF PresentFrame, LhbmTypeInv
  <2> QED  BY <2>1, <2>2, HandedOverFacts DEF LhbmTypeInv
<1>3. CASE SetPowerOn
  <2> DEFINE c == [cfg EXCEPT !.pending = NoConfig]
  <2>1. Reported(cfg) \in LhbmConfigs /\ c.pending = NoConfig /\ SetForced(Reported(cfg), c) /\ UNCHANGED call
    BY <1>3 DEF SetPowerOn, Reported, LhbmTypeInv
  <2>2. lit' \in [power : {"on", "off", "doze"}, on : BOOLEAN, throttle : BOOLEAN]
    BY <1>3 DEF SetPowerOn, LhbmTypeInv
  <2> HIDE DEF c
  <2> QED  BY <2>1, <2>2, ForcedFacts DEF LhbmTypeInv
<1>4. CASE SetLhbmDisplayConfig
  <2>1. UNCHANGED lit /\ call' \in [pc : CallSteps, enable : BOOLEAN]
    BY <1>4 DEF SetLhbmDisplayConfig, GoTo, LhbmTypeInv, CallSteps
  <2>2. SetForced(Peak, KeepForLater(cfg)) \/ (cfg' = KeepForLater(cfg) /\ UNCHANGED configRequest)
    BY <1>4 DEF SetLhbmDisplayConfig
  <2> QED  BY <2>1, <2>2, ForcedFacts, KeepFacts DEF LhbmTypeInv, LhbmAssumption
<1>5. CASE Restore \/ RestoreAfterError
  <2>1. UNCHANGED lit /\ call' \in [pc : CallSteps, enable : BOOLEAN] /\ Restored
    BY <1>5 DEF Restore, RestoreAfterError, GoTo, LhbmTypeInv, CallSteps
  <2> QED  BY <2>1, RestoredFacts DEF LhbmTypeInv
<1>6. CASE VsyncConfirms \/ SetPowerOff \/ ForgetLhbm \/ SetPowerDoze \/ TurningAwayEnds \/ SpotReachesPeak
           \/ KernelTimeout
  BY <1>6 DEF VsyncConfirms, SetPowerOff, ForgetLhbm, SetPowerDoze, TurningAwayEnds, SpotReachesPeak,
     KernelTimeout, LhbmTypeInv, PanelModes
<1>7. CASE (\E enable \in BOOLEAN : SetLhbmState(enable)) \/ WaitForPowerOn \/ CheckStatus \/ WaitForLhbmOff
           \/ EnableError \/ NoLhbmConfig
  <2>1. UNCHANGED <<cfg, configRequest, lit>>
    BY <1>7 DEF SetLhbmState, WaitForPowerOn, CheckStatus, WaitForLhbmOff, EnableError, NoLhbmConfig
  <2>2. \/ \E enable \in BOOLEAN : call' = [pc |-> "wait_for_power_on", enable |-> enable]
        \/ \E pc \in CallSteps : GoTo(pc)
    BY <1>7 DEF SetLhbmState, WaitForPowerOn, CheckStatus, WaitForLhbmOff, EnableError, NoLhbmConfig, CallSteps
  <2> QED  BY <2>1, <2>2 DEF LhbmTypeInv, GoTo, CallSteps
<1>8. CASE WaitForPeakRate \/ WaitForLhbmOn \/ WaitForPeakBrightness
  BY <1>8 DEF WaitForPeakRate, WaitForLhbmOn, WaitForPeakBrightness, LhbmVote, GoTo, LhbmTypeInv, CallSteps
<1>9. CASE PutOut \/ SpotIsLit \/ CheckPower
  BY <1>9 DEF PutOut, SpotIsLit, CheckPower, GoTo, LhbmTypeInv, CallSteps
<1>10. CASE UNCHANGED lhbmVars
  BY <1>10 DEF LhbmTypeInv
<1> QED
  BY <1>1, <1>2, <1>3, <1>4, <1>5, <1>6, <1>7, <1>8, <1>9, <1>10 DEF LhbmNext, SensorCall

LEMMA LhbmTypeCorrect == LhbmSpec => []LhbmTypeInv
<1>1. LhbmInit => LhbmTypeInv
  BY DEF LhbmInit, LhbmTypeInv, CallSteps, PanelModes
<1>2. LhbmTypeInv /\ [LhbmNext]_lhbmVars => LhbmTypeInv'
  BY LhbmTypeStep, LhbmAssumption
<1> QED  BY <1>1, <1>2, PTL DEF LhbmSpec

(* The spot counts as lit with the display off only while setPowerOff has  *)
(* yet to forget it, or setLhbmState yet to look at the power mode.        *)
LitInv == lit.on /\ lit.power = "off" => goingOff \/ At("powered")

(* getLhbmState is not true for a display that is off, whenever neither    *)
(* setPowerOff nor setLhbmState is running: whichever of the two sets      *)
(* mLhbmOn last, the power mode it looked at was the last one.             *)
THEOREM LhbmGoesOffWithTheDisplay == LhbmSpec => []LhbmOffWithDisplay
<1>1. LhbmInit => LitInv
  BY DEF LhbmInit, LitInv
<1>2. LhbmTypeInv /\ LitInv /\ [LhbmNext]_lhbmVars => LitInv'
  <2> SUFFICES ASSUME LhbmTypeInv, LitInv, [LhbmNext]_lhbmVars
               PROVE  LitInv'
    OBVIOUS
  <2> USE DEF LitInv, At
  <2>1. CASE (\E config \in LhbmConfigs : RequestConfig(config)) \/ (\E due \in BOOLEAN : PresentFrame(due))
    BY <2>1 DEF RequestConfig, PresentFrame
  <2>2. CASE SetPowerOn \/ SetPowerOff \/ ForgetLhbm \/ SetPowerDoze
    BY <2>2 DEF SetPowerOn, SetPowerOff, ForgetLhbm, SetPowerDoze, LhbmTypeInv
  <2>3. CASE VsyncConfirms \/ TurningAwayEnds \/ SpotReachesPeak \/ KernelTimeout \/ UNCHANGED lhbmVars
    BY <2>3 DEF VsyncConfirms, TurningAwayEnds, SpotReachesPeak, KernelTimeout
  <2>4. CASE (\E enable \in BOOLEAN : SetLhbmState(enable)) \/ WaitForPowerOn \/ CheckStatus \/ WaitForLhbmOff
             \/ EnableError \/ SetLhbmDisplayConfig \/ NoLhbmConfig \/ Restore \/ RestoreAfterError
    BY <2>4 DEF SetLhbmState, WaitForPowerOn, CheckStatus, WaitForLhbmOff, EnableError, SetLhbmDisplayConfig,
       NoLhbmConfig, Restore, RestoreAfterError, GoTo
  <2>5. CASE WaitForPeakRate \/ WaitForLhbmOn \/ WaitForPeakBrightness
    BY <2>5 DEF WaitForPeakRate, WaitForLhbmOn, WaitForPeakBrightness, LhbmVote, GoTo, LhbmTypeInv
  <2>6. CASE PutOut \/ SpotIsLit \/ CheckPower
    BY <2>6 DEF PutOut, SpotIsLit, CheckPower, GoTo, LhbmTypeInv
  <2> QED
    BY <2>1, <2>2, <2>3, <2>4, <2>5, <2>6 DEF LhbmNext, SensorCall
<1>3. LitInv => LhbmOffWithDisplay
  BY DEF LitInv, LhbmOffWithDisplay, At
<1> QED  BY <1>1, <1>2, <1>3, LhbmTypeCorrect, PTL DEF LhbmSpec

(* A request that is not confirmed yet is one of those the client may get; *)
(* and if what is kept for later is what the panel shows already, so that  *)
(* restoring keeps what is active, then that is one of them as well.       *)
KeptInv ==
  /\ ClientConfigKept
  /\ configRequest.state # "done" => configRequest.desired \in asked
  /\ cfg.pending # NoConfig /\ cfg.pending = cfg.set => cfg.active \in asked

LEMMA KeptStep ==
  ASSUME LhbmAssumption, ~ModeSetsFail, LhbmTypeInv, KeptInv, [LhbmNext]_lhbmVars
  PROVE  KeptInv'
<1> USE DEF KeptInv, ClientConfigKept, Reported
<1>1. ASSUME NEW config \in LhbmConfigs, RequestConfig(config)
      PROVE  KeptInv'
  <2>1. asked' = {config} \union StillOpen(config)
    BY <1>1 DEF RequestConfig
  <2>2. /\ cfg'.pending = IF turnedAway THEN config ELSE cfg.pending
        /\ cfg'.active = IF Replaces(config) THEN config ELSE cfg.active
        /\ cfg'.set = cfg.set
        /\ configRequest' = IF Replaces(config) THEN [state |-> "pending", desired |-> config] ELSE configRequest
    BY <1>1 DEF RequestConfig, LhbmTypeInv
  <2> QED  BY <2>1, <2>2 DEF StillOpen, Replaces, LhbmTypeInv, LhbmAssumption
<1>2. ASSUME NEW due \in BOOLEAN, PresentFrame(due)
      PROVE  KeptInv'
  <2>1. cfg' \in {cfg, HandedOver(cfg)} /\ UNCHANGED asked
    BY <1>2 DEF PresentFrame
  <2>2. configRequest'.desired = configRequest.desired /\ (configRequest'.state # "done" => configRequest.state # "done")
    BY <1>2 DEF PresentFrame, LhbmTypeInv
  <2>3. \/ cfg' = cfg
        \/ configRequest.state # "done" /\ cfg'.active = configRequest.desired
           /\ cfg'.pending \in {cfg.pending, configRequest.desired}
    BY <2>1, HandedOverFacts
  <2> QED  BY <2>1, <2>2, <2>3
<1>3. CASE SetPowerOn
  <2> DEFINE c == [cfg EXCEPT !.pending = NoConfig]
  <2>1. Reported(cfg) \in LhbmConfigs /\ c.pending = NoConfig /\ SetForced(Reported(cfg), c) /\ UNCHANGED asked
    BY <1>3 DEF SetPowerOn, LhbmTypeInv
  <2> HIDE DEF c
  <2>2. /\ cfg'.active = Reported(cfg) /\ cfg'.pending = NoConfig
        /\ configRequest'.desired = configRequest.desired
        /\ configRequest'.state # "done" => configRequest.state = configRequest'.state
    BY <2>1, ForcedFacts
  <2> QED  BY <2>1, <2>2
<1>4. CASE SetLhbmDisplayConfig
  <2>1. UNCHANGED asked
    BY <1>4 DEF SetLhbmDisplayConfig
  <2> DEFINE k == KeepForLater(cfg)
  <2>2. /\ k.active = cfg.active /\ k.set = cfg.set /\ k.pending \in LhbmConfigs \union {NoConfig}
        /\ k.pending = IF cfg.pending = NoConfig /\ cfg.active # Peak THEN cfg.active ELSE cfg.pending
    BY KeepFacts
  <2>3. \/ cfg.set # Peak /\ SetForced(Peak, k)
        \/ cfg.set = Peak /\ cfg' = k /\ UNCHANGED configRequest
    BY <1>4 DEF SetLhbmDisplayConfig
  <2> HIDE DEF k
  <2>4. CASE cfg.set # Peak /\ SetForced(Peak, k)
    <3>1. /\ cfg'.active = Peak /\ cfg'.pending = k.pending /\ cfg'.set = Peak
          /\ configRequest'.desired = configRequest.desired
          /\ configRequest'.state # "done" => configRequest.state = configRequest'.state
      BY <2>2, <2>4, ForcedFacts DEF LhbmAssumption
    <3> QED  BY <2>1, <2>2, <3>1 DEF LhbmAssumption, LhbmTypeInv
  <2>5. CASE cfg.set = Peak /\ cfg' = k /\ UNCHANGED configRequest
    BY <2>1, <2>2, <2>5 DEF LhbmAssumption, LhbmTypeInv
  <2> QED  BY <2>3, <2>4, <2>5
<1>5. CASE Restore \/ RestoreAfterError
  <2>1. Restored /\ UNCHANGED asked
    BY <1>5 DEF Restore, RestoreAfterError
  <2> QED  BY <2>1, RestoredFacts DEF LhbmTypeInv
<1>6. CASE VsyncConfirms
  BY <1>6 DEF VsyncConfirms, LhbmTypeInv
<1>7. CASE SetPowerOff \/ ForgetLhbm \/ SetPowerDoze \/ TurningAwayEnds \/ SpotReachesPeak \/ KernelTimeout
           \/ NoLhbmConfig \/ UNCHANGED lhbmVars
  BY <1>7 DEF SetPowerOff, ForgetLhbm, SetPowerDoze, TurningAwayEnds, SpotReachesPeak, KernelTimeout,
     NoLhbmConfig, LhbmTypeInv, LhbmAssumption
<1>8. CASE (\E enable \in BOOLEAN : SetLhbmState(enable)) \/ WaitForPowerOn \/ CheckStatus \/ WaitForLhbmOff
           \/ EnableError \/ WaitForPeakRate \/ WaitForLhbmOn \/ WaitForPeakBrightness \/ PutOut \/ SpotIsLit
           \/ CheckPower
  BY <1>8 DEF SetLhbmState, WaitForPowerOn, CheckStatus, WaitForLhbmOff, EnableError, WaitForPeakRate,
     WaitForLhbmOn, WaitForPeakBrightness, PutOut, SpotIsLit, CheckPower
<1> QED
  BY <1>1, <1>2, <1>3, <1>4, <1>5, <1>6, <1>7, <1>8 DEF LhbmNext, SensorCall

(* Through enabling and disabling, failures, timeouts and power changes,   *)
(* the configuration the display reports is the client's last accepted one *)
(* or one the code still held open then, as long as the commit of a forced *)
(* mode does not fail: setActiveConfig reports success for one that did.   *)
THEOREM TheClientKeepsItsConfig ==
  ASSUME ~ModeSetsFail
  PROVE  LhbmSpec => []ClientConfigKept
<1>1. LhbmInit => KeptInv
  BY LhbmAssumption DEF LhbmInit, KeptInv, ClientConfigKept, Reported
<1>2. LhbmTypeInv /\ KeptInv /\ [LhbmNext]_lhbmVars => KeptInv'
  BY KeptStep, LhbmAssumption
<1>3. KeptInv => ClientConfigKept
  BY DEF KeptInv
<1> QED  BY <1>1, <1>2, <1>3, LhbmTypeCorrect, PTL DEF LhbmSpec

-----------------------------------------------------------------------------
(* Dynamic recomposition.                                                  *)

ThreadStatus == [pc : {"created", "loop", "waiting", "checking", "leaving", "ended"},
                 joinable : BOOLEAN, alive : BOOLEAN, loop : BOOLEAN,
                 replaced : {"none", "created"}]

DisplayStatus == [enabled : BOOLEAN, client : BOOLEAN, heavy : BOOLEAN, fast : BOOLEAN,
                  started : BOOLEAN, settled : BOOLEAN, idle : BOOLEAN, events : 0..2,
                  calls : 0..2, untouched : BOOLEAN,
                  turn : {"none", "test", "choose", "reset", "ask"},
                  refresh : BOOLEAN, overtaken : BOOLEAN]

(* The flags of the thread tell where it is, and it is told to stop only   *)
(* by someone who then joins it.                                           *)
ThreadInv ==
    /\ thread \in ThreadStatus
    /\ owner \in {"free", "joining"} \union DrDisplays
    /\ thread.pc = "created" => ~thread.alive /\ thread.joinable /\ thread.loop
    /\ thread.pc \in {"loop", "waiting", "checking", "leaving"} => thread.alive /\ thread.joinable
    /\ thread.pc = "ended" => ~thread.alive
    /\ owner # "joining" => (IF thread.pc = "ended" THEN ~thread.joinable ELSE thread.loop)
                            /\ thread.pc # "leaving"
    /\ owner = "joining" => thread.joinable

(* From its choice until the frame it asks for, what the thread saw still  *)
(* holds, if no validation overtakes it.                                   *)
Chose(r) == (r.refresh \/ r.turn \in {"reset", "ask"}) /\ ~r.overtaken

RefreshReasons(r) ==
    /\ r.turn \in {"reset", "ask"} => ~r.refresh
    /\ Chose(r) => /\ r.client /\ r.started /\ r.heavy /\ ~r.fast /\ r.calls = 0
                   /\ r.turn # "reset" => r.events = 0

DisplaysInv == /\ dr \in [DrDisplays -> DisplayStatus]
               /\ \A d \in DrDisplays : RefreshReasons(dr[d]) /\ (owner = d => ~Chose(dr[d]))

DrIInv == ThreadInv /\ DisplaysInv

-----------------------------------------------------------------------------
LEMMA TimesStatus ==
    ASSUME NEW r \in DisplayStatus, NEW b \in BOOLEAN
    PROVE  [r EXCEPT !.calls = 0, !.settled = b] \in DisplayStatus
<1> DEFINE a == [r EXCEPT !.calls = 0]
<1>1. a \in DisplayStatus
  BY DEF DisplayStatus
<1>2. [a EXCEPT !.settled = b] \in DisplayStatus
  <2> HIDE DEF a
  <2> QED BY <1>1 DEF DisplayStatus
<1>3. [r EXCEPT !.calls = 0, !.settled = b] = [a EXCEPT !.settled = b]
  BY DEF DisplayStatus
<1> QED BY <1>2, <1>3

\* The choice leaves all but the mode, the counter of calls and the times alone.
LEMMA CheckModeStatus ==
    ASSUME NEW r \in DisplayStatus
    PROVE  LET c == CheckMode(r) IN
           /\ c \in DisplayStatus
           /\ c.refresh = r.refresh /\ c.events = r.events /\ c.heavy = r.heavy
           /\ c.fast = r.fast /\ c.enabled = r.enabled
           /\ c.turn = r.turn /\ c.overtaken = r.overtaken
           /\ RefreshReasons(r) => RefreshReasons(c)
           /\ c.client /\ ~r.client => c.started /\ c.heavy /\ ~c.fast /\ c.calls = 0
<1> DEFINE firstUpdate == r.events # 1 /\ r.client /\ r.calls = 1
           low == ~firstUpdate /\ ~r.fast
           away == [r EXCEPT !.client = FALSE]
<1>1. low \in BOOLEAN
  BY Zenon
<1>2. CASE ~r.started
  <2>1. CheckMode(r) = [away EXCEPT !.started = TRUE, !.settled = r.idle]
    BY <1>2 DEF CheckMode, SwitchMode
  <2> QED BY <1>2, <2>1 DEF DisplayStatus, RefreshReasons, Chose
<1>3. CASE r.started /\ ~r.heavy
  <2>1. CASE r.client
    <3>1. CheckMode(r) = [away EXCEPT !.calls = 0, !.settled = r.idle]
      BY <1>3, <2>1 DEF CheckMode, SwitchMode
    <3>2. CheckMode(r) \in DisplayStatus
      <4>1. away \in DisplayStatus /\ r.idle \in BOOLEAN
        BY DEF DisplayStatus
      <4> HIDE DEF away
      <4> QED BY <3>1, <4>1, TimesStatus
    <3>3. RefreshReasons(r) => ~Chose(r)
      BY <1>3 DEF RefreshReasons
    <3> QED BY <3>1, <3>2, <3>3 DEF DisplayStatus, RefreshReasons, Chose
  <2>2. CASE ~r.client
    <3>1. CheckMode(r) = r
      BY <1>3, <2>2 DEF CheckMode, SwitchMode
    <3> QED BY <2>2, <3>1
  <2> QED BY <2>1, <2>2
<1>4. CASE r.started /\ r.heavy /\ ~r.client /\ ~r.settled
  <2>1. CheckMode(r) = r
    BY <1>4 DEF CheckMode, SwitchMode
  <2> QED BY <1>4, <2>1
<1>5. CASE r.started /\ r.heavy /\ (r.client \/ r.settled)
  <2>1. CheckMode(r) = [[r EXCEPT !.client = low] EXCEPT !.calls = 0, !.settled = r.idle]
    BY <1>5 DEF CheckMode, SwitchMode
  <2> DEFINE l == low
  <2>2. l \in BOOLEAN /\ CheckMode(r) = [[r EXCEPT !.client = l] EXCEPT !.calls = 0, !.settled = r.idle]
    BY <1>1, <2>1
  <2>3. /\ l => ~r.fast
        /\ r.calls = 0 /\ ~r.fast => l
    OBVIOUS
  <2> DEFINE a == [r EXCEPT !.client = l]
  <2> HIDE DEF l
  <2>4. a \in DisplayStatus /\ a.client = l /\ a.refresh = r.refresh /\ a.events = r.events
        /\ a.heavy = r.heavy /\ a.fast = r.fast /\ a.enabled = r.enabled
        /\ a.started = r.started /\ a.turn = r.turn /\ a.overtaken = r.overtaken
    BY <2>2 DEF DisplayStatus
  <2>5. CheckMode(r) = [a EXCEPT !.calls = 0, !.settled = r.idle] /\ r.idle \in BOOLEAN
    BY <2>2 DEF DisplayStatus
  <2> HIDE DEF a
  <2>6. LET c == CheckMode(r) IN
        /\ c \in DisplayStatus /\ c.client = a.client /\ c.refresh = a.refresh
        /\ c.events = a.events /\ c.heavy = a.heavy /\ c.fast = a.fast
        /\ c.enabled = a.enabled /\ c.started = a.started /\ c.calls = 0
        /\ c.turn = a.turn /\ c.overtaken = a.overtaken
    <3>1. CheckMode(r) \in DisplayStatus
      BY <2>4, <2>5, TimesStatus
    <3> QED BY <2>4, <2>5, <3>1 DEF DisplayStatus
  <2> QED BY <1>5, <2>3, <2>4, <2>6 DEF RefreshReasons, Chose
<1> QED BY <1>2, <1>3, <1>4, <1>5

LEMMA CountedStatus ==
    ASSUME NEW r \in DisplayStatus
    PROVE  LET c == Counted(r) IN
           /\ c \in DisplayStatus /\ RefreshReasons(c) /\ ~Chose(c)
           /\ c.events = Upto2(r.events) /\ c.calls = Upto2(r.calls)
           /\ c.client = r.client /\ c.started = r.started /\ c.heavy = r.heavy /\ c.fast = r.fast
<1> DEFINE e == Upto2(r.events)
           n == Upto2(r.calls)
           o == r.turn \in {"reset", "ask"}
<1>1. e \in 0..2 /\ n \in 0..2 /\ o \in BOOLEAN
  BY DEF DisplayStatus, Upto2
<1>2. Counted(r) = [r EXCEPT !.events = e, !.calls = n, !.idle = FALSE, !.untouched = FALSE,
                             !.refresh = FALSE, !.overtaken = o]
  BY DEF Counted, DisplayStatus
<1>3. (r.turn \in {"reset", "ask"}) = o
  OBVIOUS
<1> HIDE DEF e, n, o
<1> DEFINE c == Counted(r)
<1>4. c.events = e /\ c.calls = n /\ c.idle = FALSE /\ c.untouched = FALSE /\ c.refresh = FALSE
      /\ c.overtaken = o /\ c.turn = r.turn
      /\ c.client = r.client /\ c.started = r.started /\ c.heavy = r.heavy /\ c.fast = r.fast
  BY <1>2 DEF DisplayStatus
<1>5. c \in DisplayStatus
  BY <1>1, <1>2 DEF DisplayStatus
<1>6. RefreshReasons(c) /\ ~Chose(c)
  BY <1>3, <1>4 DEF RefreshReasons, Chose
<1> QED BY <1>4, <1>5, <1>6 DEF e, n

\* The thread's own choice.
LEMMA ChosenStatus ==
    ASSUME NEW r \in DisplayStatus, RefreshReasons(r), NEW v \in BOOLEAN, v => ~Chose(r)
    PROVE  /\ Chosen(r, v) \in DisplayStatus /\ RefreshReasons(Chosen(r, v))
           /\ v => ~Chose(Chosen(r, v))
<1> DEFINE c == CheckMode(r)
           x == [c EXCEPT !.turn = "reset", !.refresh = FALSE, !.overtaken = v]
           y == [c EXCEPT !.turn = "none"]
<1>1. /\ c \in DisplayStatus /\ RefreshReasons(c)
      /\ c.refresh = r.refresh /\ c.overtaken = r.overtaken
      /\ c.client /\ ~r.client => c.started /\ c.heavy /\ ~c.fast /\ c.calls = 0
  BY CheckModeStatus
<1>2. CASE c.client /\ ~r.client
  <2>1. Chosen(r, v) = x
    BY <1>2 DEF Chosen
  <2> HIDE DEF c
  <2>2. /\ x \in DisplayStatus /\ x.client = c.client /\ x.started = c.started /\ x.heavy = c.heavy
        /\ x.fast = c.fast /\ x.calls = c.calls /\ x.turn = "reset" /\ x.refresh = FALSE
        /\ x.overtaken = v
    BY <1>1 DEF DisplayStatus
  <2> HIDE DEF x
  <2> QED BY <1>1, <1>2, <2>1, <2>2 DEF RefreshReasons, Chose
<1>3. CASE ~(c.client /\ ~r.client)
  <2>1. Chosen(r, v) = y
    BY <1>3 DEF Chosen
  <2>2. r.refresh /\ ~r.overtaken => Chose(r)
    BY DEF Chose
  <2> HIDE DEF c
  <2>3. /\ y \in DisplayStatus /\ y.client = c.client /\ y.started = c.started /\ y.heavy = c.heavy
        /\ y.fast = c.fast /\ y.calls = c.calls /\ y.turn = "none" /\ y.refresh = c.refresh
        /\ y.overtaken = c.overtaken /\ y.events = c.events
    BY <1>1 DEF DisplayStatus
  <2> HIDE DEF y
  <2>4. RefreshReasons(y)
    BY <1>1, <2>3 DEF RefreshReasons, Chose
  <2>5. v => ~Chose(y)
    BY <1>1, <2>2, <2>3 DEF Chose
  <2> QED BY <2>1, <2>3, <2>4, <2>5
<1> QED BY <1>2, <1>3

-----------------------------------------------------------------------------
LEMMA InitDrIInv == DrInit => DrIInv
BY DEF DrInit, DrIInv, ThreadInv, DisplaysInv, ThreadStatus, DisplayStatus, RefreshReasons, Chose

\* A thread is created when there is none, or one that has not started.
LEMMA CreateThreadInv ==
    ASSUME ThreadInv, thread.pc \in {"created", "ended"}, owner # "joining",
           owner' \in {"free"} \union DrDisplays, owner' # "joining", CreateThread
    PROVE  ThreadInv'
<1>1. thread' = [thread EXCEPT !.pc = "created", !.joinable = TRUE, !.loop = TRUE,
                               !.replaced = IF thread.joinable THEN thread.pc ELSE thread.replaced]
  BY DEF CreateThread, ThreadInv, ThreadStatus
<1>2. thread.joinable => thread.pc = "created"
  BY DEF ThreadInv
<1>3. (IF thread.joinable THEN thread.pc ELSE thread.replaced) \in {"none", "created"}
  BY <1>2 DEF ThreadInv, ThreadStatus
<1> QED BY <1>1, <1>3 DEF ThreadInv, ThreadStatus

\* A step that touches one display, and no one begins or ends a validation.
LEMMA OneDisplay ==
    ASSUME DisplaysInv, NEW d \in DrDisplays, NEW r \in DisplayStatus, RefreshReasons(r),
           dr' = [dr EXCEPT ![d] = r], owner' = d => ~Chose(r),
           \A e \in DrDisplays \ {d} : owner' = e => owner = e
    PROVE  DisplaysInv'
<1>1. dr' \in [DrDisplays -> DisplayStatus]
  BY DEF DisplaysInv
<1>2. ASSUME NEW e \in DrDisplays
      PROVE  RefreshReasons(dr'[e]) /\ (owner' = e => ~Chose(dr'[e]))
  <2>1. CASE e = d
    BY <2>1 DEF DisplaysInv
  <2>2. CASE e # d
    <3>1. dr'[e] = dr[e]
      BY <2>2 DEF DisplaysInv
    <3> QED BY <2>2, <3>1 DEF DisplaysInv
  <2> QED BY <2>1, <2>2
<1> QED BY <1>1, <1>2 DEF DisplaysInv

LEMMA NextDrIInv ==
    ASSUME RecompositionAssumption, DrIInv, [DrNext]_drVars
    PROVE  DrIInv'
<1> USE DEF drVars
<1>1. ASSUME NEW d \in DrDisplays, PowerChanges(d)
      PROVE  DrIInv'
  <2>1. owner = "free" /\ dr[d] \in DisplayStatus /\ RefreshReasons(dr[d]) /\ d # "free" /\ d # "joining"
    BY <1>1 DEF PowerChanges, DrIInv, DisplaysInv, RecompositionAssumption
  <2>2. PICK on \in BOOLEAN : CheckThread(on)
    <3>1. (\E e \in DrDisplays : dr'[e].enabled) \in BOOLEAN
      BY Zenon
    <3> QED BY <1>1, <3>1, Zenon DEF PowerChanges
  <2>3. owner' \in {"free", "joining"}
    BY <2>1, <2>2 DEF CheckThread, StopThread
  <2>4. DisplaysInv'
    <3> DEFINE b == ~dr[d].enabled
               r == [dr[d] EXCEPT !.enabled = b]
    <3>1. dr' = [dr EXCEPT ![d] = r]
      BY <1>1 DEF PowerChanges, DrIInv, DisplaysInv
    <3>2. b \in BOOLEAN
      OBVIOUS
    <3> HIDE DEF b
    <3>3. r \in DisplayStatus /\ RefreshReasons(r)
      BY <2>1, <3>2 DEF DisplayStatus, RefreshReasons, Chose
    <3> HIDE DEF r
    <3>4. \A e \in DrDisplays : owner' # e
      BY <2>3 DEF RecompositionAssumption
    <3> QED BY <3>1, <3>3, <3>4, OneDisplay DEF DrIInv
  <2>5. CASE ~thread.alive /\ on
    <3>1. thread.pc \in {"created", "ended"}
      BY <2>5 DEF DrIInv, ThreadInv, ThreadStatus
    <3>2. CreateThread /\ UNCHANGED owner
      BY <2>2, <2>5 DEF CheckThread
    <3> QED BY <2>1, <2>4, <3>1, <3>2, CreateThreadInv DEF DrIInv
  <2>6. CASE thread.alive /\ ~on
    <3>1. StopThread
      BY <2>2, <2>6 DEF CheckThread
    <3>2. ThreadInv'
      BY <2>1, <2>6, <3>1 DEF StopThread, DrIInv, ThreadInv, ThreadStatus
    <3> QED BY <2>4, <3>2 DEF DrIInv
  <2>7. CASE ~(~thread.alive /\ on) /\ ~(thread.alive /\ ~on)
    <3>1. UNCHANGED <<thread, owner>>
      BY <2>2, <2>7 DEF CheckThread
    <3> QED BY <2>4, <3>1 DEF DrIInv, ThreadInv
  <2> QED BY <2>5, <2>6, <2>7
<1>2. ASSUME NEW d \in DrDisplays, ValidateBegins(d)
      PROVE  DrIInv'
  <2>1. owner = "free" /\ owner' = d /\ UNCHANGED thread /\ d # "joining"
    BY <1>2 DEF ValidateBegins, RecompositionAssumption
  <2>2. ThreadInv'
    BY <2>1 DEF DrIInv, ThreadInv
  <2> DEFINE r == Counted(dr[d])
  <2>3. dr' = [dr EXCEPT ![d] = r] /\ dr[d] \in DisplayStatus
    BY <1>2 DEF ValidateBegins, DrIInv, DisplaysInv
  <2>4. r \in DisplayStatus /\ RefreshReasons(r) /\ ~Chose(r)
    BY <2>3, CountedStatus
  <2> HIDE DEF r
  <2>5. DisplaysInv'
    BY <2>1, <2>3, <2>4, OneDisplay DEF DrIInv
  <2> QED BY <2>2, <2>5 DEF DrIInv
<1>3. ASSUME NEW d \in DrDisplays, ReadLayers(d)
      PROVE  DrIInv'
  <2>1. owner = d /\ UNCHANGED <<thread, owner>>
    BY <1>3 DEF ReadLayers
  <2>2. PICK heavy \in BOOLEAN, fast \in BOOLEAN : dr' = [dr EXCEPT ![d].heavy = heavy, ![d].fast = fast]
    BY <1>3 DEF ReadLayers
  <2> DEFINE r == [dr[d] EXCEPT !.heavy = heavy, !.fast = fast]
  <2>3. dr' = [dr EXCEPT ![d] = r] /\ dr[d] \in DisplayStatus /\ RefreshReasons(dr[d]) /\ ~Chose(dr[d])
    BY <2>1, <2>2 DEF DrIInv, DisplaysInv
  <2>4. r \in DisplayStatus /\ RefreshReasons(r) /\ ~Chose(r)
    BY <2>3 DEF DisplayStatus, RefreshReasons, Chose
  <2> HIDE DEF r
  <2>5. DisplaysInv'
    BY <2>1, <2>3, <2>4, OneDisplay DEF DrIInv
  <2> QED BY <2>1, <2>5 DEF DrIInv, ThreadInv
<1>4. ASSUME NEW d \in DrDisplays, ValidateChecks(d)
      PROVE  DrIInv'
  <2>1. owner = d /\ owner' = "free" /\ d # "joining" /\ \A e \in DrDisplays : owner' # e
    BY <1>4 DEF ValidateChecks, RecompositionAssumption
  <2> DEFINE c == CheckMode(dr[d])
             r == IF dr[d].enabled THEN c ELSE dr[d]
  <2>2. dr' = [dr EXCEPT ![d] = r] /\ dr[d] \in DisplayStatus /\ RefreshReasons(dr[d])
    BY <1>4 DEF ValidateChecks, DrIInv, DisplaysInv
  <2>3. c \in DisplayStatus /\ RefreshReasons(c)
    BY <2>2, CheckModeStatus
  <2>4. r \in DisplayStatus /\ RefreshReasons(r)
    <3> HIDE DEF c
    <3> QED BY <2>2, <2>3
  <2> HIDE DEF r, c
  <2>5. DisplaysInv'
    BY <2>1, <2>2, <2>4, OneDisplay DEF DrIInv
  <2>6. ThreadInv'
    <3>1. CASE dr[d].enabled /\ ~thread.alive /\ ~thread.loop
      <4>1. thread.pc = "ended"
        BY <2>1, <3>1 DEF DrIInv, ThreadInv, ThreadStatus
      <4>2. CreateThread
        BY <1>4, <3>1 DEF ValidateChecks
      <4> QED BY <2>1, <4>1, <4>2, CreateThreadInv DEF DrIInv
    <3>2. CASE ~(dr[d].enabled /\ ~thread.alive /\ ~thread.loop)
      <4>1. UNCHANGED thread
        BY <1>4, <3>2 DEF ValidateChecks
      <4> QED BY <2>1, <4>1 DEF DrIInv, ThreadInv
    <3> QED BY <3>1, <3>2
  <2> QED BY <2>5, <2>6 DEF DrIInv
<1>5. ASSUME NEW d \in DrDisplays, TimePasses(d)
      PROVE  DrIInv'
  <2>1. PICK fast \in {FALSE, dr[d].fast} :
           dr' = [dr EXCEPT ![d].settled = TRUE, ![d].idle = TRUE, ![d].fast = fast]
    BY <1>5 DEF TimePasses
  <2> DEFINE r == [dr[d] EXCEPT !.settled = TRUE, !.idle = TRUE, !.fast = fast]
  <2>2. dr' = [dr EXCEPT ![d] = r] /\ dr[d] \in DisplayStatus /\ RefreshReasons(dr[d])
        /\ (owner = d => ~Chose(dr[d])) /\ UNCHANGED <<thread, owner>>
    BY <1>5, <2>1 DEF TimePasses, DrIInv, DisplaysInv
  <2>3. fast \in BOOLEAN /\ (~dr[d].fast => ~fast)
    BY <2>2 DEF DisplayStatus
  <2>4. r \in DisplayStatus
    BY <2>2, <2>3 DEF DisplayStatus
  <2>5. RefreshReasons(r) /\ (Chose(r) => Chose(dr[d]))
    BY <2>2, <2>3 DEF DisplayStatus, RefreshReasons, Chose
  <2> HIDE DEF r
  <2>6. DisplaysInv'
    BY <2>2, <2>4, <2>5, OneDisplay DEF DrIInv
  <2> QED BY <2>2, <2>6 DEF DrIInv, ThreadInv
<1>6. ASSUME NEW d \in DrDisplays, ThreadTests(d)
      PROVE  DrIInv'
  <2> DEFINE n == IF dr[d].enabled /\ dr[d].untouched THEN "choose" ELSE "none"
             r == [dr[d] EXCEPT !.turn = n]
  <2>1. dr' = [dr EXCEPT ![d] = r] /\ dr[d] \in DisplayStatus /\ RefreshReasons(dr[d])
        /\ (owner = d => ~Chose(dr[d])) /\ UNCHANGED <<thread, owner>> /\ dr[d].turn = "test"
    BY <1>6 DEF ThreadTests, Turns, DrIInv, DisplaysInv
  <2>2. n \in {"choose", "none"}
    OBVIOUS
  <2> HIDE DEF n
  <2>3. r \in DisplayStatus /\ RefreshReasons(r) /\ (Chose(r) => Chose(dr[d]))
    BY <2>1, <2>2 DEF DisplayStatus, RefreshReasons, Chose
  <2> HIDE DEF r
  <2>4. DisplaysInv'
    BY <2>1, <2>3, OneDisplay DEF DrIInv
  <2> QED BY <2>1, <2>4 DEF DrIInv, ThreadInv
<1>7. ASSUME NEW d \in DrDisplays, ThreadChooses(d)
      PROVE  DrIInv'
  <2> DEFINE v == owner = d
             r == Chosen(dr[d], v)
  <2>1. dr' = [dr EXCEPT ![d] = r] /\ dr[d] \in DisplayStatus /\ RefreshReasons(dr[d])
        /\ (v => ~Chose(dr[d])) /\ UNCHANGED <<thread, owner>>
    BY <1>7 DEF ThreadChooses, Turns, DrIInv, DisplaysInv
  <2>2. v \in BOOLEAN /\ (owner' = d => v)
    BY <2>1
  <2> HIDE DEF v
  <2>3. r \in DisplayStatus /\ RefreshReasons(r) /\ (v => ~Chose(r))
    BY <2>1, <2>2, ChosenStatus
  <2> HIDE DEF r
  <2>4. DisplaysInv'
    BY <2>1, <2>2, <2>3, OneDisplay DEF DrIInv
  <2> QED BY <2>1, <2>4 DEF DrIInv, ThreadInv
<1>8. ASSUME NEW d \in DrDisplays, ThreadResets(d)
      PROVE  DrIInv'
  <2>1. PICK events \in {0} \union (IF owner = d THEN {dr[d].events} ELSE {}) :
           dr' = [dr EXCEPT ![d].events = events, ![d].turn = "ask"]
    BY <1>8 DEF ThreadResets
  <2> DEFINE r == [dr[d] EXCEPT !.events = events, !.turn = "ask"]
  <2>2. dr' = [dr EXCEPT ![d] = r] /\ dr[d] \in DisplayStatus /\ RefreshReasons(dr[d])
        /\ (owner = d => ~Chose(dr[d])) /\ UNCHANGED <<thread, owner>> /\ dr[d].turn = "reset"
    BY <1>8, <2>1 DEF ThreadResets, Turns, DrIInv, DisplaysInv
  <2>3. events \in 0..2 /\ (Chose(dr[d]) => events = 0)
    BY <2>2 DEF DisplayStatus
  <2>4. r \in DisplayStatus
    BY <2>2, <2>3 DEF DisplayStatus
  <2>5. RefreshReasons(r) /\ (Chose(r) => Chose(dr[d]))
    BY <2>2, <2>3 DEF DisplayStatus, RefreshReasons, Chose
  <2> HIDE DEF r
  <2>6. DisplaysInv'
    BY <2>2, <2>4, <2>5, OneDisplay DEF DrIInv
  <2> QED BY <2>2, <2>6 DEF DrIInv, ThreadInv
<1>9. ASSUME NEW d \in DrDisplays, ThreadAsks(d)
      PROVE  DrIInv'
  <2> DEFINE r == [dr[d] EXCEPT !.refresh = TRUE, !.turn = "none"]
  <2>1. dr' = [dr EXCEPT ![d] = r] /\ dr[d] \in DisplayStatus /\ RefreshReasons(dr[d])
        /\ (owner = d => ~Chose(dr[d])) /\ UNCHANGED <<thread, owner>> /\ dr[d].turn = "ask"
    BY <1>9 DEF ThreadAsks, Turns, DrIInv, DisplaysInv
  <2>2. r \in DisplayStatus /\ RefreshReasons(r) /\ (Chose(r) => Chose(dr[d]))
    BY <2>1 DEF DisplayStatus, RefreshReasons, Chose
  <2> HIDE DEF r
  <2>3. DisplaysInv'
    BY <2>1, <2>2, OneDisplay DEF DrIInv
  <2> QED BY <2>1, <2>3 DEF DrIInv, ThreadInv
<1>10. CASE JoinEnds
  <2>1. ThreadInv'
    BY <1>10 DEF JoinEnds, DrIInv, ThreadInv, ThreadStatus
  <2>2. DisplaysInv'
    BY <1>10 DEF JoinEnds, DrIInv, DisplaysInv, RecompositionAssumption
  <2> QED BY <2>1, <2>2 DEF DrIInv
<1>11. CASE ThreadStarts
  BY <1>11 DEF ThreadStarts, DrIInv, ThreadInv, DisplaysInv, ThreadStatus
<1>12. CASE ThreadLoops
  <2>1. ThreadInv'
    BY <1>12 DEF ThreadLoops, DrIInv, ThreadInv, ThreadStatus
  <2>2. DisplaysInv'
    <3>1. \A r \in DisplayStatus : [r EXCEPT !.untouched = TRUE] \in DisplayStatus
      BY DEF DisplayStatus
    <3>2. \A r \in DisplayStatus :
             /\ RefreshReasons(r) => RefreshReasons([r EXCEPT !.untouched = TRUE])
             /\ Chose([r EXCEPT !.untouched = TRUE]) => Chose(r)
      BY DEF DisplayStatus, RefreshReasons, Chose
    <3> QED BY <1>12, <3>1, <3>2 DEF ThreadLoops, DrIInv, DisplaysInv
  <2> QED BY <2>1, <2>2 DEF DrIInv
<1>13. CASE ThreadWakes
  <2>1. ThreadInv'
    BY <1>13 DEF ThreadWakes, DrIInv, ThreadInv, ThreadStatus
  <2>2. DisplaysInv'
    <3>1. \A r \in DisplayStatus : [r EXCEPT !.turn = "test"] \in DisplayStatus
      BY DEF DisplayStatus
    <3>2. \A r \in DisplayStatus :
             /\ RefreshReasons(r) => RefreshReasons([r EXCEPT !.turn = "test"])
             /\ Chose([r EXCEPT !.turn = "test"]) => Chose(r)
      <4> SUFFICES ASSUME NEW r \in DisplayStatus
                   PROVE  /\ RefreshReasons(r) => RefreshReasons([r EXCEPT !.turn = "test"])
                          /\ Chose([r EXCEPT !.turn = "test"]) => Chose(r)
        OBVIOUS
      <4> DEFINE x == [r EXCEPT !.turn = "test"]
      <4>1. /\ x.turn = "test" /\ x.refresh = r.refresh /\ x.overtaken = r.overtaken
            /\ x.client = r.client /\ x.started = r.started /\ x.heavy = r.heavy /\ x.fast = r.fast
            /\ x.calls = r.calls /\ x.events = r.events
        BY DEF DisplayStatus
      <4> HIDE DEF x
      <4>2. /\ RefreshReasons(r) => RefreshReasons(x)
            /\ Chose(x) => Chose(r)
        BY <4>1 DEF RefreshReasons, Chose
      <4> QED BY <4>2 DEF x
    <3> QED BY <1>13, <3>1, <3>2 DEF ThreadWakes, DrIInv, DisplaysInv
  <2> QED BY <2>1, <2>2 DEF DrIInv
<1>14. CASE RoundEnds \/ ThreadLeaves
  BY <1>14 DEF RoundEnds, ThreadLeaves, DrIInv, ThreadInv, DisplaysInv, ThreadStatus
<1>15. CASE UNCHANGED drVars
  BY <1>15 DEF DrIInv, ThreadInv, DisplaysInv
<1> QED BY <1>1, <1>2, <1>3, <1>4, <1>5, <1>6, <1>7, <1>8, <1>9, <1>10, <1>11, <1>12, <1>13, <1>14, <1>15
        DEF DrNext, ThreadChecks

\* With the same reasons the validation of the frame comes to the same choice.
LEMMA DrIInvSuffices == DrIInv => RecompositionIsSafe
<1> SUFFICES ASSUME DrIInv PROVE RecompositionIsSafe OBVIOUS
<1>1. ThreadIsOwned
  BY DEF DrIInv, ThreadInv, ThreadStatus, ThreadIsOwned
<1>2. ASSUME NEW d \in DrDisplays, dr[d].refresh, ~dr[d].overtaken
      PROVE  dr[d].client /\ Revalidated(dr[d]).client
  <2> DEFINE r == dr[d]
             v == Counted(r)
  <2>1. r \in DisplayStatus /\ r.client /\ r.started /\ r.heavy /\ ~r.fast /\ r.events = 0
    BY <1>2 DEF DrIInv, DisplaysInv, RefreshReasons, Chose
  <2>2. v \in DisplayStatus /\ v.started /\ v.heavy /\ v.client /\ ~v.fast /\ v.events = 1
    <3> HIDE DEF r
    <3>1. v \in DisplayStatus /\ v.started = r.started /\ v.heavy = r.heavy /\ v.client = r.client
          /\ v.fast = r.fast /\ v.events = Upto2(r.events)
      BY <2>1, CountedStatus
    <3>2. v.events = 1
      <4>1. r.events = 0
        BY <2>1, Zenon
      <4> QED BY <3>1, <4>1 DEF Upto2
    <3> QED BY <2>1, <3>1, <3>2, Zenon
  <2>3. CheckMode(v).client
    <3> HIDE DEF v
    <3> QED BY <2>2 DEF CheckMode, SwitchMode, DisplayStatus
  <2> QED BY <2>1, <2>3 DEF Revalidated
<1> QED BY <1>1, <1>2 DEF RecompositionIsSafe, RefreshKeepsTheChoice

(* checkDynamicRecompositionThread and validateDisplay replace only a      *)
(* thread that has not started, and forget none; and the frame the thread  *)
(* asks for after it chose the client composition keeps that choice,       *)
(* unless a validation was counted, or under way, between the choice and   *)
(* the request, which no lock prevents.                                    *)
THEOREM RecompositionStaysSafe == DrSpec => []RecompositionIsSafe
<1>1. DrInit => DrIInv
  BY InitDrIInv
<1>2. DrIInv /\ [DrNext]_drVars => DrIInv'
  BY NextDrIInv, RecompositionAssumption
<1>3. DrIInv => RecompositionIsSafe
  BY DrIInvSuffices
<1> QED BY <1>1, <1>2, <1>3, PTL DEF DrSpec

-----------------------------------------------------------------------------
(* The planes that two panels share.                                       *)

\* Each of the panels has channels reserved for it.
EachHasChannels == \A side \in {"main", "minor"} : \E c \in Channels : ReservedTo[c] = side

LEMMA TwoPanels ==
  ASSUME NEW p \in Panels, NEW q \in Panels, NEW r \in Panels
  PROVE  p = q \/ p = r \/ q = r
<1>1. SUFFICES ASSUME p # q, p # r, q # r PROVE FALSE
  OBVIOUS
<1>2. IsFiniteSet({p}) /\ Cardinality({p}) = 1
  BY FS_Singleton
<1>3. IsFiniteSet({p, q}) /\ Cardinality({p, q}) = 2
  <2>1. {p, q} = {p} \cup {q} /\ q \notin {p}
    BY <1>1
  <2> QED BY <2>1, <1>2, FS_AddElement
<1>4. IsFiniteSet({p, q, r}) /\ Cardinality({p, q, r}) = 3
  <2>1. {p, q, r} = {p, q} \cup {r} /\ r \notin {p, q}
    BY <1>1
  <2> QED BY <2>1, <1>3, FS_AddElement
<1>5. Cardinality({p, q, r}) <= Cardinality(Panels) /\ Cardinality(Panels) \in Nat
  BY HandoverAssumption, FS_Subset, FS_CardinalityType
<1> QED BY <1>4, <1>5, HandoverAssumption

(* Panels that are two have the cardinality that decideMainAndMinorDisplay *)
(* asks for.                                                               *)
LEMMA MinorFacts ==
  ASSUME NEW A \in SUBSET Panels, A # {}
  PROVE  /\ MainOf(A) \in A
         /\ MinorOf(A) \in A
         /\ \A p, q \in A : p # q => MainOf(A) # MinorOf(A)
<1>1. MainOf(A) \in A
  BY DEF MainOf
<1>2. IsFiniteSet(A)
  BY HandoverAssumption, FS_Subset
<1>3. CASE \E p, q \in A : p # q
  <2>1. PICK p \in A, q \in A : p # q
    BY <1>3
  <2>2. A = {p} \cup {q} /\ q \notin {p}
    BY <2>1, TwoPanels
  <2>3. Cardinality(A) = 2
    <3>1. IsFiniteSet({p}) /\ Cardinality({p}) = 1
      BY FS_Singleton
    <3> QED BY <2>2, <3>1, FS_AddElement
  <2>4. FirstPanel \in A
    BY <2>1, TwoPanels, HandoverAssumption
  <2>5. \E x \in A : x # FirstPanel
    BY <2>1
  <2>6. MinorOf(A) \in A /\ MinorOf(A) # FirstPanel
    BY <2>3, <2>5 DEF MinorOf
  <2> QED BY <1>1, <2>4, <2>6 DEF MainOf
<1>4. CASE \A p, q \in A : p = q
  <2>1. PICK p : p \in A
    OBVIOUS
  <2>2. A = {p}
    BY <1>4, <2>1
  <2>3. Cardinality(A) = 1
    BY <2>2, FS_Singleton
  <2> QED BY <1>1, <1>4, <2>3 DEF MinorOf
<1> QED BY <1>3, <1>4

\* Whom the channels are for, of the panels A that are on.
LEMMA ListFacts ==
  ASSUME NEW A \in SUBSET Panels, A # {}
  PROVE  /\ UpdatedList(A) \in [Channels -> A]
         /\ EachHasChannels => \A p \in A : \E c \in Channels : UpdatedList(A)[c] = p
<1>1. UpdatedList(A) = [c \in Channels |->
                          IF ReservedTo[c] = "main" THEN MainOf(A) ELSE MinorOf(A)]
  BY DEF UpdatedList
<1>2. UpdatedList(A) \in [Channels -> A]
  BY <1>1, MinorFacts
<1>3. ASSUME EachHasChannels, NEW p \in A PROVE \E c \in Channels : UpdatedList(A)[c] = p
  <2>1. p = MainOf(A) \/ p = MinorOf(A)
    BY MinorFacts, TwoPanels
  <2>2. PICK c \in Channels : ReservedTo[c] = "main"
    BY <1>3 DEF EachHasChannels
  <2>3. PICK d \in Channels : ReservedTo[d] = "minor"
    BY <1>3 DEF EachHasChannels
  <2>4. UpdatedList(A)[c] = MainOf(A) /\ UpdatedList(A)[d] = MinorOf(A)
    BY <1>1, <2>2, <2>3
  <2> QED BY <2>1, <2>4
<1> QED BY <1>2, <1>3

-----------------------------------------------------------------------------
ScreenStatus == [power : {"unset", "on", "off", "doze"},
                 rendering : {"NONE", "VALIDATED", "PRESENTED"}, used : SUBSET Channels]

\* The channels that are p's.
ReservedFor(p) == {c \in Channels : reserved[c] = p}

Settled == "power" \notin changed \/ \E p \in Panels : ~BetweenFrames(p)

(* Every plane is on the crtc of the panel the lists give it to, and is    *)
(* reserved for it, or disabled.                                           *)
PlanesInv ==
  \A c \in Channels : plane[c] # NoPanel =>
     /\ plane[c] \in PoweredPanels
     /\ reserved[c] = plane[c]
     /\ plane[c] = UpdatedList(PoweredPanels)[c]

(* The lists and reservations are those of the panels that are on, once no *)
(* power change is announced any more or a frame has been validated.       *)
ListsInv ==
  Settled /\ PoweredPanels # {} =>
     list = UpdatedList(PoweredPanels) /\ reserved = UpdatedList(PoweredPanels)

(* A panel that may be shown without another assignment has channels, and  *)
(* they are its own.                                                       *)
UsedInv ==
  \A p \in PoweredPanels :
     ~BetweenFrames(p) \/ (changed = {} /\ screen[p].rendering # "NONE") =>
        screen[p].used # {} /\ screen[p].used \subseteq ReservedFor(p)

HandoverInv ==
  /\ screen \in [Panels -> ScreenStatus]
  /\ list \in [Channels -> Panels \cup {NoPanel}]
  /\ reserved \in [Channels -> Panels \cup {NoPanel}]
  /\ plane \in [Channels -> Panels \cup {NoPanel}]
  /\ changed \subseteq {"power", "other"}
  /\ \A p \in Panels : ~BetweenFrames(p) => Powered(p)
  /\ screen[FirstPanel].power = "unset" => PoweredPanels = {}
  /\ PlanesInv
  /\ ListsInv
  /\ UsedInv

LEMMA InitHandoverInv == HandoverInit => HandoverInv
<1> SUFFICES ASSUME HandoverInit PROVE HandoverInv
  OBVIOUS
<1>1. PoweredPanels = {}
  BY DEF HandoverInit, PoweredPanels, Powered
<1>2. screen \in [Panels -> ScreenStatus]
  BY DEF HandoverInit, ScreenStatus
<1>3. PlanesInv /\ ListsInv /\ UsedInv
  BY <1>1 DEF HandoverInit, PlanesInv, ListsInv, UsedInv
<1> QED BY <1>1, <1>2, <1>3 DEF HandoverInv, HandoverInit, BetweenFrames

\* What a power change of p makes of the panels that are on.
LEMMA PowerFacts ==
  ASSUME screen \in [Panels -> ScreenStatus], NEW p \in Panels, NEW mode,
         NEW rendering \in {"NONE", "VALIDATED", "PRESENTED"},
         mode \in {"unset", "on", "off", "doze"},
         screen' = [screen EXCEPT ![p].power = mode, ![p].rendering = rendering]
  PROVE  /\ screen' \in [Panels -> ScreenStatus]
         /\ PoweredPanels' = IF mode \in {"unset", "off"} THEN PoweredPanels \ {p}
                             ELSE PoweredPanels \cup {p}
         /\ screen'[p].rendering = rendering /\ screen'[p].power = mode
         /\ screen'[p].used = screen[p].used
         /\ \A q \in Panels \ {p} : screen'[q] = screen[q]
<1>1. /\ screen' \in [Panels -> ScreenStatus]
      /\ screen'[p].rendering = rendering /\ screen'[p].power = mode
      /\ screen'[p].used = screen[p].used
      /\ \A q \in Panels \ {p} : screen'[q] = screen[q]
  BY DEF ScreenStatus
<1>2. \A q \in Panels : Powered(q)' <=> screen'[q].power \notin {"unset", "off"}
  BY DEF Powered
<1> QED BY <1>1, <1>2 DEF PoweredPanels, Powered

LEMMA OnKeepsHandover ==
  ASSUME HandoverInv, NEW p \in Panels, SetPanelOn(p), ~FramesInterrupted
  PROVE  HandoverInv' /\ NoPlaneIsTaken
<1> DEFINE after == PoweredPanels \cup {p}
<1>1. \A q \in Panels : BetweenFrames(q)
  BY DEF SetPanelOn, MayChangePower
<1>2. screen' = [screen EXCEPT ![p].power = "on", ![p].rendering = screen[p].rendering]
  BY DEF SetPanelOn, HandoverInv, ScreenStatus
<1>3. /\ screen' \in [Panels -> ScreenStatus]
      /\ PoweredPanels' = after
      /\ screen'[p].rendering = screen[p].rendering /\ screen'[p].power = "on"
      /\ \A q \in Panels \ {p} : screen'[q] = screen[q]
  <2>1. screen[p].rendering \in {"NONE", "VALIDATED", "PRESENTED"}
    BY DEF HandoverInv, ScreenStatus
  <2> HIDE DEF after
  <2> QED BY <1>2, <2>1, PowerFacts DEF HandoverInv, after
<1>4. \A q \in Panels : BetweenFrames(q)'
  BY <1>1, <1>3 DEF BetweenFrames
<1>5. after \in SUBSET Panels /\ after # {} /\ PoweredPanels \in SUBSET Panels
  BY DEF PoweredPanels
<1>6. changed' \subseteq {"power", "other"} /\ changed \subseteq changed'
      /\ (p \notin PoweredPanels => "power" \in changed')
  BY DEF SetPanelOn, HandoverInv, FlagUnless, PoweredPanels
<1>b. UpdatedList(PoweredPanels)' = UpdatedList(after)
  <2>1. (PoweredPanels = {})' <=> FALSE
    BY <1>3, <1>5
  <2> QED BY <2>1, <1>3, <1>5 DEF UpdatedList
<1>7. screen'[FirstPanel].power = "unset" => PoweredPanels' = {}
  <2>1. p = FirstPanel \/ screen[FirstPanel].power # "unset"
    BY DEF SetPanelOn
  <2> QED BY <1>3, <2>1, HandoverAssumption
<1>a. UsedInv'
  <2>1. SUFFICES ASSUME NEW q \in PoweredPanels', changed' = {}, screen'[q].rendering # "NONE"
                 PROVE  screen'[q].used # {} /\ screen'[q].used \subseteq ReservedFor(q)'
    BY <1>4, <1>3, <1>5 DEF UsedInv
  <2>2. changed = {} /\ p \in PoweredPanels
    BY <2>1, <1>6
  <2>3. screen[q].rendering # "NONE" /\ screen'[q].used = screen[q].used /\ q \in PoweredPanels
    <3>1. q \in Panels /\ screen'[q].rendering = screen[q].rendering /\ screen'[q].used = screen[q].used
      BY <1>2, <1>3, <1>5 DEF HandoverInv, ScreenStatus
    <3>2. q \in PoweredPanels
      BY <2>2, <1>3
    <3> QED BY <2>1, <3>1, <3>2
  <2>4. screen[q].used # {} /\ screen[q].used \subseteq ReservedFor(q)
    BY <2>2, <2>3 DEF HandoverInv, UsedInv
  <2>5. reserved' = reserved
    <3>1. CASE PoweredPanels \ {p} # {} /\ ~(p = FirstPanel /\ screen[p].power = "unset")
      <4>1. list' = UpdatedList(after) /\ after = PoweredPanels
        BY <3>1, <2>2, <1>5 DEF SetPanelOn, PrepareResources
      <4>2. list' \in [Channels -> after]
        BY <4>1, <1>5, ListFacts
      <4>3. \A c \in Channels : Powered(list'[c]) /\ list'[c] # NoPanel
        BY <4>1, <4>2, HandoverAssumption DEF PoweredPanels
      <4>4. reserved' = list'
        BY <3>1, <4>2, <4>3, <4>1 DEF SetPanelOn, PrepareResources
      <4> QED BY <4>1, <4>4, <2>2 DEF HandoverInv, ListsInv, Settled
    <3> QED BY <3>1 DEF SetPanelOn
  <2> QED BY <2>3, <2>4, <2>5 DEF ReservedFor
<1>8. CASE PoweredPanels \ {p} # {} /\ ~(p = FirstPanel /\ screen[p].power = "unset")
  <2>1. PrepareResources(after, TRUE) /\ plane' = TriggerClearDisplayPlanes(p, reserved')
    BY <1>8 DEF SetPanelOn
  <2>2. list' = UpdatedList(after) /\ list' \in [Channels -> after]
    BY <2>1, <1>5, ListFacts DEF PrepareResources
  <2>3. reserved' = [c \in Channels |-> IF list'[c] \in PoweredPanels THEN list'[c] ELSE NoPanel]
    <3>1. \A c \in Channels : (list'[c] # NoPanel /\ Powered(list'[c])) <=> list'[c] \in PoweredPanels
      BY <2>2, <1>5, HandoverAssumption DEF PoweredPanels
    <3> QED BY <2>1, <2>2, <3>1 DEF PrepareResources
  <2>4. \A c \in Channels : plane'[c] = IF reserved'[c] \in {p, NoPanel} THEN NoPanel ELSE plane[c]
    BY <2>1 DEF TriggerClearDisplayPlanes, Cleared
  <2>5. plane' \in [Channels -> Panels \cup {NoPanel}]
    BY <2>1 DEF TriggerClearDisplayPlanes, HandoverInv
  <2>6. PlanesInv'
    <3>1. SUFFICES ASSUME NEW c \in Channels, plane'[c] # NoPanel
                   PROVE  /\ plane'[c] \in after
                          /\ reserved'[c] = plane'[c]
                          /\ plane'[c] = UpdatedList(after)[c]
      BY <1>3, <1>b DEF PlanesInv
    <3>2. reserved'[c] \notin {p, NoPanel} /\ plane'[c] = plane[c]
      BY <2>4, <3>1
    <3>3. reserved'[c] = list'[c] /\ list'[c] \in PoweredPanels /\ list'[c] # p
      BY <2>3, <3>2
    <3>4. plane[c] \in PoweredPanels /\ plane[c] = UpdatedList(PoweredPanels)[c]
      BY <3>2, <3>1 DEF HandoverInv, PlanesInv
    <3>5. CASE p \in PoweredPanels
      <4>1. after = PoweredPanels
        BY <3>5
      <4> QED BY <3>2, <3>3, <3>4, <2>2, <4>1
    <3>6. CASE p \notin PoweredPanels
      <4>1. plane[c] = list'[c]
        BY <3>3, <3>4, <3>6, <1>5, TwoPanels
      <4> QED BY <3>2, <3>3, <3>4, <2>2, <4>1
    <3> QED BY <3>5, <3>6
  <2>7. ListsInv'
    <3>1. SUFFICES ASSUME Settled' PROVE list' = UpdatedList(after) /\ reserved' = UpdatedList(after)
      BY <1>b DEF ListsInv
    <3>2. p \in PoweredPanels
      BY <3>1, <1>4, <1>6 DEF Settled
    <3>3. after = PoweredPanels
      BY <3>2
    <3> QED BY <3>3, <2>2, <2>3
  <2>8. reserved' \in [Channels -> Panels \cup {NoPanel}] /\ list' \in [Channels -> Panels \cup {NoPanel}]
    BY <2>2, <2>3, <1>5
  <2> QED BY <1>3, <1>4, <1>6, <1>7, <1>a, <2>4, <2>5, <2>6, <2>7, <2>8 DEF HandoverInv, NoPlaneIsTaken
<1>9. CASE ~(PoweredPanels \ {p} # {} /\ ~(p = FirstPanel /\ screen[p].power = "unset"))
  <2>1. UNCHANGED <<list, reserved, plane>>
    BY <1>9 DEF SetPanelOn
  <2>2. PoweredPanels \subseteq {p}
    BY <1>9 DEF HandoverInv
  <2>3. after = {p}
    BY <2>2
  <2>4. PlanesInv'
    <3>1. SUFFICES ASSUME NEW c \in Channels, plane[c] # NoPanel
                   PROVE  plane[c] \in after /\ reserved[c] = plane[c] /\ plane[c] = UpdatedList(after)[c]
      BY <2>1, <1>3, <1>b DEF PlanesInv
    <3>2. plane[c] \in PoweredPanels /\ reserved[c] = plane[c] /\ plane[c] = UpdatedList(PoweredPanels)[c]
      BY <3>1 DEF HandoverInv, PlanesInv
    <3>3. after = PoweredPanels
      BY <2>2, <2>3, <3>2
    <3> QED BY <3>2, <3>3
  <2>5. ListsInv'
    <3>1. SUFFICES ASSUME Settled' PROVE list = UpdatedList(after) /\ reserved = UpdatedList(after)
      BY <2>1, <1>b DEF ListsInv
    <3>2. p \in PoweredPanels /\ "power" \notin changed
      BY <3>1, <1>4, <1>6 DEF Settled
    <3>3. after = PoweredPanels
      BY <3>2
    <3> QED BY <3>2, <3>3, <1>5 DEF HandoverInv, ListsInv, Settled
  <2> QED BY <1>3, <1>4, <1>6, <1>7, <1>a, <2>1, <2>4, <2>5 DEF HandoverInv, NoPlaneIsTaken
<1> QED BY <1>8, <1>9

LEMMA OffKeepsHandover ==
  ASSUME HandoverInv, NEW p \in Panels, SetPanelOff(p), ~FramesInterrupted
  PROVE  HandoverInv' /\ NoPlaneIsTaken
<1> DEFINE after == PoweredPanels \ {p}
<1>1. \A q \in Panels : BetweenFrames(q)
  BY DEF SetPanelOff, MayChangePower
<1>3. /\ screen' \in [Panels -> ScreenStatus]
      /\ PoweredPanels' = after
      /\ screen'[p].rendering = "NONE" /\ screen'[p].power = "off"
      /\ \A q \in Panels \ {p} : screen'[q] = screen[q]
  <2> HIDE DEF after
  <2> QED BY PowerFacts DEF HandoverInv, SetPanelOff, after
<1>4. \A q \in Panels : BetweenFrames(q)'
  BY <1>1, <1>3 DEF BetweenFrames
<1>6. changed' \subseteq {"power", "other"} /\ "power" \in changed'
  BY DEF SetPanelOff, HandoverInv
<1>7. screen'[FirstPanel].power = "unset" => PoweredPanels' = {}
  BY <1>3, HandoverAssumption DEF HandoverInv
<1>8. UsedInv' /\ ListsInv'
  <2>1. ~Settled' /\ changed' # {}
    BY <1>4, <1>6 DEF Settled
  <2>2. PoweredPanels' \subseteq Panels
    BY DEF PoweredPanels
  <2> QED BY <1>4, <2>1, <2>2 DEF UsedInv, ListsInv
<1>9. /\ plane' \in [Channels -> Panels \cup {NoPanel}]
      /\ \A c \in Channels : plane'[c] = IF reserved[c] \in {p, NoPanel} THEN NoPanel ELSE plane[c]
  BY DEF SetPanelOff, Cleared, HandoverInv
<1>10. PlanesInv'
  <2>1. SUFFICES ASSUME NEW c \in Channels, plane'[c] # NoPanel
                 PROVE  plane'[c] \in after /\ reserved[c] = plane'[c] /\ plane'[c] = UpdatedList(PoweredPanels)'[c]
    BY <1>3 DEF PlanesInv, SetPanelOff
  <2>2. plane'[c] = plane[c] /\ reserved[c] # p
    BY <2>1, <1>9
  <2>3. plane[c] \in PoweredPanels /\ reserved[c] = plane[c]
    BY <2>1, <2>2 DEF HandoverInv, PlanesInv
  <2>4. plane[c] \in after /\ after \in SUBSET Panels /\ after # {}
    BY <2>2, <2>3 DEF PoweredPanels
  <2>5. UpdatedList(PoweredPanels)' = UpdatedList(after)
    <3>1. (PoweredPanels = {})' <=> FALSE
      BY <1>3, <2>4
    <3> QED BY <3>1, <1>3 DEF UpdatedList
  <2>6. UpdatedList(after)[c] \in after
    BY <2>4, ListFacts
  <2>7. p \in Panels /\ p \notin after
    OBVIOUS
  <2>8. UpdatedList(after)[c] = plane[c]
    BY <2>4, <2>6, <2>7, TwoPanels
  <2> QED BY <2>2, <2>3, <2>4, <2>5, <2>8
<1> QED BY <1>3, <1>4, <1>6, <1>7, <1>8, <1>9, <1>10 DEF HandoverInv, NoPlaneIsTaken, SetPanelOff

LEMMA DozeKeepsHandover ==
  ASSUME HandoverInv, NEW p \in Panels, SetPanelDoze(p), ~FramesInterrupted, ~DozeFromOff
  PROVE  HandoverInv' /\ NoPlaneIsTaken
<1>1. screen[p].power = "on"
  BY DEF SetPanelDoze
<1>2. screen' = [screen EXCEPT ![p].power = "doze", ![p].rendering = screen[p].rendering]
  BY DEF SetPanelDoze, HandoverInv, ScreenStatus
<1>3. /\ screen' \in [Panels -> ScreenStatus]
      /\ PoweredPanels' = PoweredPanels \cup {p}
      /\ screen'[p].rendering = screen[p].rendering /\ screen'[p].power = "doze"
      /\ screen'[p].used = screen[p].used
      /\ \A q \in Panels \ {p} : screen'[q] = screen[q]
  <2>1. screen[p].rendering \in {"NONE", "VALIDATED", "PRESENTED"}
    BY DEF HandoverInv, ScreenStatus
  <2> QED BY <1>2, <2>1, PowerFacts DEF HandoverInv
<1>4. PoweredPanels' = PoweredPanels
  BY <1>1, <1>3 DEF PoweredPanels, Powered
<1>5. \A q \in Panels : (BetweenFrames(q)' <=> BetweenFrames(q)) /\ (Powered(q)' <=> Powered(q))
  BY <1>1, <1>3 DEF BetweenFrames, Powered
<1>6. UNCHANGED <<list, reserved, plane, changed>>
  BY DEF SetPanelDoze
<1>7. UpdatedList(PoweredPanels)' = UpdatedList(PoweredPanels)
  BY <1>4, <1>6 DEF UpdatedList
<1>8. Settled' <=> Settled
  BY <1>5, <1>6 DEF Settled
<1>9. PlanesInv' /\ ListsInv'
  BY <1>4, <1>6, <1>7, <1>8 DEF HandoverInv, PlanesInv, ListsInv
<1>10. \A q \in Panels : screen'[q].rendering = screen[q].rendering /\ screen'[q].used = screen[q].used
  BY <1>3
<1>11. UsedInv'
  BY <1>4, <1>5, <1>6, <1>10 DEF HandoverInv, UsedInv, ReservedFor, PoweredPanels
<1>12. screen'[FirstPanel].power = "unset" => PoweredPanels' = {}
  BY <1>3, <1>4, HandoverAssumption DEF HandoverInv
<1>13. \A q \in Panels : ~BetweenFrames(q)' => Powered(q)'
  BY <1>5 DEF HandoverInv
<1> QED BY <1>3, <1>6, <1>9, <1>11, <1>12, <1>13 DEF HandoverInv, NoPlaneIsTaken

LEMMA GeometryKeepsHandover ==
  ASSUME HandoverInv, GeometryChanges
  PROVE  HandoverInv' /\ NoPlaneIsTaken
<1>1. UNCHANGED <<screen, list, reserved, plane>> /\ changed' = changed \cup {"other"}
  BY DEF GeometryChanges
<1>2. PoweredPanels' = PoweredPanels /\ UpdatedList(PoweredPanels)' = UpdatedList(PoweredPanels)
  BY <1>1 DEF PoweredPanels, Powered, UpdatedList
<1>3. PlanesInv' /\ ListsInv'
  BY <1>1, <1>2 DEF HandoverInv, PlanesInv, ListsInv, Settled, BetweenFrames
<1>4. UsedInv'
  BY <1>1, <1>2 DEF HandoverInv, UsedInv, BetweenFrames, ReservedFor
<1> QED BY <1>1, <1>2, <1>3, <1>4 DEF HandoverInv, NoPlaneIsTaken, BetweenFrames, Powered

LEMMA ValidateKeepsHandover ==
  ASSUME HandoverInv, NEW p \in Panels, ValidateScreen(p), EachHasChannels
  PROVE  HandoverInv' /\ NoPlaneIsTaken
<1>1. p \in PoweredPanels /\ PoweredPanels \in SUBSET Panels
  BY DEF ValidateScreen, PoweredPanels
<1>2. plane' = plane
  BY DEF ValidateScreen
<1> DEFINE lists == UpdatedList(PoweredPanels)
<1>3. /\ lists \in [Channels -> PoweredPanels]
      /\ \A q \in PoweredPanels : \E c \in Channels : lists[c] = q
  <2> HIDE DEF lists
  <2> QED BY <1>1, ListFacts DEF lists
<1>4. /\ screen' \in [Panels -> ScreenStatus]
      /\ screen'[p].rendering = "VALIDATED" /\ screen'[p].power = screen[p].power
      /\ \A q \in Panels \ {p} : screen'[q] = screen[q]
      /\ changed' \in {{}, changed}
  <2>1. CASE changed = {} /\ screen[p].rendering # "NONE"
    <3>1. screen' = [screen EXCEPT ![p].rendering = "VALIDATED"] /\ UNCHANGED changed
      BY <2>1 DEF ValidateScreen
    <3> QED BY <3>1 DEF HandoverInv, ScreenStatus
  <2>2. CASE ~(changed = {} /\ screen[p].rendering # "NONE")
    <3>1. PICK used \in SUBSET Assignable(p, reserved') :
             screen' = [screen EXCEPT ![p].rendering = "VALIDATED", ![p].used = used]
      BY <2>2 DEF ValidateScreen
    <3>2. used \subseteq Channels
      BY DEF Assignable
    <3>3. changed' \in {{}, changed}
      BY <2>2 DEF ValidateScreen
    <3> QED BY <3>1, <3>2, <3>3 DEF HandoverInv, ScreenStatus
  <2> QED BY <2>1, <2>2
<1>5. \A q \in Panels : Powered(q)' <=> Powered(q)
  BY <1>4 DEF Powered
<1>6. PoweredPanels' = PoweredPanels
  BY <1>5 DEF PoweredPanels
<1>7. UpdatedList(PoweredPanels)' = lists
  <2>1. (PoweredPanels = {})' <=> FALSE
    BY <1>6, <1>1
  <2> QED BY <2>1, <1>1, <1>6 DEF UpdatedList
<1>8. Settled => list = lists /\ reserved = lists
  BY <1>1 DEF HandoverInv, ListsInv
<1>9. list' = lists /\ reserved' = lists
  <2>1. CASE changed = {} /\ screen[p].rendering # "NONE"
    BY <2>1, <1>8 DEF ValidateScreen, Settled
  <2>2. CASE ~(changed = {} /\ screen[p].rendering # "NONE") /\ IsFirstValidate
    <3>1. PrepareResources(PoweredPanels, "power" \in changed)
      BY <2>2 DEF ValidateScreen
    <3>2. list' = lists
      BY <3>1, <1>8 DEF PrepareResources, Settled
    <3>3. \A c \in Channels : list'[c] # NoPanel /\ Powered(list'[c])
      BY <3>2, <1>3, HandoverAssumption DEF PoweredPanels
    <3>4. reserved' = [c \in Channels |-> list'[c]]
      BY <3>1, <3>3 DEF PrepareResources
    <3> QED BY <3>2, <3>4, <1>3
  <2>3. CASE ~(changed = {} /\ screen[p].rendering # "NONE") /\ ~IsFirstValidate
    <3>1. PICK q \in PoweredPanels : screen[q].rendering \notin {"NONE", "PRESENTED"}
      BY <2>3 DEF IsFirstValidate
    <3>2. q \in Panels /\ ~BetweenFrames(q)
      BY <3>1, <1>1 DEF HandoverInv, ScreenStatus, BetweenFrames
    <3>3. UNCHANGED <<list, reserved>>
      BY <2>3 DEF ValidateScreen
    <3> QED BY <3>2, <3>3, <1>8 DEF Settled
  <2> QED BY <2>1, <2>2, <2>3
<1>10. PlanesInv'
  BY <1>2, <1>6, <1>7, <1>9 DEF HandoverInv, PlanesInv
<1>11. ListsInv'
  BY <1>7, <1>9 DEF ListsInv
<1>12. /\ screen'[p].used # {}
       /\ screen'[p].used \subseteq ReservedFor(p)'
  <2>1. CASE changed = {} /\ screen[p].rendering # "NONE"
    <3>1. screen'[p].used = screen[p].used /\ reserved' = reserved
      BY <2>1 DEF ValidateScreen, HandoverInv, ScreenStatus
    <3> QED BY <2>1, <3>1, <1>1 DEF HandoverInv, UsedInv, ReservedFor
  <2>2. CASE ~(changed = {} /\ screen[p].rendering # "NONE")
    <3>1. PICK used \in SUBSET Assignable(p, reserved') :
             /\ used # {} \/ Assignable(p, reserved') = {}
             /\ screen' = [screen EXCEPT ![p].rendering = "VALIDATED", ![p].used = used]
      BY <2>2 DEF ValidateScreen
    <3>2. Assignable(p, reserved') = {c \in Channels : lists[c] = p}
      BY <1>3, <1>9, <1>1, HandoverAssumption DEF Assignable
    <3>3. Assignable(p, reserved') # {}
      BY <3>2, <1>3, <1>1
    <3>4. screen'[p].used = used
      BY <3>1 DEF HandoverInv, ScreenStatus
    <3> QED BY <3>1, <3>2, <3>3, <3>4, <1>9 DEF ReservedFor
  <2> QED BY <2>1, <2>2
<1>13. UsedInv'
  <2>1. SUFFICES ASSUME NEW q \in PoweredPanels, q # p,
                        ~BetweenFrames(q)' \/ (changed' = {} /\ screen'[q].rendering # "NONE")
                 PROVE  screen'[q].used # {} /\ screen'[q].used \subseteq ReservedFor(q)'
    BY <1>12, <1>6 DEF UsedInv
  <2>2. q \in Panels /\ screen'[q] = screen[q]
    BY <2>1, <1>1, <1>4
  <2>3. ~BetweenFrames(q) \/ (changed = {} /\ screen[q].rendering # "NONE")
    <3>1. CASE changed' = changed
      BY <2>1, <2>2, <3>1 DEF BetweenFrames
    <3>2. CASE changed' # changed
      <4>1. ~(changed = {} /\ screen[p].rendering # "NONE")
        BY <3>2 DEF ValidateScreen
      <4>2. IsLastValidate(p)
        BY <4>1, <3>2 DEF ValidateScreen
      <4> QED BY <4>2, <2>1 DEF IsLastValidate, BetweenFrames
    <3> QED BY <3>1, <3>2
  <2>4. reserved' = reserved
    BY <2>3, <2>2, <1>8, <1>9 DEF Settled
  <2> QED BY <2>1, <2>2, <2>3, <2>4 DEF HandoverInv, UsedInv, ReservedFor
<1>14. screen'[FirstPanel].power = "unset" => PoweredPanels' = {}
  BY <1>4, <1>6, HandoverAssumption DEF HandoverInv
<1>15. \A q \in Panels : ~BetweenFrames(q)' => Powered(q)'
  BY <1>4, <1>5, <1>1 DEF HandoverInv, BetweenFrames, PoweredPanels
<1>16. /\ list' \in [Channels -> Panels \cup {NoPanel}] /\ reserved' \in [Channels -> Panels \cup {NoPanel}]
       /\ changed' \subseteq {"power", "other"}
  BY <1>1, <1>3, <1>4, <1>9 DEF HandoverInv
<1> QED BY <1>2, <1>4, <1>10, <1>11, <1>13, <1>14, <1>15, <1>16 DEF HandoverInv, NoPlaneIsTaken

(* The commit of a frame whose panel has its own channels, with or without *)
(* a validation.                                                           *)
LEMMA CommitKeepsHandover ==
  ASSUME HandoverInv, NEW p \in PoweredPanels, CommitScreen(p), Settled,
         screen' = [screen EXCEPT ![p].rendering = "PRESENTED"],
         ~BetweenFrames(p) \/ (changed = {} /\ screen[p].rendering # "NONE"),
         UNCHANGED <<list, reserved, changed>>
  PROVE  HandoverInv' /\ NoPlaneIsTaken
<1>1. p \in Panels /\ PoweredPanels \in SUBSET Panels
  BY DEF PoweredPanels
<1>2. screen[p].used # {} /\ screen[p].used \subseteq ReservedFor(p)
  BY DEF HandoverInv, UsedInv
<1>3. list = UpdatedList(PoweredPanels) /\ reserved = UpdatedList(PoweredPanels)
  BY DEF HandoverInv, ListsInv
<1>4. /\ screen' \in [Panels -> ScreenStatus]
      /\ \A q \in Panels : screen'[q].used = screen[q].used /\ screen'[q].power = screen[q].power
      /\ screen'[p].rendering = "PRESENTED"
      /\ \A q \in Panels \ {p} : screen'[q] = screen[q]
  BY <1>1 DEF HandoverInv, ScreenStatus
<1>5. \A q \in Panels : Powered(q)' <=> Powered(q)
  BY <1>4 DEF Powered
<1>6. PoweredPanels' = PoweredPanels
  BY <1>5 DEF PoweredPanels
<1>7. UpdatedList(PoweredPanels)' = UpdatedList(PoweredPanels)
  BY <1>6 DEF UpdatedList
<1>8. \A c \in Channels : plane'[c] = IF c \in screen[p].used THEN p
                                      ELSE IF reserved[c] \in {p, NoPanel} THEN NoPanel ELSE plane[c]
  BY DEF CommitScreen, Cleared
<1>9. plane' \in [Channels -> Panels \cup {NoPanel}]
  BY <1>1 DEF CommitScreen, HandoverInv
<1>10. PlanesInv'
  BY <1>2, <1>3, <1>6, <1>7, <1>8 DEF HandoverInv, PlanesInv, ReservedFor
<1>11. NoPlaneIsTaken
  BY <1>2, <1>8 DEF HandoverInv, PlanesInv, ReservedFor, NoPlaneIsTaken
<1>12. ListsInv'
  BY <1>3, <1>7 DEF ListsInv
<1>13. UsedInv'
  <2>1. SUFFICES ASSUME NEW q \in PoweredPanels, q # p,
                        ~BetweenFrames(q)' \/ (changed = {} /\ screen'[q].rendering # "NONE")
                 PROVE  screen'[q].used # {} /\ screen'[q].used \subseteq ReservedFor(q)'
    BY <1>2, <1>4, <1>1, <1>6 DEF UsedInv, ReservedFor
  <2> QED BY <2>1, <1>1, <1>4 DEF HandoverInv, UsedInv, ReservedFor, BetweenFrames
<1>14. screen'[FirstPanel].power = "unset" => PoweredPanels' = {}
  BY <1>4, <1>6, HandoverAssumption DEF HandoverInv
<1>15. \A q \in Panels : ~BetweenFrames(q)' => Powered(q)'
  BY <1>4, <1>5 DEF HandoverInv, BetweenFrames
<1> QED BY <1>4, <1>9, <1>10, <1>11, <1>12, <1>13, <1>14, <1>15 DEF HandoverInv

LEMMA HandoverStep ==
  ASSUME HandoverInv, [HandoverNext]_handoverVars, EachHasChannels, ~FramesInterrupted, ~DozeFromOff
  PROVE  HandoverInv' /\ (NoPlaneIsTaken \/ UNCHANGED handoverVars)
<1>1. ASSUME NEW p \in Panels, SetPanelOn(p) PROVE HandoverInv' /\ NoPlaneIsTaken
  BY <1>1, OnKeepsHandover
<1>2. ASSUME NEW p \in Panels, SetPanelOff(p) PROVE HandoverInv' /\ NoPlaneIsTaken
  BY <1>2, OffKeepsHandover
<1>3. ASSUME NEW p \in Panels, SetPanelDoze(p) PROVE HandoverInv' /\ NoPlaneIsTaken
  BY <1>3, DozeKeepsHandover
<1>4. ASSUME NEW p \in Panels, ValidateScreen(p) PROVE HandoverInv' /\ NoPlaneIsTaken
  BY <1>4, ValidateKeepsHandover
<1>5. ASSUME NEW p \in Panels, PresentScreen(p) PROVE HandoverInv' /\ NoPlaneIsTaken
  <2>1. p \in PoweredPanels /\ ~BetweenFrames(p) /\ Settled
    BY <1>5 DEF PresentScreen, PoweredPanels, BetweenFrames, Settled
  <2> QED BY <1>5, <2>1, CommitKeepsHandover DEF PresentScreen
<1>6. ASSUME NEW p \in Panels, PresentAgain(p) PROVE HandoverInv' /\ NoPlaneIsTaken
  <2>1. p \in PoweredPanels /\ changed = {} /\ screen[p].rendering # "NONE" /\ Settled
    BY <1>6 DEF PresentAgain, PoweredPanels, Settled
  <2> QED BY <1>6, <2>1, CommitKeepsHandover DEF PresentAgain
<1>7. CASE GeometryChanges
  BY <1>7, GeometryKeepsHandover
<1>8. CASE UNCHANGED handoverVars
  <2>1. UpdatedList(PoweredPanels)' = UpdatedList(PoweredPanels) /\ PoweredPanels' = PoweredPanels
    BY <1>8 DEF UpdatedList, PoweredPanels, Powered
  <2>2. PlanesInv' /\ ListsInv' /\ UsedInv'
    BY <1>8, <2>1 DEF HandoverInv, PlanesInv, ListsInv, UsedInv, Settled, BetweenFrames, ReservedFor
  <2> QED BY <1>8, <2>1, <2>2 DEF HandoverInv, BetweenFrames, Powered
<1> QED BY <1>1, <1>2, <1>3, <1>4, <1>5, <1>6, <1>7, <1>8 DEF HandoverNext

(* Through any sequence of power changes and frames of the two panels, no  *)
(* commit takes a plane from the other panel without its being disabled    *)
(* first, and a panel whose frame was validated has a channel to show it   *)
(* on: as long as each of the two has channels reserved for it, a panel    *)
(* does not go from off to doze, and power changes keep off the time       *)
(* between the validation and the present of a frame.                      *)
THEOREM PlanesAreAlwaysHandedOver ==
  ASSUME EachHasChannels, ~DozeFromOff, ~FramesInterrupted
  PROVE  HandoverSpec => PlanesAreHandedOver
<1>1. HandoverInv' => EveryPanelIsServed'
  BY DEF HandoverInv, UsedInv, EveryPanelIsServed, BetweenFrames, PoweredPanels
<1>2. HandoverInv /\ [HandoverNext]_handoverVars
        => HandoverInv' /\ [NoPlaneIsTaken /\ EveryPanelIsServed']_handoverVars
  BY <1>1, HandoverStep
<1> QED BY <1>2, InitHandoverInv, PTL DEF HandoverSpec, PlanesAreHandedOver

-----------------------------------------------------------------------------
(* The binder service.                                                     *)

Answers == {"reply", "status", "void", "local"}

LEMMA ClientTable ==
  ASSUME NEW m \in Methods
  PROVE  Bp[m].words \in 0..4 /\ Bp[m].by \in Answers
<1>1. m \in VirtualMethods => BpVirtual[m].words \in 0..4 /\ BpVirtual[m].by \in Answers
  BY DEF BpVirtual, VirtualMethods, Layout, Answers
<1>2. m \in ExternalMethods => BpExternal[m].words \in 0..4 /\ BpExternal[m].by \in Answers
  BY DEF BpExternal, ExternalMethods, Layout, Answers
<1>3. m \in DeviceMethods => BpDevice[m].words \in 0..4 /\ BpDevice[m].by \in Answers
  BY DEF BpDevice, DeviceMethods, Layout, Answers
<1>4. m \in PanelMethods => BpPanel[m].words \in 0..4 /\ BpPanel[m].by \in Answers
  BY DEF BpPanel, Layout, Answers
<1>5. m \in TimingMethods => BpTiming[m].words \in 0..4 /\ BpTiming[m].by \in Answers
  BY DEF BpTiming, Layout, Answers
<1> QED BY <1>1, <1>2, <1>3, <1>4, <1>5 DEF Bp, Methods

LEMMA Disjoint ==
  /\ \A m \in ExternalMethods : m \notin VirtualMethods /\ m \notin KnownToDevice
  /\ \A m \in DeviceMethods : m \notin VirtualMethods /\ m \notin ExternalMethods
  /\ \A m \in PanelMethods :
        m \notin VirtualMethods /\ m \notin ExternalMethods /\ m \notin DeviceMethods
  /\ \A m \in TimingMethods :
        m \notin VirtualMethods /\ m \notin ExternalMethods /\ m \notin DeviceMethods
        /\ m \notin PanelMethods
BY DEF VirtualMethods, ExternalMethods, DeviceMethods, PanelMethods, TimingMethods, KnownToDevice

LEMMA ClientOf ==
  ASSUME NEW m \in Methods
  PROVE  /\ m \in VirtualMethods => Bp[m] = BpVirtual[m]
         /\ m \in ExternalMethods => Bp[m] = BpExternal[m]
         /\ m \in DeviceMethods => Bp[m] = BpDevice[m]
         /\ m \in PanelMethods => Bp[m] = BpPanel[m]
         /\ m \in TimingMethods => Bp[m] = BpTiming[m]
BY Disjoint DEF Bp

LEMMA ServiceOf ==
  ASSUME NEW m \in Methods, m # "getHWCFenceDebug"
  PROVE  /\ m \in VirtualMethods => Bn[m] = BnVirtual[m]
         /\ m \in ExternalMethods => Bn[m] = BnExternal[m]
         /\ m \in KnownToDevice => Bn[m] = BnDevice[m]
         /\ m \in KnownToPanel => Bn[m] = BnPanel[m]
<1>1. m \in DOMAIN Bn
  BY DEF Bn
<1>2. m \in KnownToDevice => m \notin VirtualMethods /\ m \notin ExternalMethods
  BY Disjoint DEF KnownToDevice, PanelMethods
<1>3. m \in KnownToPanel =>
         m \notin VirtualMethods /\ m \notin ExternalMethods /\ m \notin KnownToDevice
  BY Disjoint DEF KnownToPanel
<1> QED BY <1>1, <1>2, <1>3, Disjoint DEF Bn

LEMMA WordsAgree ==
  ASSUME NEW m \in Methods, m # "getHWCFenceDebug"
  PROVE  Bn[m].words = Bp[m].words
<1>1. CASE m \in VirtualMethods
  BY <1>1, ClientOf, ServiceOf DEF BnVirtual, BpVirtual
<1>2. CASE m \in ExternalMethods
  BY <1>2, ClientOf, ServiceOf DEF BnExternal, BpExternal
<1>3. CASE m \in DeviceMethods
  <2>1. BnDevice[m].words = BpDevice[m].words
    BY <1>3 DEF DeviceMethods, KnownToDevice, BnDevice, BpDevice, Layout
  <2> QED BY <1>3, <2>1, ClientOf, ServiceOf DEF KnownToDevice
<1>4. CASE m \in PanelMethods \cup TimingMethods
  <2>1. Bp[m].words = 2
    BY <1>4, ClientOf DEF BpPanel, BpTiming, Layout
  <2>2. CASE m \in KnownToDevice
    <3>1. BnDevice[m].words = 2
      BY <1>4, <2>2, Disjoint DEF KnownToDevice, BnDevice, Layout
    <3> QED BY <2>1, <2>2, <3>1, ServiceOf
  <2>3. CASE m \notin KnownToDevice
    <3>1. m \in KnownToPanel
      BY <1>4, <2>3 DEF KnownToPanel
    <3>2. BnPanel[m].words = 2
      BY <3>1 DEF BnPanel, Layout
    <3> QED BY <2>1, <3>1, <3>2, ServiceOf
  <2> QED BY <2>2, <2>3
<1> QED BY <1>1, <1>2, <1>3, <1>4 DEF Methods

LEMMA RouteAgrees ==
  ASSUME NEW m \in Methods, m # "getHWCFenceDebug", NEW args,
         m \notin OutcomeIsLost, Bp[m].by # "local", Outcome(m, args) # NoError
  PROVE  Bn[m].by = "status" \/ (Bn[m].by = "reply" /\ Bp[m].by = "reply")
<1>1. CASE m \in VirtualMethods
  <2>1. m # "setPresentationMode"
    <3>1. Outcome(m, args) = OutcomeForVirtual(m)
      BY <1>1, Disjoint DEF Outcome
    <3> QED BY <3>1 DEF OutcomeForVirtual, Unless
  <2>2. BnVirtual[m].by = "reply" /\ BpVirtual[m].by = "reply"
    BY <1>1, <2>1 DEF VirtualMethods, BnVirtual, BpVirtual, Layout
  <2> QED BY <1>1, <2>2, ClientOf, ServiceOf
<1>2. CASE m \in ExternalMethods
  <2>1. BnExternal[m].by = "reply" /\ BpExternal[m].by = "reply"
    BY <1>2 DEF BnExternal, BpExternal, Layout
  <2> QED BY <1>2, <2>1, ClientOf, ServiceOf
<1>3. CASE m \in DeviceMethods
  <2>1. Outcome(m, args) = OutcomeForDevice(m, args)
    BY <1>3, Disjoint DEF Outcome
  <2>2. m \in {"setHWCCtl", "setDDIScaler"}
    BY <2>1 DEF OutcomeForDevice, Unless
  <2>3. BnDevice[m].by = "reply" /\ BpDevice[m].by = "reply" /\ m \in KnownToDevice
    BY <2>2 DEF DeviceMethods, KnownToDevice, BnDevice, BpDevice, Layout
  <2> QED BY <1>3, <2>3, ClientOf, ServiceOf
<1>4. CASE m \in (PanelMethods \cup TimingMethods) \ KnownToDevice
  <2>1. m \in KnownToPanel
    BY <1>4 DEF KnownToPanel
  <2>2. BnPanel[m].by = "status"
    BY <2>1 DEF KnownToPanel, KnownToDevice, PanelMethods, TimingMethods, BnPanel, Layout,
                OutcomeIsLost
  <2> QED BY <2>1, <2>2, ServiceOf
<1>5. CASE m \in (PanelMethods \cup TimingMethods) \cap KnownToDevice
  <2>1. m \in {"setMinIdleRefreshRate", "setRefreshRateThrottle"}
    BY <1>5, Disjoint DEF KnownToDevice, OutcomeIsLost
  <2>2. BnDevice[m].by = "status"
    BY <1>5, <2>1 DEF BnDevice, Layout
  <2> QED BY <1>5, <2>2, ServiceOf
<1> QED BY <1>1, <1>2, <1>3, <1>4, <1>5 DEF Methods

LEMMA Joined ==
  ASSUME NEW s \in Seq(Nat), NEW t \in Seq(Nat)
  PROVE  s \o t \in Seq(Nat) /\ Len(s \o t) = Len(s) + Len(t)
OBVIOUS

LEMMA NoSettings == <<>> \in [1..0 -> {<<7, 8>>}]
<1>1. <<>> \in Seq({<<7, 8>>}) /\ Len(<<>>) = 0
  OBVIOUS
<1>2. \A s \in Seq({<<7, 8>>}) : s \in [1..Len(s) -> {<<7, 8>>}]
  OBVIOUS
<1> QED BY <1>1, <1>2

(* The words and pairs that a parcel holds are the ones that were written. *)
LEMMA ParcelIsRead ==
  ASSUME NEW n \in Nat, NEW args \in Seq(Nat), Len(args) = n,
         NEW k \in Nat, NEW settings \in [1..k -> {<<7, 8>>}]
  PROVE  /\ SubSeq(args \o Flat(settings), 1, n) = args
         /\ n = 2 => Pairs(args \o Flat(settings), 2) = settings
<1> DEFINE f == Flat(settings)
           p == args \o f
<1>1. settings \in Seq({<<7, 8>>}) /\ Len(settings) = k
  OBVIOUS
<1>2. f = [i \in 1..(2 * k) |-> settings[(i + 1) \div 2][2 - (i % 2)]]
  BY <1>1 DEF Flat
<1>3. f \in Seq(Nat) /\ Len(f) = 2 * k
  <2>1. \A i \in 1..(2 * k) : (i + 1) \div 2 \in 1..k /\ 2 - (i % 2) \in 1..2
    OBVIOUS
  <2>2. \A i \in 1..(2 * k) : settings[(i + 1) \div 2] = <<7, 8>>
    BY <2>1
  <2>3. \A i \in 1..(2 * k) : f[i] \in Nat
    <3>1. \A j \in 1..2 : <<7, 8>>[j] \in Nat
      OBVIOUS
    <3> QED BY <1>2, <2>1, <2>2, <3>1
  <2>4. f \in [1..(2 * k) -> Nat]
    BY <1>2, <2>3
  <2> QED BY <2>4
<1>4. \A i \in 1..k : f[2 * i - 1] = settings[i][1] /\ f[2 * i] = settings[i][2]
  <2>1. ASSUME NEW i \in 1..k PROVE f[2 * i - 1] = settings[i][1] /\ f[2 * i] = settings[i][2]
    <3>1. 2 * i - 1 \in 1..(2 * k) /\ 2 * i \in 1..(2 * k)
      OBVIOUS
    <3>2. (2 * i - 1 + 1) \div 2 = i /\ 2 - ((2 * i - 1) % 2) = 1
          /\ (2 * i + 1) \div 2 = i /\ 2 - ((2 * i) % 2) = 2
      OBVIOUS
    <3> QED BY <1>2, <3>1, <3>2
  <2> QED BY <2>1
<1> HIDE DEF f
<1>5. /\ p \in Seq(Nat) /\ Len(p) = n + 2 * k
      /\ \A i \in 1..n : p[i] = args[i]
      /\ \A i \in 1..(2 * k) : p[n + i] = f[i]
  <2>1. p \in Seq(Nat) /\ Len(p) = Len(args) + Len(f)
    BY <1>3, Joined
  <2>2. \A i \in 1..n : p[i] = args[i]
    BY <1>3
  <2>3. ASSUME NEW i \in 1..(2 * k) PROVE p[n + i] = f[i]
    <3>1. n + i \in 1..(Len(args) + Len(f)) /\ n + i > Len(args) /\ (n + i) - Len(args) = i
      BY <1>3
    <3>2. p[n + i] = f[(n + i) - Len(args)]
      BY <1>3, <3>1
    <3> QED BY <3>1, <3>2
  <2> QED BY <1>3, <2>1, <2>2, <2>3
<1> HIDE DEF p
<1>6. SubSeq(p, 1, n) = args
  BY <1>5
<1>7. ASSUME n = 2 PROVE Pairs(p, 2) = settings
  <2>1. (Len(p) - 2) \div 2 = k
    BY <1>5, <1>7
  <2>2. ASSUME NEW i \in 1..k PROVE <<p[2 + 2 * i - 1], p[2 + 2 * i]>> = settings[i]
    <3>1. p[2 + (2 * i - 1)] = f[2 * i - 1] /\ p[2 + 2 * i] = f[2 * i]
      <4>1. 2 * i - 1 \in 1..(2 * k) /\ 2 * i \in 1..(2 * k)
        OBVIOUS
      <4> QED BY <1>5, <1>7, <4>1
    <3>2. settings[i] = <<7, 8>>
      OBVIOUS
    <3> QED BY <1>4, <3>1, <3>2
  <2> QED BY <2>1, <2>2 DEF Pairs
<1> QED BY <1>6, <1>7 DEF p, f

LEMMA ArgumentsFit ==
  ASSUME NEW m \in Methods, NEW args \in Arguments(m)
  PROVE  args \in Seq(Nat) /\ Len(args) = Bp[m].words
<1> DEFINE n == Bp[m].words
           good == [i \in 1..n |-> i]
<1>1. n \in Nat
  BY ClientTable
<1>2. good \in [1..n -> Nat]
  BY <1>1
<1>3. args \in [1..n -> Nat]
  <2>1. CASE args = good
    BY <1>2, <2>1
  <2>2. CASE \E i \in 1..n : args = [good EXCEPT ![i] = 0]
    BY <1>2, <2>2
  <2>3. CASE n # 0 /\ args = [good EXCEPT ![1] = 9]
    BY <1>1, <1>2, <2>3
  <2> QED BY <2>1, <2>2, <2>3 DEF Arguments
<1> QED BY <1>1, <1>3

Steps == {"idle", "sent", "served", "returned"}
IsCall(c) ==
  c = [step |-> c.step, method |-> c.method, args |-> c.args, settings |-> c.settings,
       parcel |-> c.parcel, read |-> c.read, answer |-> c.answer, status |-> c.status,
       result |-> c.result]

CallInv ==
  LET m == binderCall.method
  IN /\ IsCall(binderCall)
     /\ binderCall.step \in Steps
     /\ binderCall.step # "idle" =>
           m \in Methods /\ binderCall.args \in Arguments(m) /\ binderCall.settings \in Settings(m)
     /\ binderCall.step \in {"sent", "served"} => Bp[m].by # "local"
     /\ binderCall.step = "sent" => binderCall.parcel = binderCall.args \o Flat(binderCall.settings)
     /\ binderCall.step = "served" => \/ binderCall.status = binderCall.answer
                                      \/ m \in OutcomeIsLost
                                      \/ /\ binderCall.status = NoError
                                         /\ \/ binderCall.answer = NoError
                                            \/ Bn[m].by = "reply" /\ Bp[m].by = "reply"

DeviceInv ==
  LET d == device
  IN /\ d = [displays |-> d.displays, config |-> d.config, assigned |-> d.assigned,
             changed |-> d.changed, validating |-> d.validating]
     /\ d.validating \in BOOLEAN /\ d.changed \in BOOLEAN
     /\ d.assigned = d.config \/ (d.changed /\ ~d.validating)

ReadInv ==
  binderCall.step \in {"served", "returned"} /\ Bp[binderCall.method].by # "local" =>
     binderCall.read = <<binderCall.args, binderCall.settings>>
ResultInv ==
  binderCall.step = "returned" /\ binderCall.method \notin OutcomeIsLost =>
     binderCall.result = binderCall.answer

HwcInv == CallInv /\ DeviceInv /\ ReadInv /\ ResultInv

LEMMA CallKept ==
  ASSUME CallInv, ReadInv, ResultInv, UNCHANGED binderCall
  PROVE  CallInv' /\ ReadInv' /\ ResultInv'
BY DEF IsCall, CallInv, ReadInv, ResultInv

LEMMA CallStep ==
  ASSUME HwcInv, NEW m \in Methods, Call(m)
  PROVE  HwcInv'
<1>1. PICK args \in Arguments(m), settings \in Settings(m) :
        binderCall' = [NoCall EXCEPT
          !.step = IF Bp[m].by = "local" THEN "returned" ELSE "sent",
          !.method = m, !.args = args, !.settings = settings, !.parcel = args \o Flat(settings)]
  BY DEF Call
<1>2. /\ binderCall'.step = IF Bp[m].by = "local" THEN "returned" ELSE "sent"
      /\ binderCall'.method = m /\ binderCall'.args = args /\ binderCall'.settings = settings
      /\ binderCall'.parcel = args \o Flat(settings)
      /\ binderCall'.answer = NoError /\ binderCall'.result = NoError
      /\ IsCall(binderCall')
  BY <1>1 DEF IsCall, NoCall
<1>3. CallInv'
  BY <1>2 DEF IsCall, CallInv, Steps
<1>4. ReadInv' /\ ResultInv'
  BY <1>2 DEF ReadInv, ResultInv
<1> QED BY <1>3, <1>4 DEF HwcInv, Call, DeviceInv

LEMMA ServeStep ==
  ASSUME ~CallsDuringFrames, HwcInv, Serve
  PROVE  HwcInv'
<1> DEFINE m == binderCall.method
           args == SubSeq(binderCall.parcel, 1, Bn[m].words)
           outcome == Outcome(m, args)
           read == <<args, IF m = "setPresentTimeoutParameters"
                           THEN Pairs(binderCall.parcel, 2) ELSE <<>> >>
           status == IF Bn[m].by = "status" THEN outcome ELSE NoError
<1>1. /\ binderCall.step = "sent" /\ m \in Methods /\ m # "getHWCFenceDebug"
      /\ binderCall' = [binderCall EXCEPT !.step = "served", !.read = read, !.answer = outcome,
                                          !.status = status]
      /\ device' = IF Reconfigures(m, args) THEN ChangeAnnounced ELSE device
      /\ ~device.validating
  BY DEF Serve, Bn
<1>2. /\ m \in Methods /\ binderCall.args \in Arguments(m) /\ binderCall.settings \in Settings(m)
      /\ Bp[m].by # "local" /\ binderCall.parcel = binderCall.args \o Flat(binderCall.settings)
  BY <1>1 DEF HwcInv, IsCall, CallInv
<1>3. read = <<binderCall.args, binderCall.settings>>
  <2>1. PICK k \in Nat : binderCall.settings \in [1..k -> {<<7, 8>>}]
    <3>1. CASE m = "setPresentTimeoutParameters"
      BY <1>2, <3>1, HwcServiceAssumption DEF Settings
    <3>2. CASE m # "setPresentTimeoutParameters"
      <4>1. binderCall.settings = <<>>
        BY <1>2, <3>2 DEF Settings
      <4> QED BY <4>1, NoSettings
    <3> QED BY <3>1, <3>2
  <2>2. /\ binderCall.args \in Seq(Nat) /\ Len(binderCall.args) = Bn[m].words /\ Bn[m].words \in Nat
    BY <1>1, <1>2, ArgumentsFit, WordsAgree, ClientTable
  <2>3. args = binderCall.args
    <3> DEFINE s == binderCall.settings
               a == binderCall.args
    <3>1. s \in [1..k -> {<<7, 8>>}] /\ a \in Seq(Nat) /\ Len(a) = Bn[m].words
      BY <2>1, <2>2
    <3> HIDE DEF s, a
    <3>2. SubSeq(a \o Flat(s), 1, Bn[m].words) = a
      BY <2>2, <3>1, ParcelIsRead
    <3> QED BY <1>2, <3>2 DEF s, a
  <2>4. CASE m = "setPresentTimeoutParameters"
    <3>1. Bn[m].words = 2
      BY <1>1, <2>4, WordsAgree, ClientOf DEF TimingMethods, BpTiming, Layout
    <3> DEFINE s == binderCall.settings
               a == binderCall.args
    <3>2. s \in [1..k -> {<<7, 8>>}] /\ a \in Seq(Nat) /\ Len(a) = 2
      BY <2>1, <2>2, <3>1
    <3> HIDE DEF s, a
    <3>3. Pairs(a \o Flat(s), 2) = s
      BY <3>2, ParcelIsRead
    <3> QED BY <1>2, <2>3, <2>4, <3>3 DEF s, a
  <2>5. CASE m # "setPresentTimeoutParameters"
    BY <1>2, <2>3, <2>5 DEF Settings
  <2> QED BY <2>4, <2>5
<1>4. m \notin OutcomeIsLost /\ outcome # NoError =>
         Bn[m].by = "status" \/ (Bn[m].by = "reply" /\ Bp[m].by = "reply")
  BY <1>1, <1>2, RouteAgrees
<1> HIDE DEF read, outcome
<1>5. /\ binderCall'.step = "served" /\ binderCall'.method = m /\ binderCall'.args = binderCall.args
      /\ binderCall'.settings = binderCall.settings /\ binderCall'.read = read
      /\ binderCall'.answer = outcome /\ binderCall'.status = status
      /\ IsCall(binderCall')
  BY <1>1 DEF HwcInv, IsCall, CallInv
<1>6. CallInv'
  <2>1. status = outcome \/ m \in OutcomeIsLost
          \/ (status = NoError /\ (outcome = NoError \/ (Bn[m].by = "reply" /\ Bp[m].by = "reply")))
    BY <1>4
  <2> HIDE DEF status
  <2> QED BY <1>2, <1>5, <2>1 DEF IsCall, CallInv, Steps
<1>7. ReadInv' /\ ResultInv'
  BY <1>3, <1>5 DEF ReadInv, ResultInv
<1>8. DeviceInv'
  BY <1>1 DEF HwcInv, DeviceInv, ChangeAnnounced
<1> QED BY <1>6, <1>7, <1>8 DEF HwcInv

LEMMA RefuseStep ==
  ASSUME HwcInv, Refuse
  PROVE  HwcInv'
<1>1. /\ binderCall'.step = "served" /\ binderCall'.method = binderCall.method
      /\ binderCall'.args = binderCall.args /\ binderCall'.settings = binderCall.settings
      /\ binderCall'.read = <<binderCall.args, binderCall.settings>>
      /\ binderCall'.answer = binderCall'.status
      /\ IsCall(binderCall')
  BY DEF Refuse, HwcInv, IsCall, CallInv
<1>2. CallInv' /\ ReadInv' /\ ResultInv'
  BY <1>1 DEF Refuse, HwcInv, IsCall, CallInv, ReadInv, ResultInv, Steps
<1> QED BY <1>2 DEF Refuse, HwcInv, DeviceInv

LEMMA ReturnStep ==
  ASSUME HwcInv, Return
  PROVE  HwcInv'
<1>1. /\ binderCall.step = "served" /\ binderCall'.step = "returned"
      /\ binderCall'.method = binderCall.method
      /\ binderCall'.args = binderCall.args /\ binderCall'.settings = binderCall.settings
      /\ binderCall'.read = binderCall.read
      /\ binderCall'.answer = binderCall.answer
      /\ binderCall'.result = IF binderCall.status # NoError THEN binderCall.status
                              ELSE IF /\ Bp[binderCall.method].by = "reply"
                                      /\ Bn[binderCall.method].by = "reply"
                                   THEN binderCall.answer ELSE NoError
      /\ IsCall(binderCall')
  BY DEF Return, HwcInv, IsCall, CallInv
<1>2. CallInv' /\ ReadInv'
  BY <1>1 DEF HwcInv, IsCall, CallInv, ReadInv, Steps
<1>3. ResultInv'
  BY <1>1 DEF HwcInv, IsCall, CallInv, ResultInv
<1> QED BY <1>2, <1>3 DEF Return, HwcInv, DeviceInv

LEMMA HwcStep == ~CallsDuringFrames /\ HwcInv /\ [HwcNext]_hwcVars => HwcInv'
<1> SUFFICES ASSUME ~CallsDuringFrames, HwcInv, [HwcNext]_hwcVars PROVE HwcInv'
  OBVIOUS
<1>1. ASSUME Done PROVE HwcInv'
  BY <1>1 DEF Done, IsCall, NoCall, HwcInv, CallInv, DeviceInv, ReadInv, ResultInv, Steps
<1>2. ASSUME FrameBegins \/ FrameEnds \/ VirtualDisplayChanges PROVE HwcInv'
  <2>1. DeviceInv' /\ UNCHANGED binderCall
    BY <1>2 DEF HwcInv, DeviceInv, FrameBegins, FrameEnds, VirtualDisplayChanges
  <2> QED BY <2>1, CallKept DEF HwcInv
<1>3. CASE UNCHANGED hwcVars
  BY <1>3, CallKept DEF HwcInv, DeviceInv
<1> QED BY <1>1, <1>2, <1>3, CallStep, ServeStep, RefuseStep, ReturnStep DEF HwcNext

(* The service acts on the arguments that a client's method was given, for *)
(* every method; all methods but the nine of OutcomeIsLost return what the *)
(* handler returned; and no change of the configuration that a handler     *)
(* makes misses the frames that follow, if handlers do not run while a     *)
(* frame is being validated.                                               *)
THEOREM CallsAreAlwaysCarriedOut ==
  ASSUME ~CallsDuringFrames PROVE HwcSpec => []CallsAreCarriedOut
<1>1. HwcInit => HwcInv
  BY DEF HwcInit, IsCall, NoCall, HwcInv, CallInv, DeviceInv, ReadInv, ResultInv, Steps
<1>2. HwcInv => CallsAreCarriedOut
  BY DEF HwcInv, DeviceInv, ReadInv, ResultInv, CallsAreCarriedOut
<1> QED BY <1>1, <1>2, HwcStep, PTL DEF HwcSpec
-----------------------------------------------------------------------------
(* The channels of the histogram.                                          *)

AllSizes == Sizes \union {NoSize}
Blobs == [config : HistConfigs \union {Nobody}, size : AllSizes]
ConfigInfos == [config : HistConfigs \union {Nobody}, status : {"none", "inactive", "assigned"},
                channel : HistChannels \union {NoChannel}, blobs : Seq(AllSizes)]
ChannelInfos ==
  [status : {"reserved", "disabled", "pending", "blob_added", "committed", "error",
             "disable_pending", "disable_blob_added", "disable_error"},
   owner : Clients \union {Nobody}]

HistType ==
  /\ configInfo \in [Clients -> ConfigInfos]
  /\ inactive \in Seq(Clients) /\ mFreeChannels \in Seq(HistChannels)
  /\ mUsedChannels \subseteq HistChannels
  /\ mChannels \in [HistChannels -> ChannelInfos]
  /\ DOMAIN request = HistChannels
  /\ \A ch \in HistChannels : DOMAIN request[ch] = {"set", "blob", "of"}
  /\ phase \in {"idle", "prepared", "committed"} /\ active \in AllSizes
  /\ DOMAIN kernel = HistChannels

(* The first part of ChannelsAccounted, for the values before the          *)
(* scheduler runs: clients may wait while channels are free.               *)
Accounts(infos, queue, free, channels, used) ==
  /\ IsInjective(free) /\ IsInjective(queue)
  /\ ToSet(free) \intersect used = {}
  /\ ToSet(free) \union used = HistChannels \ ReservedChannels
  /\ used = {infos[c].channel : c \in Clients} \ {NoChannel}
  /\ \A c \in Clients :
       /\ infos[c].status = "inactive" <=> c \in ToSet(queue)
       /\ infos[c].status = "assigned" <=> infos[c].channel # NoChannel
       /\ infos[c].status = "assigned" => channels[infos[c].channel].owner = c
  /\ \A ch \in HistChannels :
       channels[ch].status \in
         IF ch \in ReservedChannels THEN {"reserved"}
         ELSE IF ch \in used THEN {"pending", "blob_added", "committed", "error"}
         ELSE {"disabled", "disable_pending", "disable_blob_added", "disable_error"}

(* What a channel does whose last change was not lost: the blob that its   *)
(* status tells of is on its way to the kernel, or there.                  *)
Wanted(ch) == Blob(configInfo[mChannels[ch].owner].config, Head(configInfo[mChannels[ch].owner].blobs))
HasBlobs(ch) == configInfo[mChannels[ch].owner].blobs # <<>>
UpToDate(ch) == Head(configInfo[mChannels[ch].owner].blobs) = active

ProgramInv ==
  \A ch \in HistChannels \ lost :
    /\ mChannels[ch].status = "committed" =>
         /\ HasBlobs(ch) /\ kernel[ch] = Wanted(ch)
         /\ phase = "prepared" => UpToDate(ch) /\ ~request[ch].set
    /\ mChannels[ch].status = "disabled" =>
         kernel[ch] = NoBlob /\ (phase = "prepared" => ~request[ch].set)
    /\ mChannels[ch].status = "blob_added" =>
         /\ HasBlobs(ch) /\ phase # "idle"
         /\ phase = "prepared" => request[ch].set /\ request[ch].blob = Wanted(ch) /\ UpToDate(ch)
         /\ phase = "committed" => kernel[ch] = Wanted(ch)
    /\ mChannels[ch].status = "disable_blob_added" =>
         /\ phase # "idle"
         /\ phase = "prepared" => request[ch].set /\ request[ch].blob = NoBlob
         /\ phase = "committed" => kernel[ch] = NoBlob

HistInv == HistType /\ ChannelsAccounted /\ ProgramInv

LEMMA AccountsAre ==
  ChannelsAccounted <=> /\ Accounts(configInfo, inactive, mFreeChannels, mChannels, mUsedChannels)
                        /\ inactive # <<>> => mFreeChannels = <<>>
BY DEF ChannelsAccounted, Accounts

\* A used channel has one owner, who has it.
LEMMA OwnersHold ==
  ASSUME NEW infos, NEW queue, NEW free, NEW channels, NEW used,
         Accounts(infos, queue, free, channels, used), NEW ch \in used
  PROVE  /\ channels[ch].owner \in Clients
         /\ infos[channels[ch].owner].channel = ch /\ infos[channels[ch].owner].status = "assigned"
<1>1. PICK c \in Clients : infos[c].channel = ch /\ ch # NoChannel
  BY DEF Accounts
<1>2. channels[ch].owner = c /\ infos[c].status = "assigned"
  BY <1>1 DEF Accounts
<1> QED BY <1>1, <1>2

LEMMA CutFacts ==
  ASSUME NEW S, NEW s \in Seq(S), NEW n \in 0 .. Len(s)
  PROVE  /\ SubSeq(s, n + 1, Len(s)) \in Seq(S)
         /\ Len(SubSeq(s, n + 1, Len(s))) = Len(s) - n
         /\ \A i \in 1 .. (Len(s) - n) : SubSeq(s, n + 1, Len(s))[i] = s[n + i]
         /\ IsInjective(s) =>
              /\ IsInjective(SubSeq(s, n + 1, Len(s)))
              /\ \A x : x \in ToSet(SubSeq(s, n + 1, Len(s))) <=>
                           x \in ToSet(s) /\ \A k \in 1 .. n : x # s[k]
<1> DEFINE r == SubSeq(s, n + 1, Len(s))
<1>1. /\ r \in Seq(S) /\ Len(r) = Len(s) - n
      /\ \A i \in 1 .. (Len(s) - n) : r[i] = s[n + i]
  OBVIOUS
<1> HIDE DEF r
<1>2. DOMAIN s = 1 .. Len(s) /\ DOMAIN r = 1 .. (Len(s) - n) /\ Len(s) \in Nat
  BY <1>1
<1>3. ASSUME IsInjective(s)
      PROVE  /\ IsInjective(r)
             /\ \A x : x \in ToSet(r) <=> x \in ToSet(s) /\ \A k \in 1 .. n : x # s[k]
  <2>1. IsInjective(r)
    <3> SUFFICES ASSUME NEW i \in 1 .. (Len(s) - n), NEW j \in 1 .. (Len(s) - n), r[i] = r[j]
        PROVE  i = j
      BY <1>2 DEF IsInjective
    <3>1. n + i \in DOMAIN s /\ n + j \in DOMAIN s /\ s[n + i] = s[n + j]
      BY <1>1, <1>2
    <3>2. n + i = n + j
      BY <1>3, <3>1 DEF IsInjective
    <3> QED BY <3>2
  <2>2. \A k \in 1 .. Len(s) : s[k] \in ToSet(r) <=> k > n
    <3> TAKE k \in 1 .. Len(s)
    <3>1. ASSUME k > n PROVE s[k] \in ToSet(r)
      <4>1. k - n \in 1 .. (Len(s) - n) /\ n + (k - n) = k
        BY <1>2, <3>1
      <4> QED BY <1>1, <1>2, <4>1 DEF ToSet
    <3>2. ASSUME s[k] \in ToSet(r) PROVE k > n
      <4>1. PICK i \in 1 .. (Len(s) - n) : s[k] = r[i]
        BY <1>2, <3>2 DEF ToSet
      <4>2. n + i \in 1 .. Len(s) /\ s[k] = s[n + i]
        BY <1>1, <1>2, <4>1
      <4>3. k = n + i
        BY <1>2, <1>3, <4>2 DEF IsInjective
      <4> QED BY <4>1, <4>3
    <3> QED BY <3>1, <3>2
  <2>3. \A k \in 1 .. Len(s) : (\A j \in 1 .. n : s[k] # s[j]) <=> k > n
    BY <1>2, <1>3 DEF IsInjective
  <2>4. ToSet(r) \subseteq ToSet(s)
    <3>1. \A i \in 1 .. (Len(s) - n) : n + i \in 1 .. Len(s)
      BY <1>2
    <3> QED BY <1>1, <1>2, <3>1 DEF ToSet
  <2>5. ToSet(s) = {s[k] : k \in 1 .. Len(s)}
    BY <1>2 DEF ToSet
  <2> QED BY <1>2, <2>1, <2>2, <2>3, <2>4, <2>5
<1> QED BY <1>1, <1>3 DEF r

LEMMA CutSet ==
  ASSUME NEW S, NEW s \in Seq(S), NEW n \in 0 .. Len(s), IsInjective(s),
         NEW T, \A x : x \in T <=> \E k \in 1 .. n : x = s[k]
  PROVE  ToSet(SubSeq(s, n + 1, Len(s))) = ToSet(s) \ T
<1>1. \A x : x \in ToSet(SubSeq(s, n + 1, Len(s))) <=> x \in ToSet(s) /\ \A k \in 1 .. n : x # s[k]
  BY CutFacts
<1> QED BY <1>1

LEMMA ErasedFacts ==
  ASSUME NEW S, NEW s \in Seq(S), NEW e \in ToSet(s)
  PROVE  /\ Erased(s, e) \in Seq(S)
         /\ IsInjective(s) => IsInjective(Erased(s, e)) /\ ToSet(Erased(s, e)) = ToSet(s) \ {e}
<1> DEFINE k == CHOOSE i \in DOMAIN s : s[i] = e
           r == Erased(s, e)
<1>1. k \in DOMAIN s /\ s[k] = e
  <2>1. \E i \in DOMAIN s : s[i] = e
    BY DEF ToSet
  <2> QED BY <2>1
<1>2. r = SubSeq(s, 1, k - 1) \o SubSeq(s, k + 1, Len(s))
  BY DEF Erased, RemoveAt
<1> HIDE DEF k, r
<1>3. DOMAIN s = 1 .. Len(s) /\ k \in 1 .. Len(s) /\ Len(s) \in Nat
  BY <1>1
<1>4. /\ SubSeq(s, 1, k - 1) \in Seq(S) /\ Len(SubSeq(s, 1, k - 1)) = k - 1
      /\ \A i \in 1 .. (k - 1) : SubSeq(s, 1, k - 1)[i] = s[i]
  BY <1>3
<1>5. /\ SubSeq(s, k + 1, Len(s)) \in Seq(S) /\ Len(SubSeq(s, k + 1, Len(s))) = Len(s) - k
      /\ \A i \in 1 .. (Len(s) - k) : SubSeq(s, k + 1, Len(s))[i] = s[k + i]
  <2>1. k \in 0 .. Len(s)
    BY <1>3
  <2> QED BY <2>1, CutFacts
<1>6. /\ r \in Seq(S) /\ Len(r) = Len(s) - 1
      /\ \A i \in 1 .. (Len(s) - 1) : r[i] = IF i < k THEN s[i] ELSE s[i + 1]
  <2> DEFINE a == SubSeq(s, 1, k - 1)
             b == SubSeq(s, k + 1, Len(s))
  <2>1. a \in Seq(S) /\ b \in Seq(S) /\ r = a \o b
    BY <1>2, <1>4, <1>5
  <2>2. Len(a) = k - 1 /\ Len(b) = Len(s) - k
    BY <1>4, <1>5
  <2>3. /\ \A i \in 1 .. (k - 1) : a[i] = s[i]
        /\ \A i \in 1 .. (Len(s) - k) : b[i] = s[k + i]
    BY <1>4, <1>5
  <2> HIDE DEF a, b
  <2>4. /\ r \in Seq(S) /\ Len(r) = Len(a) + Len(b)
        /\ \A i \in 1 .. Len(a) + Len(b) : r[i] = IF i <= Len(a) THEN a[i] ELSE b[i - Len(a)]
    BY <2>1, ConcatProperties
  <2>5. Len(r) = Len(s) - 1
    BY <1>3, <2>2, <2>4
  <2>6. ASSUME NEW i \in 1 .. (Len(s) - 1)
        PROVE  r[i] = IF i < k THEN s[i] ELSE s[i + 1]
    <3>1. CASE i < k
      BY <1>3, <2>2, <2>3, <2>4, <3>1
    <3>2. CASE ~(i < k)
      <4>1. i - (k - 1) \in 1 .. (Len(s) - k) /\ k + (i - (k - 1)) = i + 1 /\ ~(i <= k - 1)
        BY <1>3, <3>2
      <4>2. r[i] = b[i - (k - 1)]
        <5>1. i \in 1 .. Len(a) + Len(b) /\ ~(i <= Len(a))
          BY <1>3, <2>2, <4>1
        <5>2. r[i] = b[i - Len(a)]
          BY <2>4, <5>1
        <5> QED BY <2>2, <5>2
      <4>3. r[i] = s[k + (i - (k - 1))]
        BY <2>3, <4>1, <4>2
      <4> QED BY <3>2, <4>1, <4>3
    <3> QED BY <3>1, <3>2
  <2> QED BY <2>4, <2>5, <2>6
<1>7. DOMAIN r = 1 .. (Len(s) - 1)
  BY <1>6
<1>8. ASSUME IsInjective(s)
      PROVE  IsInjective(r) /\ ToSet(r) = ToSet(s) \ {e}
  <2>1. \A i \in 1 .. (Len(s) - 1) : \E j \in 1 .. Len(s) :
          r[i] = s[j] /\ j # k /\ j = IF i < k THEN i ELSE i + 1
    BY <1>3, <1>6
  <2>2. IsInjective(r)
    <3> SUFFICES ASSUME NEW i \in 1 .. (Len(s) - 1), NEW j \in 1 .. (Len(s) - 1), r[i] = r[j]
        PROVE  i = j
      BY <1>7 DEF IsInjective
    <3> DEFINE Place(m) == IF m < k THEN m ELSE m + 1
    <3>1. Place(i) \in DOMAIN s /\ Place(j) \in DOMAIN s /\ s[Place(i)] = s[Place(j)]
      BY <1>3, <1>6
    <3>2. Place(i) = Place(j)
      BY <1>8, <3>1 DEF IsInjective
    <3> QED BY <1>3, <3>2
  <2>3. ToSet(r) \subseteq ToSet(s) \ {e}
    BY <1>1, <1>3, <1>7, <1>8, <2>1 DEF IsInjective, ToSet
  <2>4. ASSUME NEW j \in 1 .. Len(s), j # k
        PROVE  s[j] \in ToSet(r)
    <3>1. CASE j < k
      BY <1>3, <1>6, <1>7, <3>1 DEF ToSet
    <3>2. CASE j > k
      <4>1. j - 1 \in 1 .. (Len(s) - 1) /\ ~(j - 1 < k) /\ (j - 1) + 1 = j
        BY <1>3, <3>2
      <4> QED BY <1>6, <1>7, <4>1 DEF ToSet
    <3> QED BY <1>3, <2>4, <3>1, <3>2
  <2>5. ToSet(s) \ {e} \subseteq ToSet(r)
    BY <1>1, <1>3, <2>4 DEF ToSet
  <2> QED BY <2>2, <2>3, <2>5
<1> QED BY <1>6, <1>8 DEF r

\* The first clients of the queue take the first free channels.
LEMMA Scheduled ==
  ASSUME NEW infos \in [Clients -> ConfigInfos], NEW queue \in Seq(Clients),
         NEW free \in Seq(HistChannels), NEW channels \in [HistChannels -> ChannelInfos],
         NEW used \in SUBSET HistChannels, Accounts(infos, queue, free, channels, used),
         Scheduler(infos, queue, free, channels, used)
  PROVE  /\ configInfo' \in [Clients -> ConfigInfos] /\ inactive' \in Seq(Clients)
         /\ mFreeChannels' \in Seq(HistChannels) /\ mUsedChannels' \subseteq HistChannels
         /\ mChannels' \in [HistChannels -> ChannelInfos]
         /\ ChannelsAccounted'
         /\ \A ch \in HistChannels : mChannels'[ch].status = "pending" \/ mChannels'[ch] = channels[ch]
         /\ \A c \in Clients : /\ configInfo'[c].config = infos[c].config
                               /\ configInfo'[c].blobs = infos[c].blobs
<1> DEFINE n == IF Len(queue) < Len(free) THEN Len(queue) ELSE Len(free)
           turn(c) == CHOOSE k \in 1 .. n : queue[k] = c
           chosen == {queue[k] : k \in 1 .. n}
           taken == {free[k] : k \in 1 .. n}
<1>1. /\ configInfo' = [c \in Clients |->
            IF c \in chosen THEN [infos[c] EXCEPT !.status = "assigned", !.channel = free[turn(c)]]
            ELSE infos[c]]
      /\ mChannels' = [ch \in HistChannels |->
            IF ch \in taken
            THEN [status |-> "pending", owner |-> CHOOSE c \in chosen : free[turn(c)] = ch]
            ELSE channels[ch]]
      /\ inactive' = SubSeq(queue, n + 1, Len(queue))
      /\ mFreeChannels' = SubSeq(free, n + 1, Len(free))
      /\ mUsedChannels' = used \union taken
  BY DEF Scheduler
<1> HIDE DEF turn, chosen, taken
<1>2. /\ n \in Nat /\ n <= Len(queue) /\ n <= Len(free) /\ (n = Len(queue) \/ n = Len(free))
      /\ Len(queue) \in Nat /\ Len(free) \in Nat
  OBVIOUS
<1> HIDE DEF n
<1>20. /\ DOMAIN queue = 1 .. Len(queue) /\ DOMAIN free = 1 .. Len(free)
       /\ \A k \in 1 .. Len(queue) : queue[k] \in Clients
       /\ \A k \in 1 .. Len(free) : free[k] \in HistChannels
  OBVIOUS
<1>21. n \in 0 .. Len(queue) /\ n \in 0 .. Len(free)
  BY <1>2
<1>22. \A k \in 1 .. n : k \in 1 .. Len(queue) /\ k \in 1 .. Len(free)
  BY <1>2
<1>3. IsInjective(queue) /\ IsInjective(free)
  BY DEF Accounts
<1>4. \A k \in 1 .. n : k \in DOMAIN queue /\ k \in DOMAIN free
                        /\ queue[k] \in Clients /\ free[k] \in HistChannels
  BY <1>20, <1>22
<1>5. \A k \in 1 .. n : turn(queue[k]) = k
  <2> TAKE k \in 1 .. n
  <2>1. \A j \in 1 .. n : queue[j] = queue[k] => j = k
    BY <1>3, <1>4 DEF IsInjective
  <2> QED BY <2>1 DEF turn
<1>6. \A k \in 1 .. n : (CHOOSE c \in chosen : free[turn(c)] = free[k]) = queue[k]
  <2> TAKE k \in 1 .. n
  <2>1. queue[k] \in chosen /\ free[turn(queue[k])] = free[k]
    BY <1>5 DEF chosen
  <2>2. ASSUME NEW c \in chosen, free[turn(c)] = free[k] PROVE c = queue[k]
    <3>1. PICK j \in 1 .. n : c = queue[j]
      BY DEF chosen
    <3>2. free[j] = free[k]
      BY <1>5, <2>2, <3>1
    <3>3. j = k
      BY <1>3, <1>4, <3>2 DEF IsInjective
    <3> QED BY <3>1, <3>3
  <2> QED BY <2>1, <2>2
<1>7. \A k \in 1 .. n :
        /\ configInfo'[queue[k]] = [infos[queue[k]] EXCEPT !.status = "assigned", !.channel = free[k]]
        /\ mChannels'[free[k]] = [status |-> "pending", owner |-> queue[k]]
  <2> TAKE k \in 1 .. n
  <2>1. queue[k] \in Clients /\ queue[k] \in chosen /\ free[k] \in HistChannels /\ free[k] \in taken
    BY <1>4 DEF chosen, taken
  <2>2. free[turn(queue[k])] = free[k]
    BY <1>5
  <2> QED BY <1>1, <1>6, <2>1, <2>2
<1>8. /\ \A c \in Clients \ chosen : configInfo'[c] = infos[c]
      /\ \A ch \in HistChannels \ taken : mChannels'[ch] = channels[ch]
  BY <1>1
<1>9. /\ inactive' \in Seq(Clients) /\ mFreeChannels' \in Seq(HistChannels)
      /\ IsInjective(inactive') /\ IsInjective(mFreeChannels')
      /\ ToSet(inactive') = ToSet(queue) \ chosen /\ ToSet(mFreeChannels') = ToSet(free) \ taken
      /\ inactive' # <<>> => mFreeChannels' = <<>>
  <2>1. /\ inactive' \in Seq(Clients) /\ Len(inactive') = Len(queue) - n
        /\ IsInjective(inactive') /\ ToSet(inactive') = ToSet(queue) \ chosen
    <3>1. inactive' = SubSeq(queue, n + 1, Len(queue))
      BY <1>1
    <3>2. SubSeq(queue, n + 1, Len(queue)) \in Seq(Clients)
      BY <1>21, CutFacts
    <3>3. Len(SubSeq(queue, n + 1, Len(queue))) = Len(queue) - n
      BY <1>21, CutFacts
    <3>4. IsInjective(queue) /\ n \in 0 .. Len(queue)
      BY <1>3, <1>21
    <3>5. IsInjective(SubSeq(queue, n + 1, Len(queue)))
      BY <3>4, CutFacts
    <3>6. \A x : x \in chosen <=> \E k \in 1 .. n : x = queue[k]
      BY DEF chosen
    <3>7. ToSet(SubSeq(queue, n + 1, Len(queue))) = ToSet(queue) \ chosen
      BY <3>4, <3>6, CutSet
    <3> QED BY <3>1, <3>2, <3>3, <3>5, <3>7
  <2>2. /\ mFreeChannels' \in Seq(HistChannels) /\ Len(mFreeChannels') = Len(free) - n
        /\ IsInjective(mFreeChannels') /\ ToSet(mFreeChannels') = ToSet(free) \ taken
    <3>1. mFreeChannels' = SubSeq(free, n + 1, Len(free))
      BY <1>1
    <3>2. SubSeq(free, n + 1, Len(free)) \in Seq(HistChannels)
      BY <1>21, CutFacts
    <3>3. Len(SubSeq(free, n + 1, Len(free))) = Len(free) - n
      BY <1>21, CutFacts
    <3>4. IsInjective(free) /\ n \in 0 .. Len(free)
      BY <1>3, <1>21
    <3>5. IsInjective(SubSeq(free, n + 1, Len(free)))
      BY <3>4, CutFacts
    <3>6. \A x : x \in taken <=> \E k \in 1 .. n : x = free[k]
      BY DEF taken
    <3>7. ToSet(SubSeq(free, n + 1, Len(free))) = ToSet(free) \ taken
      BY <3>4, <3>6, CutSet
    <3> QED BY <3>1, <3>2, <3>3, <3>5, <3>7
  <2>3. Len(inactive') = 0 \/ Len(mFreeChannels') = 0
    BY <1>2, <2>1, <2>2
  <2> QED BY <2>1, <2>2, <2>3
<1>10. /\ chosen \subseteq ToSet(queue) /\ chosen \subseteq Clients
       /\ taken \subseteq ToSet(free) /\ taken \subseteq HistChannels
  BY <1>4 DEF ToSet, chosen, taken
<1>11. \A k \in 1 .. n :
         /\ configInfo'[queue[k]] \in ConfigInfos
         /\ configInfo'[queue[k]].status = "assigned" /\ configInfo'[queue[k]].channel = free[k]
         /\ configInfo'[queue[k]].config = infos[queue[k]].config
         /\ configInfo'[queue[k]].blobs = infos[queue[k]].blobs
         /\ mChannels'[free[k]] \in ChannelInfos
         /\ mChannels'[free[k]].status = "pending" /\ mChannels'[free[k]].owner = queue[k]
  <2> TAKE k \in 1 .. n
  <2>1. infos[queue[k]] \in ConfigInfos
    BY <1>4
  <2>2. mChannels'[free[k]] = [status |-> "pending", owner |-> queue[k]] /\ queue[k] \in Clients
    BY <1>4, <1>7
  <2>3. free[k] \in HistChannels
    BY <1>4
  <2>4. configInfo'[queue[k]] =
          [config |-> infos[queue[k]].config, status |-> "assigned", channel |-> free[k],
           blobs |-> infos[queue[k]].blobs]
    BY <1>7, <2>1 DEF ConfigInfos
  <2>5. configInfo'[queue[k]] \in ConfigInfos
    BY <2>1, <2>3, <2>4 DEF ConfigInfos
  <2>6. mChannels'[free[k]] \in ChannelInfos
    BY <2>2 DEF ChannelInfos
  <2> QED BY <2>2, <2>4, <2>5, <2>6
<1>12. /\ \A c \in chosen : \E k \in 1 .. n : c = queue[k]
       /\ \A ch \in taken : \E k \in 1 .. n : ch = free[k]
       /\ \A k \in 1 .. n : queue[k] \in chosen /\ free[k] \in taken
  BY DEF chosen, taken
<1>13. configInfo' \in [Clients -> ConfigInfos]
  <2>1. \A c \in Clients : infos[c] \in ConfigInfos
    OBVIOUS
  <2>2. \A c \in Clients : configInfo'[c] \in ConfigInfos
    BY <1>8, <1>11, <1>12, <2>1
  <2>3. DOMAIN configInfo' = Clients /\ configInfo' = [c \in DOMAIN configInfo' |-> configInfo'[c]]
    BY <1>1
  <2> QED BY <2>2, <2>3
<1>14. mChannels' \in [HistChannels -> ChannelInfos]
  <2>1. \A ch \in HistChannels : channels[ch] \in ChannelInfos
    OBVIOUS
  <2>2. \A ch \in HistChannels : mChannels'[ch] \in ChannelInfos
    BY <1>8, <1>11, <1>12, <2>1
  <2>3. DOMAIN mChannels' = HistChannels /\ mChannels' = [ch \in DOMAIN mChannels' |-> mChannels'[ch]]
    BY <1>1
  <2> QED BY <2>2, <2>3
<1>15. Accounts(configInfo', inactive', mFreeChannels', mChannels', mUsedChannels')
  <2>1. /\ ToSet(mFreeChannels') \intersect mUsedChannels' = {}
        /\ ToSet(mFreeChannels') \union mUsedChannels' = HistChannels \ ReservedChannels
    BY <1>1, <1>9, <1>10 DEF Accounts
  <2>2. ASSUME NEW c \in Clients
        PROVE  /\ configInfo'[c].status = "inactive" <=> c \in ToSet(inactive')
               /\ configInfo'[c].status = "assigned" <=> configInfo'[c].channel # NoChannel
               /\ configInfo'[c].status = "assigned" => mChannels'[configInfo'[c].channel].owner = c
               /\ infos[c].channel \in used => configInfo'[c].channel = infos[c].channel
               /\ configInfo'[c].channel \in used \union taken \union {NoChannel}
    <3>1. CASE c \in chosen
      <4>1. PICK k \in 1 .. n : c = queue[k]
        BY <1>12, <3>1
      <4>2. configInfo'[c].status = "assigned" /\ configInfo'[c].channel = free[k]
            /\ mChannels'[free[k]].owner = c /\ free[k] \in taken
        BY <1>11, <1>12, <4>1
      <4>3. free[k] # NoChannel
        BY <1>4, HistogramAssumption
      <4>4. c \notin ToSet(inactive') /\ c \in ToSet(queue)
        BY <1>9, <1>10, <3>1
      <4>5. infos[c].channel \notin used
        BY <4>4 DEF Accounts
      <4> QED BY <4>2, <4>3, <4>4, <4>5
    <3>2. CASE c \notin chosen
      <4>1. configInfo'[c] = infos[c] /\ (c \in ToSet(inactive') <=> c \in ToSet(queue))
        BY <1>8, <1>9, <3>2
      <4>2. /\ infos[c].status = "inactive" <=> c \in ToSet(queue)
            /\ infos[c].status = "assigned" <=> infos[c].channel # NoChannel
            /\ infos[c].status = "assigned" => channels[infos[c].channel].owner = c
            /\ infos[c].channel \in used \union {NoChannel}
        BY DEF Accounts
      <4>3. infos[c].status = "assigned" => infos[c].channel \in used /\ infos[c].channel \notin taken
        BY <1>10, <4>2 DEF Accounts
      <4>4. infos[c].status = "assigned" => mChannels'[infos[c].channel] = channels[infos[c].channel]
        BY <1>8, <4>3
      <4> QED BY <4>1, <4>2, <4>4
    <3> QED BY <3>1, <3>2
  <2>3. mUsedChannels' = {configInfo'[c].channel : c \in Clients} \ {NoChannel}
    <3>1. \A c \in Clients : configInfo'[c].channel \in mUsedChannels' \union {NoChannel}
      BY <1>1, <2>2
    <3>2. ASSUME NEW ch \in mUsedChannels'
          PROVE  ch # NoChannel /\ \E c \in Clients : configInfo'[c].channel = ch
      <4>1. ch \in HistChannels
        BY <1>1, <1>10, <3>2
      <4>2. CASE ch \in used
        <5>1. PICK c \in Clients : infos[c].channel = ch
          BY <4>2 DEF Accounts
        <5> QED BY <2>2, <4>1, <4>2, <5>1, HistogramAssumption
      <4>3. CASE ch \in taken
        BY <1>4, <1>11, <1>12, <4>1, <4>3, HistogramAssumption
      <4> QED BY <1>1, <4>2, <4>3
    <3> QED BY <3>1, <3>2
  <2>4. ASSUME NEW ch \in HistChannels
        PROVE  mChannels'[ch].status \in
                 IF ch \in ReservedChannels THEN {"reserved"}
                 ELSE IF ch \in mUsedChannels' THEN {"pending", "blob_added", "committed", "error"}
                 ELSE {"disabled", "disable_pending", "disable_blob_added", "disable_error"}
    <3>1. CASE ch \in taken
      <4>1. ch \in mUsedChannels' /\ ch \notin ReservedChannels
        BY <1>1, <1>10, <3>1 DEF Accounts
      <4>2. mChannels'[ch].status = "pending"
        BY <1>11, <1>12, <3>1
      <4> QED BY <4>1, <4>2
    <3>2. CASE ch \notin taken
      <4>1. mChannels'[ch] = channels[ch] /\ (ch \in mUsedChannels' <=> ch \in used)
        BY <1>1, <1>8, <3>2
      <4> QED BY <4>1 DEF Accounts
    <3> QED BY <3>1, <3>2
  <2> QED BY <1>9, <2>1, <2>2, <2>3, <2>4 DEF Accounts
<1>16. ChannelsAccounted'
  BY <1>9, <1>15 DEF ChannelsAccounted, Accounts
<1>17. mUsedChannels' \subseteq HistChannels
  BY <1>1, <1>10
<1>18. \A ch \in HistChannels : mChannels'[ch].status = "pending" \/ mChannels'[ch] = channels[ch]
  BY <1>8, <1>11, <1>12
<1>19. \A c \in Clients : configInfo'[c].config = infos[c].config /\ configInfo'[c].blobs = infos[c].blobs
  BY <1>8, <1>11, <1>12
<1> QED BY <1>9, <1>13, <1>14, <1>16, <1>17, <1>18, <1>19

LEMMA AppendFacts ==
  ASSUME NEW S, NEW s \in Seq(S), NEW e \in S
  PROVE  /\ Append(s, e) \in Seq(S)
         /\ ToSet(Append(s, e)) = ToSet(s) \union {e}
         /\ IsInjective(s) /\ e \notin ToSet(s) => IsInjective(Append(s, e))
<1>1. /\ Append(s, e) \in Seq(S) /\ DOMAIN s = 1 .. Len(s) /\ Len(s) \in Nat
      /\ DOMAIN Append(s, e) = 1 .. (Len(s) + 1)
      /\ \A i \in 1 .. Len(s) : Append(s, e)[i] = s[i]
      /\ Append(s, e)[Len(s) + 1] = e
  OBVIOUS
<1>2. ToSet(Append(s, e)) = ToSet(s) \union {e}
  <2>1. \A x : x \in ToSet(Append(s, e)) <=> \E i \in 1 .. (Len(s) + 1) : Append(s, e)[i] = x
    BY <1>1 DEF ToSet
  <2>2. \A x : x \in ToSet(s) <=> \E i \in 1 .. Len(s) : s[i] = x
    BY <1>1 DEF ToSet
  <2>3. \A i \in 1 .. (Len(s) + 1) : i \in 1 .. Len(s) \/ i = Len(s) + 1
    BY <1>1
  <2>4. Len(s) + 1 \in 1 .. (Len(s) + 1) /\ \A i \in 1 .. Len(s) : i \in 1 .. (Len(s) + 1)
    BY <1>1
  <2> QED BY <1>1, <2>1, <2>2, <2>3, <2>4
<1>3. ASSUME IsInjective(s), e \notin ToSet(s) PROVE IsInjective(Append(s, e))
  <2>1. \A i \in 1 .. Len(s) : s[i] # e
    BY <1>1, <1>3 DEF ToSet
  <2> QED BY <1>1, <1>3, <2>1 DEF IsInjective
<1> QED BY <1>1, <1>2, <1>3

LEMMA HistInitInv == HistogramInit => HistInv
<1> SUFFICES ASSUME HistogramInit PROVE HistInv
  OBVIOUS
<1> USE DEF HistogramInit
<1>1. \A c \in Clients : configInfo[c] = NoInfo
  OBVIOUS
<1>2. /\ NoInfo \in ConfigInfos /\ NoInfo.status = "none" /\ NoInfo.channel = NoChannel
  BY DEF NoInfo, ConfigInfos
<1>3. Usable \subseteq HistChannels /\ Usable = HistChannels \ ReservedChannels
  BY DEF Usable
<1>4. mFreeChannels \in Seq(HistChannels) /\ ToSet(mFreeChannels) = Usable
  <2>1. Cardinality(Usable) \in Nat
    BY <1>3, HistogramAssumption, FS_Subset, FS_CardinalityType
  <2>2. mFreeChannels \in [1 .. Cardinality(Usable) -> HistChannels]
    BY <1>3
  <2> QED BY <2>1, <2>2
<1>5. IsInjective(mFreeChannels)
  <2> SUFFICES ASSUME NEW i \in DOMAIN mFreeChannels, NEW j \in DOMAIN mFreeChannels,
                      mFreeChannels[i] = mFreeChannels[j]
      PROVE  i = j
    BY DEF IsInjective
  <2>1. Ascending(mFreeChannels) /\ i \in Nat /\ j \in Nat
    OBVIOUS
  <2>2. mFreeChannels[i] \in HistChannels /\ mFreeChannels[j] \in HistChannels
    BY <1>3, <1>4 DEF ToSet
  <2>3. mFreeChannels[i] \in Nat /\ mFreeChannels[j] \in Nat
    BY <2>2, HistogramAssumption
  <2>4. ~(i < j) /\ ~(j < i)
    BY <2>1, <2>3 DEF Ascending
  <2> QED BY <2>1, <2>4
<1>6. /\ mChannels \in [HistChannels -> ChannelInfos]
      /\ \A ch \in HistChannels :
           mChannels[ch].status = IF ch \in ReservedChannels THEN "reserved" ELSE "disabled"
  BY DEF ChannelInfos
<1>7. HistType
  <2>1. configInfo \in [Clients -> ConfigInfos] /\ inactive \in Seq(Clients) /\ active \in AllSizes
    BY <1>2 DEF AllSizes
  <2>2. DOMAIN request = HistChannels /\ \A ch \in HistChannels : DOMAIN request[ch] = {"set", "blob", "of"}
    BY DEF Untouched
  <2> QED BY <1>4, <1>6, <2>1, <2>2 DEF HistType
<1>8. ChannelsAccounted
  <2>1. IsInjective(inactive) /\ ToSet(inactive) = {}
    BY DEF IsInjective, ToSet
  <2>2. mUsedChannels = {configInfo[c].channel : c \in Clients} \ {NoChannel}
    BY <1>1, <1>2
  <2> QED BY <1>1, <1>2, <1>3, <1>4, <1>5, <1>6, <2>1, <2>2 DEF ChannelsAccounted
<1>9. ProgramInv
  BY <1>6 DEF ProgramInv
<1> QED BY <1>7, <1>8, <1>9 DEF HistInv

(* What the clients do leaves alone what the settled channels run.         *)
LEMMA ProgramsKept ==
  ASSUME ProgramInv, UNCHANGED <<phase, active, kernel, lost>>,
         \A ch \in HistChannels : request'[ch].set = request[ch].set /\ request'[ch].blob = request[ch].blob,
         \A ch \in HistChannels :
           mChannels'[ch].status \in {"committed", "disabled", "blob_added", "disable_blob_added"} =>
             mChannels'[ch] = mChannels[ch],
         \A ch \in HistChannels :
           mChannels'[ch].status \in {"committed", "blob_added"} =>
             /\ configInfo'[mChannels[ch].owner].config = configInfo[mChannels[ch].owner].config
             /\ configInfo'[mChannels[ch].owner].blobs = configInfo[mChannels[ch].owner].blobs
  PROVE  ProgramInv'
<1> SUFFICES ASSUME NEW ch \in HistChannels \ lost
    PROVE  /\ mChannels'[ch].status = "committed" =>
                /\ HasBlobs(ch)' /\ kernel'[ch] = Wanted(ch)'
                /\ phase' = "prepared" => UpToDate(ch)' /\ ~request'[ch].set
           /\ mChannels'[ch].status = "disabled" =>
                kernel'[ch] = NoBlob /\ (phase' = "prepared" => ~request'[ch].set)
           /\ mChannels'[ch].status = "blob_added" =>
                /\ HasBlobs(ch)' /\ phase' # "idle"
                /\ phase' = "prepared" => request'[ch].set /\ request'[ch].blob = Wanted(ch)' /\ UpToDate(ch)'
                /\ phase' = "committed" => kernel'[ch] = Wanted(ch)'
           /\ mChannels'[ch].status = "disable_blob_added" =>
                /\ phase' # "idle"
                /\ phase' = "prepared" => request'[ch].set /\ request'[ch].blob = NoBlob
                /\ phase' = "committed" => kernel'[ch] = NoBlob
  BY DEF ProgramInv
<1>1. mChannels'[ch].status \in {"committed", "blob_added"} =>
        /\ HasBlobs(ch)' <=> HasBlobs(ch)
        /\ Wanted(ch)' = Wanted(ch)
        /\ UpToDate(ch)' <=> UpToDate(ch)
  BY DEF HasBlobs, Wanted, UpToDate
<1> QED BY <1>1 DEF ProgramInv

LEMMA HistRegister ==
  ASSUME HistInv, NEW c \in Clients, NEW config \in HistConfigs, NEW created \in BOOLEAN,
         RegisterHistogram(c, config, created)
  PROVE  HistInv'
<1> DEFINE info == [config |-> config, status |-> "inactive", channel |-> NoChannel,
                    blobs |-> EarlyBlobs(created)]
           infos == [configInfo EXCEPT ![c] = info]
           queue == Append(inactive, c)
<1>1. /\ HistType /\ ChannelsAccounted /\ ProgramInv /\ configInfo[c].status = "none"
      /\ Scheduler(infos, queue, mFreeChannels, mChannels, mUsedChannels)
      /\ UNCHANGED <<request, phase, active, kernel, lost>>
      /\ Accounts(configInfo, inactive, mFreeChannels, mChannels, mUsedChannels)
  BY AccountsAre DEF HistInv, RegisterHistogram, IsRegistered
<1>2. info \in ConfigInfos /\ info.status = "inactive" /\ info.channel = NoChannel
  BY <1>1 DEF ConfigInfos, EarlyBlobs, HistType
<1> HIDE DEF info
<1>3. /\ infos \in [Clients -> ConfigInfos] /\ infos[c] = info
      /\ \A d \in Clients \ {c} : infos[d] = configInfo[d]
  BY <1>1, <1>2 DEF HistType
<1>4. c \notin ToSet(inactive) /\ configInfo[c].channel = NoChannel
  BY <1>1 DEF Accounts
<1>5. queue \in Seq(Clients) /\ IsInjective(queue) /\ ToSet(queue) = ToSet(inactive) \union {c}
  BY <1>1, <1>4, AppendFacts DEF Accounts, HistType
<1> HIDE DEF infos, queue
<1>6. Accounts(infos, queue, mFreeChannels, mChannels, mUsedChannels)
  <2>1. \A d \in Clients : infos[d].channel = configInfo[d].channel
    BY <1>2, <1>3, <1>4
  <2>2. mUsedChannels = {infos[d].channel : d \in Clients} \ {NoChannel}
    BY <1>1, <2>1 DEF Accounts
  <2>3. ASSUME NEW d \in Clients
        PROVE  /\ infos[d].status = "inactive" <=> d \in ToSet(queue)
               /\ infos[d].status = "assigned" <=> infos[d].channel # NoChannel
               /\ infos[d].status = "assigned" => mChannels[infos[d].channel].owner = d
    <3>1. CASE d = c
      BY <1>2, <1>3, <1>5, <3>1
    <3>2. CASE d # c
      BY <1>1, <1>3, <1>5, <3>2 DEF Accounts
    <3> QED BY <3>1, <3>2
  <2> QED BY <1>1, <1>5, <2>2, <2>3 DEF Accounts
<1>7. /\ configInfo' \in [Clients -> ConfigInfos] /\ inactive' \in Seq(Clients)
      /\ mFreeChannels' \in Seq(HistChannels) /\ mUsedChannels' \subseteq HistChannels
      /\ mChannels' \in [HistChannels -> ChannelInfos]
      /\ ChannelsAccounted'
      /\ \A ch \in HistChannels : mChannels'[ch].status = "pending" \/ mChannels'[ch] = mChannels[ch]
      /\ \A d \in Clients : /\ configInfo'[d].config = infos[d].config
                            /\ configInfo'[d].blobs = infos[d].blobs
  BY <1>1, <1>3, <1>5, <1>6, Scheduled DEF HistType
<1>8. ASSUME NEW ch \in HistChannels, mChannels'[ch].status \in {"committed", "blob_added"}
      PROVE  /\ configInfo'[mChannels[ch].owner].config = configInfo[mChannels[ch].owner].config
             /\ configInfo'[mChannels[ch].owner].blobs = configInfo[mChannels[ch].owner].blobs
  <2>1. ch \in mUsedChannels
    BY <1>1, <1>7, <1>8 DEF Accounts
  <2>2. mChannels[ch].owner \in Clients /\ configInfo[mChannels[ch].owner].status = "assigned"
    BY <1>1, <2>1, OwnersHold
  <2> QED BY <1>1, <1>3, <1>7, <2>2
<1>9. ProgramInv'
  BY <1>1, <1>7, <1>8, ProgramsKept
<1> QED BY <1>1, <1>7, <1>9 DEF HistInv, HistType

LEMMA HistReconfig ==
  ASSUME HistInv, NEW c \in Clients, NEW config \in HistConfigs, NEW created \in BOOLEAN,
         ReconfigHistogram(c, config, created)
  PROVE  HistInv'
<1>1. /\ HistType /\ ChannelsAccounted /\ ProgramInv
      /\ configInfo' = [configInfo EXCEPT ![c].config = config, ![c].blobs = EarlyBlobs(created)]
      /\ mChannels' = IF configInfo[c].status # "assigned" THEN mChannels
                      ELSE [mChannels EXCEPT ![configInfo[c].channel] =
                              Reconfigured(configInfo[c].channel)]
      /\ DestroyBlobs(c)
      /\ UNCHANGED <<inactive, mFreeChannels, mUsedChannels, phase, active, kernel, lost>>
      /\ Accounts(configInfo, inactive, mFreeChannels, mChannels, mUsedChannels)
  BY AccountsAre DEF HistInv, ReconfigHistogram
<1>2. EarlyBlobs(created) \in Seq(AllSizes)
  BY <1>1 DEF EarlyBlobs, HistType
<1>3. /\ configInfo' \in [Clients -> ConfigInfos]
      /\ \A d \in Clients : /\ configInfo'[d].status = configInfo[d].status
                            /\ configInfo'[d].channel = configInfo[d].channel
      /\ \A d \in Clients \ {c} : configInfo'[d] = configInfo[d]
  <2> DEFINE info == [[configInfo[c] EXCEPT !.config = config] EXCEPT !.blobs = EarlyBlobs(created)]
  <2>1. configInfo[c] \in ConfigInfos
    BY <1>1 DEF HistType
  <2>2. info \in ConfigInfos /\ info.status = configInfo[c].status /\ info.channel = configInfo[c].channel
    BY <1>2, <2>1 DEF ConfigInfos
  <2>3. configInfo' = [configInfo EXCEPT ![c] = info]
    BY <1>1, <2>1 DEF HistType
  <2> HIDE DEF info
  <2> QED BY <1>1, <2>2, <2>3 DEF HistType
<1>4. /\ mChannels' \in [HistChannels -> ChannelInfos]
      /\ \A ch \in HistChannels :
           /\ mChannels'[ch] = mChannels[ch] \/ (mChannels'[ch].status = "pending" /\ ch \in mUsedChannels)
           /\ mChannels'[ch].owner = mChannels[ch].owner
      /\ configInfo[c].status = "assigned" => mChannels'[configInfo[c].channel].status = "pending"
  <2>1. CASE configInfo[c].status # "assigned"
    BY <1>1, <2>1 DEF HistType
  <2>2. CASE configInfo[c].status = "assigned"
    <3> DEFINE ch == configInfo[c].channel
    <3>1. ch \in mUsedChannels /\ ch \in HistChannels
      BY <1>1, <2>2 DEF Accounts, HistType
    <3> HIDE DEF ch
    <3>2. mChannels' = [mChannels EXCEPT ![ch] = [mChannels[ch] EXCEPT !.status = "pending"]]
      BY <1>1, <2>2 DEF Reconfigured, ch
    <3>3. mChannels[ch] \in ChannelInfos
      BY <1>1, <3>1 DEF HistType
    <3>4. /\ [mChannels[ch] EXCEPT !.status = "pending"] \in ChannelInfos
          /\ [mChannels[ch] EXCEPT !.status = "pending"].status = "pending"
          /\ [mChannels[ch] EXCEPT !.status = "pending"].owner = mChannels[ch].owner
      BY <3>3 DEF ChannelInfos
    <3>5. /\ mChannels' \in [HistChannels -> ChannelInfos]
          /\ mChannels'[ch] = [mChannels[ch] EXCEPT !.status = "pending"]
          /\ \A e \in HistChannels \ {ch} : mChannels'[e] = mChannels[e]
      BY <1>1, <3>1, <3>2, <3>4 DEF HistType
    <3> QED BY <3>1, <3>4, <3>5 DEF ch
  <2> QED BY <2>1, <2>2
<1>5. ChannelsAccounted'
  <2>1. mUsedChannels' = {configInfo'[d].channel : d \in Clients} \ {NoChannel}
    BY <1>1, <1>3 DEF Accounts
  <2>2. ASSUME NEW d \in Clients
        PROVE  /\ configInfo'[d].status = "inactive" <=> d \in ToSet(inactive')
               /\ configInfo'[d].status = "assigned" <=> configInfo'[d].channel # NoChannel
               /\ configInfo'[d].status = "assigned" => mChannels'[configInfo'[d].channel].owner = d
    <3>1. configInfo[d].status = "assigned" => configInfo[d].channel \in HistChannels
      BY <1>1 DEF Accounts, HistType
    <3> QED BY <1>1, <1>3, <1>4, <3>1 DEF Accounts
  <2>3. ASSUME NEW ch \in HistChannels
        PROVE  mChannels'[ch].status \in
                 IF ch \in ReservedChannels THEN {"reserved"}
                 ELSE IF ch \in mUsedChannels' THEN {"pending", "blob_added", "committed", "error"}
                 ELSE {"disabled", "disable_pending", "disable_blob_added", "disable_error"}
    BY <1>1, <1>4 DEF Accounts
  <2> QED BY <1>1, <2>1, <2>2, <2>3 DEF ChannelsAccounted
<1>6. /\ DOMAIN request' = HistChannels
      /\ \A ch \in HistChannels : /\ DOMAIN request'[ch] = {"set", "blob", "of"}
                                  /\ request'[ch].set = request[ch].set
                                  /\ request'[ch].blob = request[ch].blob
  BY <1>1 DEF DestroyBlobs, HistType
<1>7. ASSUME NEW ch \in HistChannels, mChannels'[ch].status \in {"committed", "blob_added"}
      PROVE  /\ configInfo'[mChannels[ch].owner].config = configInfo[mChannels[ch].owner].config
             /\ configInfo'[mChannels[ch].owner].blobs = configInfo[mChannels[ch].owner].blobs
  <2>1. ch \in mUsedChannels
    BY <1>1, <1>4, <1>7 DEF Accounts
  <2>2. /\ mChannels[ch].owner \in Clients /\ configInfo[mChannels[ch].owner].status = "assigned"
        /\ configInfo[mChannels[ch].owner].channel = ch
    BY <1>1, <2>1, OwnersHold
  <2>3. mChannels[ch].owner # c
    BY <1>4, <1>7, <2>2
  <2> QED BY <1>3, <2>2, <2>3
<1>8. ProgramInv'
  <2>1. \A ch \in HistChannels :
          mChannels'[ch].status \in {"committed", "disabled", "blob_added", "disable_blob_added"} =>
            mChannels'[ch] = mChannels[ch]
    BY <1>4
  <2> QED BY <1>1, <1>6, <1>7, <2>1, ProgramsKept
<1> QED BY <1>1, <1>3, <1>4, <1>5, <1>6, <1>8 DEF HistInv, HistType

LEMMA HistUnregister ==
  ASSUME HistInv, NEW c \in Clients, UnregisterHistogram(c)
  PROVE  HistInv'
<1> DEFINE ch == configInfo[c].channel
           infos == [configInfo EXCEPT ![c] = NoInfo]
           cleaned == [mChannels EXCEPT ![ch] = [status |-> "disable_pending", owner |-> Nobody]]
<1>1. /\ HistType /\ ChannelsAccounted /\ ProgramInv
      /\ configInfo[c].status # "none" /\ DestroyBlobs(c)
      /\ UNCHANGED <<phase, active, kernel, lost>>
      /\ Accounts(configInfo, inactive, mFreeChannels, mChannels, mUsedChannels)
  BY AccountsAre DEF HistInv, UnregisterHistogram, IsRegistered
<1>2. /\ DOMAIN request' = HistChannels
      /\ \A e \in HistChannels : /\ DOMAIN request'[e] = {"set", "blob", "of"}
                                 /\ request'[e].set = request[e].set
                                 /\ request'[e].blob = request[e].blob
  BY <1>1 DEF DestroyBlobs, HistType
<1>3. NoInfo \in ConfigInfos /\ NoInfo.status = "none" /\ NoInfo.channel = NoChannel
  BY DEF NoInfo, ConfigInfos
<1>4. /\ infos \in [Clients -> ConfigInfos] /\ infos[c] = NoInfo
      /\ \A d \in Clients \ {c} : infos[d] = configInfo[d]
  BY <1>1, <1>3 DEF HistType
<1>5. /\ mFreeChannels \in Seq(HistChannels) /\ inactive \in Seq(Clients)
      /\ mChannels \in [HistChannels -> ChannelInfos] /\ mUsedChannels \subseteq HistChannels
      /\ configInfo[c] \in ConfigInfos
  BY <1>1 DEF HistType
<1> HIDE DEF infos
<1>6. ASSUME NEW queue \in Seq(Clients), NEW free \in Seq(HistChannels),
             NEW channels \in [HistChannels -> ChannelInfos], NEW used \in SUBSET HistChannels,
             Accounts(infos, queue, free, channels, used), Scheduler(infos, queue, free, channels, used),
             \A e \in HistChannels : channels[e] = mChannels[e] \/ channels[e].status = "disable_pending",
             \A e \in used : channels[e] = mChannels[e] /\ mChannels[e].owner # c
      PROVE  HistInv'
  <2>1. /\ configInfo' \in [Clients -> ConfigInfos] /\ inactive' \in Seq(Clients)
        /\ mFreeChannels' \in Seq(HistChannels) /\ mUsedChannels' \subseteq HistChannels
        /\ mChannels' \in [HistChannels -> ChannelInfos]
        /\ ChannelsAccounted'
        /\ \A e \in HistChannels : mChannels'[e].status = "pending" \/ mChannels'[e] = channels[e]
        /\ \A d \in Clients : /\ configInfo'[d].config = infos[d].config
                              /\ configInfo'[d].blobs = infos[d].blobs
    BY <1>4, <1>6, Scheduled
  <2>2. ASSUME NEW e \in HistChannels, mChannels'[e].status \in {"committed", "blob_added"}
        PROVE  /\ configInfo'[mChannels[e].owner].config = configInfo[mChannels[e].owner].config
               /\ configInfo'[mChannels[e].owner].blobs = configInfo[mChannels[e].owner].blobs
    <3>1. e \in used
      BY <1>6, <2>1, <2>2 DEF Accounts
    <3>2. mChannels[e].owner \in Clients
      <4>1. channels[e].owner \in Clients
        BY <1>6, <3>1, OwnersHold
      <4> QED BY <1>6, <3>1, <4>1
    <3> QED BY <1>4, <1>6, <2>1, <3>1, <3>2
  <2>3. \A e \in HistChannels :
          mChannels'[e].status \in {"committed", "disabled", "blob_added", "disable_blob_added"} =>
            mChannels'[e] = mChannels[e]
    BY <1>6, <2>1
  <2>4. ProgramInv'
    BY <1>1, <1>2, <2>2, <2>3, ProgramsKept
  <2> QED BY <1>1, <1>2, <2>1, <2>4 DEF HistInv, HistType
<1>7. CASE configInfo[c].status = "assigned"
  <2> DEFINE free == Append(mFreeChannels, ch)
             used == mUsedChannels \ {ch}
  <2>1. Scheduler(infos, inactive, free, cleaned, used)
    BY <1>7 DEF UnregisterHistogram, FreedChannel, infos
  <2>2. ch \in mUsedChannels /\ ch \in HistChannels /\ ch \notin ReservedChannels
        /\ ch \notin ToSet(mFreeChannels) /\ mChannels[ch].owner = c /\ ch # NoChannel
    BY <1>1, <1>5, <1>7 DEF Accounts
  <2>3. \A e \in mUsedChannels : mChannels[e].owner \in Clients
                                 /\ configInfo[mChannels[e].owner].channel = e
    BY <1>1, OwnersHold
  <2>4. \A e \in used : mChannels[e].owner # c
    BY <2>3
  <2>5. free \in Seq(HistChannels) /\ IsInjective(free) /\ ToSet(free) = ToSet(mFreeChannels) \union {ch}
    BY <1>1, <1>5, <2>2, AppendFacts DEF Accounts
  <2> HIDE DEF ch
  <2>6. /\ cleaned \in [HistChannels -> ChannelInfos]
        /\ cleaned[ch] = [status |-> "disable_pending", owner |-> Nobody]
        /\ \A e \in HistChannels \ {ch} : cleaned[e] = mChannels[e]
    BY <1>5, <2>2 DEF ChannelInfos
  <2> HIDE DEF cleaned
  <2>7. Accounts(infos, inactive, free, cleaned, used)
    <3>1. /\ ToSet(free) \intersect used = {}
          /\ ToSet(free) \union used = HistChannels \ ReservedChannels
      BY <1>1, <2>2, <2>5 DEF Accounts
    <3>2. ASSUME NEW d \in Clients, d # c PROVE configInfo[d].channel # ch
      <4> SUFFICES ASSUME configInfo[d].channel = ch PROVE FALSE
        OBVIOUS
      <4>1. configInfo[d].status = "assigned" /\ mChannels[ch].owner = d
        BY <1>1, <2>2 DEF Accounts
      <4> QED BY <2>2, <3>2, <4>1
    <3>3. used = {infos[d].channel : d \in Clients} \ {NoChannel}
      <4>1. ASSUME NEW e \in used
            PROVE  e # NoChannel /\ \E d \in Clients : infos[d].channel = e
        <5>1. PICK d \in Clients : configInfo[d].channel = e /\ e # NoChannel
          BY <1>1, <4>1 DEF Accounts
        <5>2. d # c
          BY <4>1, <5>1 DEF ch
        <5> QED BY <1>4, <5>1, <5>2
      <4>2. ASSUME NEW d \in Clients, infos[d].channel # NoChannel
            PROVE  infos[d].channel \in used
        <5>1. d # c
          BY <1>3, <1>4, <4>2
        <5>2. infos[d] = configInfo[d]
          BY <1>4, <5>1
        <5>3. configInfo[d].channel \in mUsedChannels
          BY <1>1, <4>2, <5>2 DEF Accounts
        <5> QED BY <3>2, <5>1, <5>2, <5>3
      <4> QED BY <4>1, <4>2
    <3>4. ASSUME NEW d \in Clients
          PROVE  /\ infos[d].status = "inactive" <=> d \in ToSet(inactive)
                 /\ infos[d].status = "assigned" <=> infos[d].channel # NoChannel
                 /\ infos[d].status = "assigned" => cleaned[infos[d].channel].owner = d
      <4>1. CASE d = c
        BY <1>1, <1>3, <1>4, <1>7, <4>1 DEF Accounts
      <4>2. CASE d # c
        <5>1. /\ infos[d] = configInfo[d] /\ configInfo[d].channel # ch
              /\ configInfo[d].status = "assigned" => configInfo[d].channel \in HistChannels
          BY <1>1, <1>4, <1>5, <3>2, <4>2 DEF Accounts
        <5> QED BY <1>1, <2>6, <5>1 DEF Accounts
      <4> QED BY <4>1, <4>2
    <3>5. ASSUME NEW e \in HistChannels
          PROVE  cleaned[e].status \in
                   IF e \in ReservedChannels THEN {"reserved"}
                   ELSE IF e \in used THEN {"pending", "blob_added", "committed", "error"}
                   ELSE {"disabled", "disable_pending", "disable_blob_added", "disable_error"}
      <4>1. CASE e = ch
        BY <2>2, <2>6, <4>1
      <4>2. CASE e # ch
        BY <1>1, <2>6, <4>2 DEF Accounts
      <4> QED BY <4>1, <4>2
    <3> QED BY <1>1, <2>5, <3>1, <3>3, <3>4, <3>5 DEF Accounts
  <2>8. \A e \in HistChannels : cleaned[e] = mChannels[e] \/ cleaned[e].status = "disable_pending"
    BY <2>6
  <2>9. used \in SUBSET HistChannels /\ \A e \in used : cleaned[e] = mChannels[e]
    BY <1>5, <2>6
  <2> HIDE DEF free, used
  <2> QED BY <1>5, <1>6, <2>1, <2>4, <2>5, <2>6, <2>7, <2>8, <2>9
<1>8. CASE configInfo[c].status # "assigned"
  <2>1. Scheduler(infos, Erased(inactive, c), mFreeChannels, mChannels, mUsedChannels)
    BY <1>8 DEF UnregisterHistogram, infos
  <2>2. configInfo[c].status = "inactive" /\ c \in ToSet(inactive) /\ configInfo[c].channel = NoChannel
    BY <1>1, <1>5, <1>8 DEF Accounts, ConfigInfos
  <2>3. /\ Erased(inactive, c) \in Seq(Clients) /\ IsInjective(Erased(inactive, c))
        /\ ToSet(Erased(inactive, c)) = ToSet(inactive) \ {c}
    BY <1>1, <1>5, <2>2, ErasedFacts DEF Accounts
  <2>4. \A d \in Clients : infos[d].channel = configInfo[d].channel
    BY <1>3, <1>4, <2>2
  <2>5. Accounts(infos, Erased(inactive, c), mFreeChannels, mChannels, mUsedChannels)
    <3>1. mUsedChannels = {infos[d].channel : d \in Clients} \ {NoChannel}
      BY <1>1, <2>4 DEF Accounts
    <3>2. ASSUME NEW d \in Clients
          PROVE  /\ infos[d].status = "inactive" <=> d \in ToSet(Erased(inactive, c))
                 /\ infos[d].status = "assigned" <=> infos[d].channel # NoChannel
                 /\ infos[d].status = "assigned" => mChannels[infos[d].channel].owner = d
      <4>1. CASE d = c
        BY <1>3, <1>4, <2>3, <4>1
      <4>2. CASE d # c
        BY <1>1, <1>4, <2>3, <4>2 DEF Accounts
      <4> QED BY <4>1, <4>2
    <3> QED BY <1>1, <2>3, <3>1, <3>2 DEF Accounts
  <2>6. \A e \in mUsedChannels : mChannels[e].owner # c
    <3>1. \A e \in mUsedChannels : configInfo[mChannels[e].owner].status = "assigned"
      BY <1>1, OwnersHold
    <3> QED BY <1>8, <3>1
  <2> QED BY <1>5, <1>6, <2>1, <2>3, <2>5, <2>6
<1> QED BY <1>7, <1>8

LEMMA MatchedIsFirst ==
  ASSUME active \in AllSizes, NEW blobs \in Seq(AllSizes)
  PROVE  /\ MatchedFirst(blobs) \in Seq(AllSizes) /\ MatchedFirst(blobs) # <<>>
         /\ Head(MatchedFirst(blobs)) = active
<1> DEFINE others == IF active \in ToSet(blobs) THEN Erased(blobs, active) ELSE blobs
<1>1. others \in Seq(AllSizes)
  BY ErasedFacts
<1>2. MatchedFirst(blobs) = <<active>> \o others
  BY DEF MatchedFirst
<1> HIDE DEF others
<1>3. <<active>> \in Seq(AllSizes) /\ Len(<<active>>) = 1 /\ <<active>>[1] = active
  OBVIOUS
<1>4. /\ MatchedFirst(blobs) \in Seq(AllSizes) /\ Len(MatchedFirst(blobs)) = 1 + Len(others)
      /\ \A i \in 1 .. 1 + Len(others) :
           MatchedFirst(blobs)[i] = IF i <= 1 THEN <<active>>[i] ELSE others[i - 1]
  BY <1>1, <1>2, <1>3, ConcatProperties
<1>5. Len(others) \in Nat
  BY <1>1
<1>6. MatchedFirst(blobs)[1] = active
  BY <1>3, <1>4, <1>5
<1> QED BY <1>4, <1>5, <1>6

LEMMA HistPrepare ==
  ASSUME HistInv, NEW outcome, PrepareAtomicCommit(outcome)
  PROVE  HistInv'
<1> DEFINE ownerOf(ch) == mChannels[ch].owner
           set == ToSetUp
           added == {ch \in set : NewStatus(ownerOf(ch), outcome[ch]) = "blob_added"}
           cleared == {ch \in ToClear : outcome[ch] # "no_property"}
<1>1. /\ HistType /\ ChannelsAccounted /\ ProgramInv
      /\ phase = "idle" /\ phase' = "prepared" /\ lost' = lost \ (added \union cleared)
      /\ UNCHANGED <<inactive, mFreeChannels, mUsedChannels, active, kernel>>
      /\ Accounts(configInfo, inactive, mFreeChannels, mChannels, mUsedChannels)
  BY AccountsAre DEF HistInv, PrepareAtomicCommit
<1>2. /\ mChannels' = [ch \in HistChannels |->
            CASE ch \in set -> [mChannels[ch] EXCEPT !.status = NewStatus(ownerOf(ch), outcome[ch])]
              [] ch \in ToClear -> [mChannels[ch] EXCEPT !.status =
                    IF ch \in cleared THEN "disable_blob_added" ELSE "disable_error"]
              [] OTHER -> mChannels[ch]]
      /\ configInfo' = [c \in Clients |->
            IF \E ch \in set : ownerOf(ch) = c /\ ~KeepsBlobs(c, outcome[ch])
            THEN [configInfo[c] EXCEPT !.blobs = MatchedFirst(@)]
            ELSE configInfo[c]]
      /\ request' = [ch \in HistChannels |->
            CASE ch \in added -> [set |-> TRUE, of |-> ownerOf(ch),
                                  blob |-> Blob(configInfo[ownerOf(ch)].config, active)]
              [] ch \in cleared -> [Untouched EXCEPT !.set = TRUE]
              [] OTHER -> Untouched]
  BY DEF PrepareAtomicCommit
<1>3. /\ set \subseteq mUsedChannels /\ set \subseteq HistChannels
      /\ ToClear \subseteq ToSet(mFreeChannels) /\ ToClear \subseteq HistChannels
      /\ set \intersect ToClear = {}
      /\ \A ch \in set : mChannels[ch].status \in {"committed", "pending"}
      /\ \A ch \in ToClear : mChannels[ch].status = "disable_pending"
  BY <1>1 DEF ToSetUp, ToClear, Accounts, HistType
<1>4. added \subseteq set /\ cleared \subseteq ToClear
      /\ \A ch \in set : ch \in added <=> NewStatus(ownerOf(ch), outcome[ch]) = "blob_added"
  OBVIOUS
<1> HIDE DEF set, added, cleared
<1>5. \A ch \in mUsedChannels : /\ ownerOf(ch) \in Clients /\ configInfo[ownerOf(ch)].channel = ch
                                /\ configInfo[ownerOf(ch)].status = "assigned"
  BY <1>1, OwnersHold
<1>6. \A c, o : NewStatus(c, o) \in {"pending", "error", "blob_added"}
  BY DEF NewStatus
<1>7. \A ch \in HistChannels \ (set \union ToClear) :
        mChannels'[ch] = mChannels[ch] /\ request'[ch] = Untouched
  BY <1>2, <1>4
<1>8. \A ch \in set : /\ mChannels'[ch].status = NewStatus(ownerOf(ch), outcome[ch])
                      /\ mChannels'[ch].owner = ownerOf(ch) /\ mChannels'[ch] \in ChannelInfos
  <2> TAKE ch \in set
  <2>1. mChannels[ch] \in ChannelInfos /\ ch \in HistChannels /\ ch \notin ToClear
    BY <1>1, <1>3 DEF HistType
  <2>2. mChannels'[ch] = [mChannels[ch] EXCEPT !.status = NewStatus(ownerOf(ch), outcome[ch])]
    BY <1>2, <2>1
  <2> QED BY <1>6, <2>1, <2>2 DEF ChannelInfos
<1>9. \A ch \in ToClear : /\ mChannels'[ch].status = IF ch \in cleared THEN "disable_blob_added" ELSE "disable_error"
                          /\ mChannels'[ch].owner = ownerOf(ch) /\ mChannels'[ch] \in ChannelInfos
  <2> TAKE ch \in ToClear
  <2>1. mChannels[ch] \in ChannelInfos /\ ch \in HistChannels /\ ch \notin set
    BY <1>1, <1>3 DEF HistType
  <2>2. mChannels'[ch] = [mChannels[ch] EXCEPT !.status =
                            IF ch \in cleared THEN "disable_blob_added" ELSE "disable_error"]
    BY <1>2, <2>1
  <2> QED BY <2>1, <2>2 DEF ChannelInfos
<1>10. \A ch \in added : request'[ch].set = TRUE
                         /\ request'[ch].blob = Blob(configInfo[ownerOf(ch)].config, active)
  BY <1>2, <1>3, <1>4
<1>11. \A ch \in cleared : request'[ch].set = TRUE /\ request'[ch].blob = NoBlob
  BY <1>2, <1>3, <1>4 DEF Untouched
<1>12. /\ DOMAIN request' = HistChannels
       /\ \A ch \in HistChannels : DOMAIN request'[ch] = {"set", "blob", "of"}
  BY <1>2 DEF Untouched
<1>13. \A c \in Clients : MatchedFirst(configInfo[c].blobs) \in Seq(AllSizes)
                          /\ MatchedFirst(configInfo[c].blobs) # <<>>
                          /\ Head(MatchedFirst(configInfo[c].blobs)) = active
  <2>1. \A c \in Clients : configInfo[c].blobs \in Seq(AllSizes)
    BY <1>1 DEF HistType, ConfigInfos
  <2> QED BY <1>1, <2>1, MatchedIsFirst DEF HistType
<1>14. /\ configInfo' \in [Clients -> ConfigInfos]
       /\ \A c \in Clients : /\ configInfo'[c].status = configInfo[c].status
                             /\ configInfo'[c].channel = configInfo[c].channel
                             /\ configInfo'[c].config = configInfo[c].config
       /\ \A c \in Clients :
            configInfo'[c].blobs = IF \E ch \in set : ownerOf(ch) = c /\ ~KeepsBlobs(c, outcome[ch])
                                   THEN MatchedFirst(configInfo[c].blobs) ELSE configInfo[c].blobs
  <2>1. \A c \in Clients : configInfo[c] \in ConfigInfos
    BY <1>1 DEF HistType
  <2>2. ASSUME NEW c \in Clients
        PROVE  /\ configInfo'[c] \in ConfigInfos
               /\ configInfo'[c].status = configInfo[c].status
               /\ configInfo'[c].channel = configInfo[c].channel
               /\ configInfo'[c].config = configInfo[c].config
               /\ configInfo'[c].blobs = IF \E ch \in set : ownerOf(ch) = c /\ ~KeepsBlobs(c, outcome[ch])
                                         THEN MatchedFirst(configInfo[c].blobs) ELSE configInfo[c].blobs
    <3>1. CASE \E ch \in set : ownerOf(ch) = c /\ ~KeepsBlobs(c, outcome[ch])
      <4>1. configInfo'[c] = [configInfo[c] EXCEPT !.blobs = MatchedFirst(configInfo[c].blobs)]
        BY <1>2, <3>1
      <4> QED BY <1>13, <2>1, <3>1, <4>1 DEF ConfigInfos
    <3>2. CASE ~\E ch \in set : ownerOf(ch) = c /\ ~KeepsBlobs(c, outcome[ch])
      BY <1>2, <2>1, <3>2
    <3> QED BY <3>1, <3>2
  <2>3. configInfo' = [c \in Clients |-> configInfo'[c]]
    BY <1>2
  <2> QED BY <2>2, <2>3
<1>15. mChannels' \in [HistChannels -> ChannelInfos]
  <2>1. \A ch \in HistChannels : mChannels[ch] \in ChannelInfos
    BY <1>1 DEF HistType
  <2>2. \A ch \in HistChannels : mChannels'[ch] \in ChannelInfos
    BY <1>7, <1>8, <1>9, <2>1
  <2>3. mChannels' = [ch \in HistChannels |-> mChannels'[ch]]
    BY <1>2
  <2> QED BY <2>2, <2>3
<1>16. ChannelsAccounted'
  <2>1. mUsedChannels' = {configInfo'[c].channel : c \in Clients} \ {NoChannel}
    BY <1>1, <1>14 DEF Accounts
  <2>2. \A ch \in HistChannels : mChannels'[ch].owner = mChannels[ch].owner
    BY <1>7, <1>8, <1>9
  <2>3. \A c \in Clients :
          /\ configInfo'[c].status = "inactive" <=> c \in ToSet(inactive')
          /\ configInfo'[c].status = "assigned" <=> configInfo'[c].channel # NoChannel
          /\ configInfo'[c].status = "assigned" => mChannels'[configInfo'[c].channel].owner = c
    <3>1. \A c \in Clients : configInfo[c].status = "assigned" => configInfo[c].channel \in HistChannels
      BY <1>1 DEF Accounts, HistType
    <3> QED BY <1>1, <1>14, <2>2, <3>1 DEF Accounts
  <2>4. ASSUME NEW ch \in HistChannels
        PROVE  mChannels'[ch].status \in
                 IF ch \in ReservedChannels THEN {"reserved"}
                 ELSE IF ch \in mUsedChannels' THEN {"pending", "blob_added", "committed", "error"}
                 ELSE {"disabled", "disable_pending", "disable_blob_added", "disable_error"}
    <3>1. CASE ch \in set
      BY <1>1, <1>3, <1>6, <1>8, <3>1 DEF Accounts
    <3>2. CASE ch \in ToClear
      BY <1>1, <1>3, <1>9, <3>2 DEF Accounts
    <3>3. CASE ch \notin set \union ToClear
      BY <1>1, <1>7, <3>3 DEF Accounts
    <3> QED BY <3>1, <3>2, <3>3
  <2>5. inactive # <<>> => mFreeChannels = <<>>
    BY <1>1, AccountsAre
  <2> QED BY <1>1, <2>1, <2>3, <2>4, <2>5 DEF ChannelsAccounted, Accounts
<1>17. ASSUME NEW ch \in added
       PROVE  HasBlobs(ch)' /\ request'[ch].blob = Wanted(ch)' /\ UpToDate(ch)' /\ request'[ch].set
  <2>1. ownerOf(ch) \in Clients /\ mChannels'[ch].owner = ownerOf(ch)
    BY <1>3, <1>4, <1>5, <1>8
  <2>2. ~KeepsBlobs(ownerOf(ch), outcome[ch])
    BY <1>4, <1>17 DEF NewStatus, KeepsBlobs
  <2>3. configInfo'[ownerOf(ch)].blobs = MatchedFirst(configInfo[ownerOf(ch)].blobs)
        /\ configInfo'[ownerOf(ch)].config = configInfo[ownerOf(ch)].config
    BY <1>4, <1>14, <2>1, <2>2
  <2>4. Head(configInfo'[ownerOf(ch)].blobs) = active /\ configInfo'[ownerOf(ch)].blobs # <<>>
    BY <1>13, <2>1, <2>3
  <2> QED BY <1>1, <1>10, <2>1, <2>3, <2>4 DEF HasBlobs, Wanted, UpToDate
<1>18. ASSUME NEW ch \in HistChannels, ch \notin set, mChannels[ch].status = "committed"
       PROVE  /\ HasBlobs(ch) => HasBlobs(ch)' /\ UpToDate(ch)'
              /\ Wanted(ch)' = Wanted(ch) /\ request'[ch] = Untouched /\ mChannels'[ch] = mChannels[ch]
  <2>1. ch \notin ToClear /\ ch \in mUsedChannels
    BY <1>1, <1>3, <1>18 DEF Accounts
  <2>2. ownerOf(ch) \in Clients /\ configInfo[ownerOf(ch)].channel = ch
    BY <1>5, <2>1
  <2>3. ~NeedsBlob(ch, ownerOf(ch))
    BY <1>18, <2>1 DEF ToSetUp, set
  <2>4. Head(configInfo[ownerOf(ch)].blobs) = active
    BY <2>3 DEF NeedsBlob
  <2>5. ~\E e \in set : ownerOf(e) = ownerOf(ch)
    BY <1>3, <1>5, <1>18, <2>2
  <2>6. configInfo'[ownerOf(ch)].blobs = configInfo[ownerOf(ch)].blobs
        /\ configInfo'[ownerOf(ch)].config = configInfo[ownerOf(ch)].config
    BY <1>14, <2>2, <2>5
  <2>7. mChannels'[ch] = mChannels[ch] /\ request'[ch] = Untouched
    BY <1>7, <1>18, <2>1
  <2> QED BY <1>1, <2>4, <2>6, <2>7 DEF HasBlobs, Wanted, UpToDate
<1>19. ProgramInv'
  <2> SUFFICES ASSUME NEW ch \in HistChannels, ch \notin lost'
      PROVE  /\ mChannels'[ch].status = "committed" =>
                  /\ HasBlobs(ch)' /\ kernel'[ch] = Wanted(ch)'
                  /\ UpToDate(ch)' /\ ~request'[ch].set
             /\ mChannels'[ch].status = "disabled" => kernel'[ch] = NoBlob /\ ~request'[ch].set
             /\ mChannels'[ch].status = "blob_added" =>
                  /\ HasBlobs(ch)'
                  /\ request'[ch].set /\ request'[ch].blob = Wanted(ch)' /\ UpToDate(ch)'
             /\ mChannels'[ch].status = "disable_blob_added" =>
                  request'[ch].set /\ request'[ch].blob = NoBlob
    BY <1>1 DEF ProgramInv
  <2>1. CASE ch \in added
    BY <1>4, <1>8, <1>17, <2>1
  <2>2. CASE ch \in set \ added
    BY <1>4, <1>6, <1>8, <2>2
  <2>3. CASE ch \in ToClear
    BY <1>9, <1>11, <2>3
  <2>4. CASE ch \notin set \union ToClear
    <3>1. ch \notin lost /\ mChannels'[ch] = mChannels[ch] /\ request'[ch] = Untouched
      BY <1>1, <1>4, <1>7, <2>4
    <3>2. ~request'[ch].set
      BY <3>1 DEF Untouched
    <3>3. mChannels[ch].status \notin {"blob_added", "disable_blob_added"}
      BY <1>1, <3>1 DEF ProgramInv
    <3>4. mChannels[ch].status = "disabled" => kernel'[ch] = NoBlob
      BY <1>1, <3>1 DEF ProgramInv
    <3>5. mChannels[ch].status = "committed" => HasBlobs(ch) /\ kernel'[ch] = Wanted(ch)
      BY <1>1, <3>1 DEF ProgramInv
    <3> QED BY <1>18, <2>4, <3>1, <3>2, <3>3, <3>4, <3>5
  <2> QED BY <2>1, <2>2, <2>3, <2>4
<1> QED BY <1>1, <1>12, <1>14, <1>15, <1>16, <1>19 DEF HistInv, HistType

\* The steps of the commit leave the configurations and the channels alone.
LEMMA AccountsKept ==
  ASSUME ChannelsAccounted, UNCHANGED <<configInfo, inactive, mFreeChannels, mUsedChannels, mChannels>>
  PROVE  ChannelsAccounted'
BY DEF ChannelsAccounted

LEMMA HistCommitFails ==
  ASSUME HistInv, CommitFails
  PROVE  HistInv'
<1>1. /\ HistType /\ ChannelsAccounted /\ ProgramInv
      /\ phase = "prepared" /\ phase' = "idle"
      /\ lost' = lost \union {ch \in HistChannels : request[ch].set}
      /\ request' = [ch \in HistChannels |-> Untouched]
      /\ UNCHANGED <<configInfo, inactive, mFreeChannels, mUsedChannels, mChannels, active, kernel>>
  BY DEF HistInv, CommitFails
<1>2. HistType'
  BY <1>1 DEF HistType, Untouched
<1>3. ChannelsAccounted'
  BY <1>1, AccountsKept
<1>4. ProgramInv'
  <2> SUFFICES ASSUME NEW ch \in HistChannels, ch \notin lost'
      PROVE  /\ mChannels[ch].status = "committed" => HasBlobs(ch) /\ kernel[ch] = Wanted(ch)
             /\ mChannels[ch].status = "disabled" => kernel[ch] = NoBlob
             /\ mChannels[ch].status \notin {"blob_added", "disable_blob_added"}
    BY <1>1 DEF ProgramInv, HasBlobs, Wanted, UpToDate
  <2>1. ch \notin lost /\ ~request[ch].set
    BY <1>1
  <2> QED BY <1>1, <2>1 DEF ProgramInv
<1> QED BY <1>2, <1>3, <1>4 DEF HistInv

LEMMA HistCommitSucceeds ==
  ASSUME HistInv, NEW size \in Sizes, CommitSucceeds(size)
  PROVE  HistInv'
<1>1. /\ HistType /\ ChannelsAccounted /\ ProgramInv
      /\ phase = "prepared" /\ phase' = "committed"
      /\ kernel' = [ch \in HistChannels |-> IF request[ch].set THEN request[ch].blob ELSE kernel[ch]]
      /\ request' = [ch \in HistChannels |-> Untouched]
      /\ active' = size
      /\ UNCHANGED <<configInfo, inactive, mFreeChannels, mUsedChannels, mChannels, lost>>
  BY DEF HistInv, CommitSucceeds
<1>2. HistType'
  BY <1>1 DEF HistType, Untouched, AllSizes
<1>3. ChannelsAccounted'
  BY <1>1, AccountsKept
<1>4. ProgramInv'
  <2> SUFFICES ASSUME NEW ch \in HistChannels, ch \notin lost
      PROVE  /\ mChannels[ch].status = "committed" => HasBlobs(ch) /\ kernel'[ch] = Wanted(ch)
             /\ mChannels[ch].status = "disabled" => kernel'[ch] = NoBlob
             /\ mChannels[ch].status = "blob_added" => HasBlobs(ch) /\ kernel'[ch] = Wanted(ch)
             /\ mChannels[ch].status = "disable_blob_added" => kernel'[ch] = NoBlob
    BY <1>1 DEF ProgramInv, HasBlobs, Wanted
  <2>1. kernel'[ch] = IF request[ch].set THEN request[ch].blob ELSE kernel[ch]
    BY <1>1
  <2> QED BY <1>1, <2>1 DEF ProgramInv
<1> QED BY <1>2, <1>3, <1>4 DEF HistInv

LEMMA HistPost ==
  ASSUME HistInv, PostAtomicCommit
  PROVE  HistInv'
<1> DEFINE Posted(status) == CASE status = "blob_added" -> "committed"
                             [] status = "disable_blob_added" -> "disabled"
                             [] OTHER -> status
<1>1. /\ HistType /\ ChannelsAccounted /\ ProgramInv
      /\ phase = "committed" /\ phase' = "idle"
      /\ UNCHANGED <<configInfo, inactive, mFreeChannels, mUsedChannels, request, active, kernel, lost>>
  BY DEF HistInv, PostAtomicCommit
<1>2. mChannels' = [ch \in HistChannels |->
                      [mChannels[ch] EXCEPT !.status = Posted(mChannels[ch].status)]]
  BY DEF PostAtomicCommit
<1>3. \A ch \in HistChannels : mChannels[ch] \in ChannelInfos
  BY <1>1 DEF HistType
<1>4. \A ch \in HistChannels : mChannels'[ch] = [mChannels[ch] EXCEPT !.status = Posted(mChannels[ch].status)]
  BY <1>2
<1>5. \A status : /\ status = "blob_added" => Posted(status) = "committed"
                  /\ status = "disable_blob_added" => Posted(status) = "disabled"
                  /\ status \notin {"blob_added", "disable_blob_added"} => Posted(status) = status
  OBVIOUS
<1> HIDE DEF Posted
<1>6. \A ch \in HistChannels : /\ mChannels'[ch].status = Posted(mChannels[ch].status)
                               /\ mChannels'[ch].owner = mChannels[ch].owner
  BY <1>3, <1>4 DEF ChannelInfos
<1>7. \A ch \in HistChannels : mChannels'[ch] \in ChannelInfos
  <2> TAKE ch \in HistChannels
  <2>1. CASE mChannels[ch].status = "blob_added"
    <3>1. Posted(mChannels[ch].status) = "committed"
      BY <1>5, <2>1
    <3>2. mChannels'[ch] = [mChannels[ch] EXCEPT !.status = "committed"]
      BY <1>4, <3>1
    <3> QED BY <1>3, <3>2 DEF ChannelInfos
  <2>2. CASE mChannels[ch].status = "disable_blob_added"
    <3>1. Posted(mChannels[ch].status) = "disabled"
      BY <1>5, <2>2
    <3>2. mChannels'[ch] = [mChannels[ch] EXCEPT !.status = "disabled"]
      BY <1>4, <3>1
    <3> QED BY <1>3, <3>2 DEF ChannelInfos
  <2>3. CASE mChannels[ch].status \notin {"blob_added", "disable_blob_added"}
    BY <1>3, <1>4, <1>5, <2>3 DEF ChannelInfos
  <2> QED BY <2>1, <2>2, <2>3
<1>8. mChannels' \in [HistChannels -> ChannelInfos]
  <2>1. mChannels' = [ch \in HistChannels |-> mChannels'[ch]]
    BY <1>2
  <2> QED BY <1>7, <2>1
<1>9. ChannelsAccounted'
  <2>1. Accounts(configInfo, inactive, mFreeChannels, mChannels, mUsedChannels)
        /\ (inactive # <<>> => mFreeChannels = <<>>)
    BY <1>1, AccountsAre
  <2>2. \A c \in Clients : configInfo[c].status = "assigned" => configInfo[c].channel \in HistChannels
    BY <2>1, <1>1 DEF Accounts, HistType
  <2>3. \A c \in Clients :
          /\ configInfo[c].status = "inactive" <=> c \in ToSet(inactive)
          /\ configInfo[c].status = "assigned" <=> configInfo[c].channel # NoChannel
          /\ configInfo[c].status = "assigned" => mChannels'[configInfo[c].channel].owner = c
    BY <1>6, <2>1, <2>2 DEF Accounts
  <2>4. \A ch \in HistChannels :
          mChannels'[ch].status \in
            IF ch \in ReservedChannels THEN {"reserved"}
            ELSE IF ch \in mUsedChannels THEN {"pending", "blob_added", "committed", "error"}
            ELSE {"disabled", "disable_pending", "disable_blob_added", "disable_error"}
    <3> TAKE ch \in HistChannels
    <3>1. mChannels[ch].status \in
            IF ch \in ReservedChannels THEN {"reserved"}
            ELSE IF ch \in mUsedChannels THEN {"pending", "blob_added", "committed", "error"}
            ELSE {"disabled", "disable_pending", "disable_blob_added", "disable_error"}
      BY <2>1 DEF Accounts
    <3> QED BY <1>5, <1>6, <3>1
  <2>5. Accounts(configInfo, inactive, mFreeChannels, mChannels', mUsedChannels)
    BY <2>1, <2>3, <2>4 DEF Accounts
  <2> QED BY <1>1, <2>1, <2>5 DEF ChannelsAccounted, Accounts
<1>10. ProgramInv'
  <2> SUFFICES ASSUME NEW ch \in HistChannels, ch \notin lost
      PROVE  /\ mChannels'[ch].status = "committed" => HasBlobs(ch) /\ kernel[ch] = Wanted(ch)
             /\ mChannels'[ch].status = "disabled" => kernel[ch] = NoBlob
             /\ mChannels'[ch].status \notin {"blob_added", "disable_blob_added"}
    BY <1>1, <1>6 DEF ProgramInv, HasBlobs, Wanted, UpToDate
  <2>1. CASE mChannels[ch].status = "blob_added"
    BY <1>1, <1>5, <1>6, <2>1 DEF ProgramInv
  <2>2. CASE mChannels[ch].status = "disable_blob_added"
    BY <1>1, <1>5, <1>6, <2>2 DEF ProgramInv
  <2>3. CASE mChannels[ch].status \notin {"blob_added", "disable_blob_added"}
    BY <1>1, <1>5, <1>6, <2>3 DEF ProgramInv
  <2> QED BY <2>1, <2>2, <2>3
<1> QED BY <1>1, <1>8, <1>9, <1>10 DEF HistInv, HistType

LEMMA HistInvHolds ==
  ChannelsAccounted /\ ProgramInv => ChannelsInStep
BY DEF ChannelsInStep, CommittedIsProgrammed, ProgramInv, HasBlobs, Wanted, UpToDate

(* ChannelsInStep for every number of clients, channels and resolutions,   *)
(* and whatever the commits and the creation of blobs come to: the owners  *)
(* and the lists of HistogramDevice agree, and a channel runs what its     *)
(* status tells of unless its last change was in a commit that failed.     *)
THEOREM ChannelsStayInStep == HistogramSpec => []ChannelsInStep
<1>1. HistogramInit => HistInv
  BY HistInitInv
<1>2. HistInv /\ [HistogramNext]_channelVars => HistInv'
  <2> SUFFICES ASSUME HistInv, [HistogramNext]_channelVars PROVE HistInv'
    OBVIOUS
  <2>1. ASSUME NEW c \in Clients, NEW config \in HistConfigs, NEW created \in BOOLEAN,
               RegisterHistogram(c, config, created)
        PROVE  HistInv'
    BY <2>1, HistRegister
  <2>2. ASSUME NEW c \in Clients, NEW config \in HistConfigs, NEW created \in BOOLEAN,
               ReconfigHistogram(c, config, created)
        PROVE  HistInv'
    BY <2>2, HistReconfig
  <2>3. ASSUME NEW c \in Clients, UnregisterHistogram(c) PROVE HistInv'
    BY <2>3, HistUnregister
  <2>4. ASSUME NEW outcome, PrepareAtomicCommit(outcome) PROVE HistInv'
    BY <2>4, HistPrepare
  <2>5. CASE CommitFails
    BY <2>5, HistCommitFails
  <2>6. ASSUME NEW size \in Sizes, CommitSucceeds(size) PROVE HistInv'
    BY <2>6, HistCommitSucceeds
  <2>7. CASE PostAtomicCommit
    BY <2>7, HistPost
  <2>8. CASE UNCHANGED channelVars
    BY <2>8 DEF HistInv, HistType, ChannelsAccounted, ProgramInv, HasBlobs, Wanted, UpToDate
  <2> QED BY <2>1, <2>2, <2>3, <2>4, <2>5, <2>6, <2>7, <2>8 DEF HistogramNext
<1>3. HistInv => ChannelsInStep
  BY HistInvHolds DEF HistInv
<1> QED BY <1>1, <1>2, <1>3, PTL DEF HistogramSpec
=============================================================================
