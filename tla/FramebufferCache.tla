-------------------------- MODULE FramebufferCache --------------------------
(***************************************************************************)
(* The framebuffers of a display (FramebufferManager) and the commits that *)
(* use them (ExynosDisplayDrmInterface::deliverWinConfigData, clearDisplay,*)
(* setPowerMode).                                                          *)
(*                                                                         *)
(* A framebuffer is created for a buffer of a layer when a commit first    *)
(* shows it, and kept in the layer's list, for secure buffers in a list of *)
(* their own.  Framebuffers that are no longer wanted are handed over to a *)
(* thread that removes them.  If the kernel removes one that is shown, it  *)
(* turns the plane off.                                                    *)
(***************************************************************************)
EXTENDS Integers, FiniteSets

CONSTANTS
    CachedLayers,     \* the layers of the display
    TargetWindows,    \* windows without a layer: the client's and the G2D's target
    NoLayer,          \* their common entry, nullptr
    Bufs, SecureBufs,
    Fbs,              \* ids of framebuffers
    ClearMayFail,     \* whether the commit that clears the display may fail
    MAX_CACHED_LAYERS, MAX_CACHED_SECURE_LAYERS,
    MAX_CACHED_BUFFERS_PER_LAYER, MAX_CACHED_SECURE_BUFFERS_PER_LAYER

ASSUME CacheAssumption ==
    /\ SecureBufs \subseteq Bufs /\ NoLayer \notin CachedLayers
    /\ TargetWindows \intersect CachedLayers = {}
    /\ ClearMayFail \in BOOLEAN /\ IsFiniteSet(CachedLayers) /\ IsFiniteSet(Fbs)

VARIABLES
    exists,        \* the layers there are
    bufOf,         \* the buffer of each framebuffer the kernel has
    cached,        \* mCachedLayerBuffers, mCachedSecureLayerBuffers
    inUse,         \* mCachedLayersInuse, mCachedSecureLayersInuse
    shrink,        \* mCacheShrinkPending, mCacheSecureShrinkPending
    clean,         \* mCleanBuffers
    remover,       \* the thread: where it is, and its cleanupBuffers
    commit,        \* the commit that is being built: fb: of each window,
                   \* secure: has a secure buffer, spilled: windows whose
                   \* framebuffer went with a full list
    planes,        \* the framebuffers shown, of each window
    powered

cacheVars == <<exists, bufOf, cached, inUse, shrink, clean, remover, commit, planes, powered>>

Keys == CachedLayers \union {NoLayer}
KeyOf(window) == IF window \in TargetWindows THEN NoLayer ELSE window
Secure(b) == b \in SecureBufs
Kinds == {TRUE, FALSE}          \* secure or not
NoCommit == [open |-> FALSE, fb |-> <<>>, secure |-> FALSE, spilled |-> {}]
EmptyCache == [secure \in Kinds |-> <<>>]

CacheInit ==
    /\ exists = CachedLayers /\ bufOf = <<>> /\ cached = EmptyCache
    /\ inUse = [secure \in Kinds |-> {}] /\ shrink = [secure \in Kinds |-> FALSE]
    /\ clean = {} /\ remover = [at |-> "lock", fbs |-> {}]
    /\ commit = NoCommit /\ planes = <<>> /\ powered = TRUE

With(f, k, v) == [x \in DOMAIN f \union {k} |-> IF x = k THEN v ELSE f[x]]
Without(f, S) == [x \in DOMAIN f \ S |-> f[x]]
Images(f) == {f[x] : x \in DOMAIN f}
ListOf(secure, key) == IF key \in DOMAIN cached[secure] THEN cached[secure][key] ELSE {}

-----------------------------------------------------------------------------
(* A condition without a predicate: the signal is lost unless the thread   *)
(* waits.                                                                  *)
Signal == remover' = IF remover.at = "wait" THEN [remover EXCEPT !.at = "woken"] ELSE remover

(* checkShrink, at the start of deliverWinConfigData.                      *)
CheckShrink ==
    /\ powered /\ ~commit.open
    /\ commit' = [NoCommit EXCEPT !.open = TRUE]
    /\ shrink' = [secure \in Kinds |-> Cardinality(DOMAIN cached[secure]) >
                    (IF secure THEN MAX_CACHED_SECURE_LAYERS ELSE MAX_CACHED_LAYERS)]
    /\ UNCHANGED <<exists, bufOf, cached, inUse, clean, remover, planes, powered>>

MarkInUse(secure, key) == inUse' = [inUse EXCEPT ![secure] = IF shrink[secure] THEN @ \union {key} ELSE @]

(* Windows of the commit whose framebuffers are among S.                   *)
WindowsOf(S) == {w \in DOMAIN commit.fb : commit.fb[w] \in S}

(* findCachedFbId and setupCommitFromDisplayConfig: the lookup makes an    *)
(* entry for the layer.                                                    *)
FindCached(window, buf) ==
    /\ commit.open /\ window \notin DOMAIN commit.fb
    /\ \E fb \in ListOf(Secure(buf), KeyOf(window)) :
         /\ bufOf[fb] = buf
         /\ commit' = [commit EXCEPT !.fb = With(@, window, fb), !.secure = @ \/ Secure(buf)]
    /\ MarkInUse(Secure(buf), KeyOf(window))
    /\ UNCHANGED <<exists, bufOf, cached, shrink, clean, remover, planes, powered>>

Limit(secure) == IF secure THEN MAX_CACHED_SECURE_BUFFERS_PER_LAYER ELSE MAX_CACHED_BUFFERS_PER_LAYER

(* Mutant: a list that is full is handed over and kept.                    *)
KeepFullList(list, secure) == list

(* The list of a layer after the check for its size.                       *)
AfterOverflow(list, secure) == IF Cardinality(list) > Limit(secure) THEN {} ELSE list

(* getBuffer of a buffer that is not cached: addFB2WithModifiers.  A full  *)
(* list goes as a whole, with what another window of the commit shows.     *)
GetBuffer(window, buf) ==
    LET key == KeyOf(window)
        list == ListOf(Secure(buf), key)
        kept == AfterOverflow(list, Secure(buf))
        full == IF Cardinality(list) > Limit(Secure(buf)) THEN list ELSE {} IN
    /\ commit.open /\ window \notin DOMAIN commit.fb
    /\ \A fb \in list : bufOf[fb] # buf
    /\ \E fb \in Fbs \ DOMAIN bufOf :
       /\ bufOf' = With(bufOf, fb, buf)
       /\ cached' = [cached EXCEPT ![Secure(buf)] = With(@, key, kept \union {fb})]
       /\ commit' = [commit EXCEPT !.fb = With(@, window, fb), !.secure = @ \/ Secure(buf),
                                   !.spilled = @ \union WindowsOf(full)]
    /\ clean' = clean \union full
    /\ MarkInUse(Secure(buf), key)
    /\ UNCHANGED <<exists, shrink, remover, planes, powered>>

(* The framebuffer cannot be created, or another step of the frame fails.  *)
(* Without memory every framebuffer is removed at once (releaseAll), those *)
(* that are shown, too.  Then the display is cleared.                      *)
RemoveFramebuffers(S) ==
    /\ bufOf' = Without(bufOf, S)
    /\ planes' = Without(planes, {k \in DOMAIN planes : planes[k] \in S})
ClearPlanes == \/ planes' = <<>> /\ UNCHANGED bufOf
               \/ ClearMayFail /\ UNCHANGED <<planes, bufOf>>

FrameFails ==
    /\ commit.open /\ commit' = NoCommit
    /\ \/ ClearPlanes /\ UNCHANGED <<cached, clean>>
       \/ /\ RemoveFramebuffers(clean \union UNION {UNION Images(cached[secure]) : secure \in Kinds})
          /\ cached' = EmptyCache /\ clean' = {}
    /\ UNCHANGED <<exists, inUse, shrink, remover, powered>>

(* destroyUnusedLayersLocked: sizes are compared, not members.             *)
Unused(secure) ==
    IF shrink[secure] /\ Cardinality(inUse[secure]) # Cardinality(DOMAIN cached[secure])
    THEN DOMAIN cached[secure] \ inUse[secure] ELSE {}

(* destroyAllSecureBuffersLocked, if the frame has no secure buffer.       *)
SecureLists ==
    IF commit.secure THEN Without(cached[TRUE], Unused(TRUE)) ELSE <<>>

(* A commit of one or more windows, and flip: the kernel refuses one that  *)
(* names a framebuffer it does not have.                                   *)
CommitAndFlip ==
    /\ commit.open /\ DOMAIN commit.fb # {} /\ commit' = NoCommit
    /\ Images(commit.fb) \subseteq DOMAIN bufOf
    /\ planes' = commit.fb
    /\ LET gone == [secure \in Kinds |->
                      IF secure /\ SecureLists = <<>> THEN DOMAIN cached[TRUE] ELSE Unused(secure)] IN
       /\ cached' = [secure \in Kinds |->
                       IF secure THEN SecureLists ELSE Without(cached[FALSE], Unused(FALSE))]
       /\ clean' = clean \union UNION {UNION {cached[secure][k] : k \in gone[secure]} : secure \in Kinds}
    /\ inUse' = [secure \in Kinds |-> {}]
    /\ IF clean' # {} THEN Signal ELSE UNCHANGED remover
    /\ UNCHANGED <<exists, bufOf, shrink, powered>>

-----------------------------------------------------------------------------

(* cleanup(layer): its lists are handed over; the thread is not signalled  *)
(* before the next frame is shown.                                         *)
ForgetLayer(key) == cached' = [secure \in Kinds |-> Without(cached[secure], {key})]

DestroyLayer(key) ==
    /\ ~commit.open /\ key \in exists /\ exists' = exists \ {key}
    /\ clean' = clean \union ListOf(TRUE, key) \union ListOf(FALSE, key)
    /\ ForgetLayer(key)
    /\ UNCHANGED <<bufOf, inUse, shrink, remover, commit, planes, powered>>

(* A new layer may get the address of a destroyed one.                     *)
CreateLayer(key) ==
    /\ ~commit.open /\ key \notin exists /\ exists' = exists \union {key}
    /\ UNCHANGED <<bufOf, cached, inUse, shrink, clean, remover, commit, planes, powered>>

(* clearDisplay, whose commit may fail, and destroyAllSecureBuffers.       *)
PowerOffPlanes ==
    /\ powered /\ ~commit.open /\ powered' = FALSE
    /\ ClearPlanes
    /\ cached' = [cached EXCEPT ![TRUE] = <<>>]
    /\ clean' = clean \union UNION Images(cached[TRUE])
    /\ IF clean' # {} THEN Signal ELSE UNCHANGED remover
    /\ UNCHANGED <<exists, inUse, shrink, commit>>

PowerOnPlanes ==
    /\ ~powered /\ powered' = TRUE
    /\ UNCHANGED <<exists, bufOf, cached, inUse, shrink, clean, remover, commit, planes>>

(* uncacheLayerBuffers, only while the display is off.                     *)
Uncache(key, buf) ==
    /\ ~powered /\ key \in exists
    /\ LET dropped == {fb \in ListOf(Secure(buf), key) : bufOf[fb] = buf} IN
       /\ dropped # {}
       /\ cached' = [cached EXCEPT ![Secure(buf)][key] = @ \ dropped]
       /\ clean' = clean \union dropped
       /\ Signal
    /\ UNCHANGED <<exists, bufOf, inUse, shrink, commit, planes, powered>>

-----------------------------------------------------------------------------
(* removeFBsThreadRoutine                                                  *)

RemoverWaits ==
    /\ remover.at = "lock" /\ remover' = [remover EXCEPT !.at = "wait"]
    /\ UNCHANGED <<exists, bufOf, cached, inUse, shrink, clean, commit, planes, powered>>

RemoverTakes ==
    /\ remover.at = "woken" /\ remover' = [at |-> "remove", fbs |-> clean] /\ clean' = {}
    /\ UNCHANGED <<exists, bufOf, cached, inUse, shrink, commit, planes, powered>>

RemoverRemoves ==
    /\ remover.at = "remove" /\ remover' = [at |-> "lock", fbs |-> {}]
    /\ RemoveFramebuffers(remover.fbs)
    /\ UNCHANGED <<exists, cached, inUse, shrink, clean, commit, powered>>

CacheNext ==
    \/ CheckShrink \/ FrameFails \/ CommitAndFlip
    \/ \E window \in exists \union TargetWindows, buf \in Bufs : FindCached(window, buf) \/ GetBuffer(window, buf)
    \/ \E key \in exists, buf \in Bufs : Uncache(key, buf)
    \/ \E key \in CachedLayers : DestroyLayer(key) \/ CreateLayer(key)
    \/ PowerOffPlanes \/ PowerOnPlanes
    \/ RemoverWaits \/ RemoverTakes \/ RemoverRemoves

CacheSpec == CacheInit /\ [][CacheNext]_cacheVars

-----------------------------------------------------------------------------
(* Whatever the thread removes meanwhile, a commit names only framebuffers *)
(* that the kernel has and that nobody is about to remove, and none that   *)
(* is cached is about to be removed, either.  The exception is a target    *)
(* window: when another target finds their common list full, the whole     *)
(* list goes, and with it the framebuffer that the first one shows.        *)
CommitsNameLiveBuffers ==
    /\ \A w \in DOMAIN commit.fb \ commit.spilled : commit.fb[w] \in DOMAIN bufOf \ (clean \union remover.fbs)
    /\ commit.spilled \subseteq TargetWindows
    /\ \A secure \in Kinds : UNION Images(cached[secure]) \subseteq DOMAIN bufOf \ (clean \union remover.fbs)
=============================================================================
