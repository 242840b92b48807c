-------------------------- MODULE HistogramChannels --------------------------
(***************************************************************************)
(* The histogram channels of a display: HistogramDevice hands the few      *)
(* channels of the display processor to the clients that registered a      *)
(* configuration, in the order of a list of configurations without one,    *)
(* and programs them through the atomic commits of the display.            *)
(*                                                                         *)
(* Clients come from binder threads, a commit from the thread that         *)
(* presents: prepareAtomicCommit, the commit and postAtomicCommit are      *)
(* three steps, and mHistogramMutex is free between them.  A configuration *)
(* becomes a property blob for the resolution of the active mode; the blob *)
(* is destroyed with its configuration, also when a request for a commit   *)
(* names it.                                                               *)
(***************************************************************************)
EXTENDS Integers, Sequences, FiniteSets, SequencesExt

CONSTANTS
    Clients,            \* tokens
    HistConfigs,        \* the configurations a client may ask for
    Sizes,              \* resolutions of the display's modes
    HistChannels,       \* numbers of the histogram channels
    ReservedChannels,   \* those the driver keeps for itself
    NoChannel

ASSUME HistogramAssumption ==
    /\ HistChannels \subseteq Nat /\ IsFiniteSet(HistChannels)
    /\ ReservedChannels \subseteq HistChannels
    /\ NoChannel \notin HistChannels

Nobody == "nobody"
NoSize == "uninitialized"

\* The channels of the clients.
Usable == HistChannels \ ReservedChannels

VARIABLES
    configInfo,     \* per token, its configuration (mTokenInfoMap)
    inactive,       \* mInactiveConfigItList, as a sequence of tokens
    mFreeChannels,
    mUsedChannels,
    mChannels,      \* status and owner of each channel
    request,        \* what the atomic request does to each channel
    phase,          \* of the commit: "idle", "prepared", "committed"
    active,         \* resolution of the active mode
    kernel,         \* the blob that each channel runs
    lost            \* channels whose change was in a commit that failed

channelVars == <<configInfo, inactive, mFreeChannels, mUsedChannels, mChannels,
    request, phase, active, kernel, lost>>

-----------------------------------------------------------------------------
Blob(config, size) == [config |-> config, size |-> size]
NoBlob == Blob(Nobody, NoSize)

\* Not registered, or a configuration with its blobs, the active one first.
NoInfo == [config |-> Nobody, status |-> "none", channel |-> NoChannel,
           blobs |-> <<>>]
IsRegistered(c) == configInfo[c].status # "none"

Untouched == [set |-> FALSE, blob |-> NoBlob, of |-> Nobody]

Ascending(s) == \A i, j \in DOMAIN s : i < j => s[i] < s[j]

HistogramInit ==
    /\ configInfo = [c \in Clients |-> NoInfo]
    /\ inactive = <<>>
    /\ mFreeChannels \in {s \in [1 .. Cardinality(Usable) -> Usable] :
                                Ascending(s) /\ ToSet(s) = Usable}
    /\ mUsedChannels = {}
    /\ mChannels = [ch \in HistChannels |->
            [status |-> IF ch \in ReservedChannels THEN "reserved" ELSE "disabled",
             owner |-> Nobody]]
    /\ request = [ch \in HistChannels |-> Untouched]
    /\ phase = "idle"
    /\ active = NoSize
    /\ kernel = [ch \in HistChannels |-> NoBlob]
    /\ lost = {}

-----------------------------------------------------------------------------
(* Registration.                                                           *)

(* The blob is created before the lock is taken, when the resolution is    *)
(* known; the creation may fail, and is done again by the commit.          *)
EarlyBlobs(created) == IF created /\ active # NoSize THEN <<active>> ELSE <<>>

\* The blobs of the old configuration go with it: a request that names one
\* will not be accepted.
DestroyBlobs(c) ==
    request' = [ch \in HistChannels |->
        IF request[ch].of = c THEN [request[ch] EXCEPT !.of = Nobody]
                              ELSE request[ch]]

(* swapInConfigInfo for the first configurations of list, as long as there *)
(* are free channels.                                                      *)
Scheduler(infos, list, free, channels, used) ==
    LET n == IF Len(list) < Len(free) THEN Len(list) ELSE Len(free)
        turn(c) == CHOOSE k \in 1 .. n : list[k] = c
        chosen == {list[k] : k \in 1 .. n}
        taken == {free[k] : k \in 1 .. n}
    IN  /\ configInfo' = [c \in Clients |->
                IF c \in chosen
                THEN [infos[c] EXCEPT !.status = "assigned", !.channel = free[turn(c)]]
                ELSE infos[c]]
        /\ mChannels' = [ch \in HistChannels |->
                IF ch \in taken
                THEN [status |-> "pending",
                      owner |-> CHOOSE c \in chosen : free[turn(c)] = ch]
                ELSE channels[ch]]
        /\ inactive' = SubSeq(list, n + 1, Len(list))
        /\ mFreeChannels' = SubSeq(free, n + 1, Len(free))
        /\ mUsedChannels' = used \union taken

RegisterHistogram(c, config, created) ==
    /\ ~IsRegistered(c)
    /\ Scheduler([configInfo EXCEPT ![c] =
                    [config |-> config, status |-> "inactive",
                     channel |-> NoChannel, blobs |-> EarlyBlobs(created)]],
                 Append(inactive, c), mFreeChannels, mChannels, mUsedChannels)
    /\ UNCHANGED <<request, phase, active, kernel, lost>>

(* Mutant: a channel keeps its status when its configuration is replaced.  *)
KeepStatus(ch) == mChannels[ch]

Reconfigured(ch) == [mChannels[ch] EXCEPT !.status = "pending"]

(* The new configuration takes the place of the old one, on the channel or *)
(* in the list.                                                            *)
ReconfigHistogram(c, config, created) ==
    /\ IsRegistered(c)
    /\ configInfo' = [configInfo EXCEPT ![c].config = config,
                                        ![c].blobs = EarlyBlobs(created)]
    /\ mChannels' = IF configInfo[c].status # "assigned" THEN mChannels
                    ELSE [mChannels EXCEPT ![configInfo[c].channel] =
                            Reconfigured(configInfo[c].channel)]
    /\ DestroyBlobs(c)
    /\ UNCHANGED <<inactive, mFreeChannels, mUsedChannels, phase, active, kernel,
                   lost>>

(* Mutant: the channel is cleaned up, and not given back.                  *)
KeepChannel(ch) == mFreeChannels

FreedChannel(ch) == Append(mFreeChannels, ch)

\* list::erase, at the one place of e.
Erased(s, e) == RemoveAt(s, CHOOSE k \in DOMAIN s : s[k] = e)

(* By the client, or by the recipient of its death.                        *)
UnregisterHistogram(c) ==
    LET ch == configInfo[c].channel
        infos == [configInfo EXCEPT ![c] = NoInfo]
    IN  /\ IsRegistered(c)
        /\ DestroyBlobs(c)
        /\ IF configInfo[c].status = "assigned"
           THEN Scheduler(infos, inactive, FreedChannel(ch),
                    [mChannels EXCEPT ![ch] =
                        [status |-> "disable_pending", owner |-> Nobody]],
                    mUsedChannels \ {ch})
           ELSE Scheduler(infos, Erased(inactive, c), mFreeChannels,
                    mChannels, mUsedChannels)
        /\ UNCHANGED <<phase, active, kernel, lost>>

-----------------------------------------------------------------------------
(* The atomic commit.                                                      *)

\* Creating the blob or adding its property to the request may fail.
Outcomes == {"ok", "no_blob", "no_property"}

(* getMatchBlobId and the blob that is created when none matches: the blob *)
(* for the active resolution comes first.                                  *)
MatchedFirst(blobs) ==
    <<active>> \o IF active \in ToSet(blobs) THEN Erased(blobs, active) ELSE blobs

HasMatch(c) == active \in ToSet(configInfo[c].blobs)

\* A committed channel whose active blob is for the active resolution stays.
NeedsBlob(ch, c) ==
    \/ mChannels[ch].status # "committed"
    \/ ~HasMatch(c)
    \/ Head(configInfo[c].blobs) # active

NewStatus(c, outcome) ==
    CASE ~HasMatch(c) /\ active = NoSize -> "pending"
      [] ~HasMatch(c) /\ active # NoSize /\ outcome = "no_blob" -> "error"
      [] outcome = "no_property" -> "error"
      [] OTHER -> "blob_added"

KeepsBlobs(c, outcome) ==
    ~HasMatch(c) /\ (active = NoSize \/ outcome = "no_blob")

\* The channels whose configuration is to be set, and to be cleared.
ToSetUp == {ch \in mUsedChannels :
    /\ mChannels[ch].status \in {"committed", "pending"}
    /\ NeedsBlob(ch, mChannels[ch].owner)}
ToClear == {ch \in ToSet(mFreeChannels) : mChannels[ch].status = "disable_pending"}

PrepareAtomicCommit(outcome) ==
    LET set == ToSetUp
        owner(ch) == mChannels[ch].owner
        added == {ch \in set : NewStatus(owner(ch), outcome[ch]) = "blob_added"}
        cleared == {ch \in ToClear : outcome[ch] # "no_property"}
    IN  /\ phase = "idle"
        /\ phase' = "prepared"
        /\ mChannels' = [ch \in HistChannels |->
                CASE ch \in set ->
                        [mChannels[ch] EXCEPT !.status =
                            NewStatus(owner(ch), outcome[ch])]
                  [] ch \in ToClear ->
                        [mChannels[ch] EXCEPT !.status =
                            IF ch \in cleared THEN "disable_blob_added"
                                              ELSE "disable_error"]
                  [] OTHER -> mChannels[ch]]
        /\ configInfo' = [c \in Clients |->
                IF \E ch \in set : owner(ch) = c /\ ~KeepsBlobs(c, outcome[ch])
                THEN [configInfo[c] EXCEPT !.blobs = MatchedFirst(@)]
                ELSE configInfo[c]]
        /\ request' = [ch \in HistChannels |->
                CASE ch \in added ->
                        [set |-> TRUE, of |-> owner(ch),
                         blob |-> Blob(configInfo[owner(ch)].config, active)]
                  [] ch \in cleared -> [Untouched EXCEPT !.set = TRUE]
                  [] OTHER -> Untouched]
        /\ lost' = lost \ (added \union cleared)
        /\ UNCHANGED <<inactive, mFreeChannels, mUsedChannels, active, kernel>>

\* A request that names a destroyed blob is refused.
IsRefused ==
    \E ch \in HistChannels : request[ch].blob # NoBlob /\ request[ch].of = Nobody

(* drmReq.commit: one that fails returns at once, and nothing tells the    *)
(* channels.                                                               *)
CommitFails ==
    /\ phase = "prepared"
    /\ phase' = "idle"
    /\ lost' = lost \union {ch \in HistChannels : request[ch].set}
    /\ request' = [ch \in HistChannels |-> Untouched]
    /\ UNCHANGED <<configInfo, inactive, mFreeChannels, mUsedChannels, mChannels,
                   active, kernel>>

\* The commit may set a mode.
CommitSucceeds(size) ==
    /\ phase = "prepared" /\ ~IsRefused
    /\ phase' = "committed"
    /\ kernel' = [ch \in HistChannels |->
            IF request[ch].set THEN request[ch].blob ELSE kernel[ch]]
    /\ request' = [ch \in HistChannels |-> Untouched]
    /\ active' = size
    /\ UNCHANGED <<configInfo, inactive, mFreeChannels, mUsedChannels, mChannels,
                   lost>>

PostAtomicCommit ==
    /\ phase = "committed"
    /\ phase' = "idle"
    /\ mChannels' = [ch \in HistChannels |->
            [mChannels[ch] EXCEPT !.status =
                CASE @ = "blob_added" -> "committed"
                  [] @ = "disable_blob_added" -> "disabled"
                  [] OTHER -> @]]
    /\ UNCHANGED <<configInfo, inactive, mFreeChannels, mUsedChannels, request,
                   active, kernel, lost>>

HistogramNext ==
    \/ \E c \in Clients, config \in HistConfigs, created \in BOOLEAN :
            \/ RegisterHistogram(c, config, created)
            \/ ReconfigHistogram(c, config, created)
    \/ \E c \in Clients : UnregisterHistogram(c)
    \/ \E outcome \in [HistChannels -> Outcomes] : PrepareAtomicCommit(outcome)
    \/ CommitFails
    \/ \E size \in Sizes : CommitSucceeds(size)
    \/ PostAtomicCommit

HistogramSpec == HistogramInit /\ [][HistogramNext]_channelVars

-----------------------------------------------------------------------------
(* Whatever the clients do and die of, every channel is free, reserved or  *)
(* owned by the one client that has it, every client without a channel is  *)
(* once in the list, and nobody waits while a channel is free              *)
(* (replaceConfigInfo, swapInConfigInfo, cleanupChannelInfo, scheduler).   *)
ChannelsAccounted ==
    /\ IsInjective(mFreeChannels) /\ IsInjective(inactive)
    /\ ToSet(mFreeChannels) \intersect mUsedChannels = {}
    /\ ToSet(mFreeChannels) \union mUsedChannels = HistChannels \ ReservedChannels
    /\ mUsedChannels = {configInfo[c].channel : c \in Clients} \ {NoChannel}
    /\ \A c \in Clients :
            /\ configInfo[c].status = "inactive" <=> c \in ToSet(inactive)
            /\ configInfo[c].status = "assigned" <=> configInfo[c].channel # NoChannel
            /\ configInfo[c].status = "assigned" =>
                    mChannels[configInfo[c].channel].owner = c
    /\ \A ch \in HistChannels :
            mChannels[ch].status \in
                IF ch \in ReservedChannels THEN {"reserved"}
                ELSE IF ch \in mUsedChannels
                THEN {"pending", "blob_added", "committed", "error"}
                ELSE {"disabled", "disable_pending", "disable_blob_added",
                      "disable_error"}
    /\ inactive # <<>> => mFreeChannels = <<>>

(* A channel that is said to be committed runs the active blob of its      *)
(* owner's configuration, and one that is said to be off runs none, unless *)
(* the change was in a commit that failed ("channel config is committed to *)
(* drm driver successfully", HistogramDevice.h:130).  No request goes out  *)
(* that leaves a channel with a blob for another resolution.               *)
CommittedIsProgrammed ==
    \A ch \in HistChannels \ lost :
        LET owner == mChannels[ch].owner
            blobs == configInfo[owner].blobs
        IN  CASE mChannels[ch].status = "committed" ->
                    /\ blobs # <<>>
                    /\ kernel[ch] = Blob(configInfo[owner].config, Head(blobs))
                    /\ phase = "prepared" => Head(blobs) = active
              [] mChannels[ch].status = "disabled" -> kernel[ch] = NoBlob
              [] OTHER -> TRUE

\* Both: the channels of the clients, and what runs on them.
ChannelsInStep == ChannelsAccounted /\ CommittedIsProgrammed
=============================================================================
