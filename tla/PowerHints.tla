----------------------------- MODULE PowerHints -----------------------------
(***************************************************************************)
(* The power hints of a display (ExynosDisplay::PowerHalHintWorker): a     *)
(* worker thread that tells the power HAL, another process, the refresh    *)
(* rate and whether the display is idle, and keeps a hint session with the *)
(* target work duration.  The power HAL may die at any time and come back  *)
(* with nothing set.                                                       *)
(*                                                                         *)
(* The model starts when the support of the hints is known.  Reports of    *)
(* actual durations are left out.                                          *)
(***************************************************************************)
EXTENDS Integers, FiniteSets

CONSTANTS
    HintRates,        \* refresh rates
    Targets,          \* target work durations
    MaxRetries,       \* the connection attempts until the HAL counts as absent
    LateObituary      \* a notification of a death may come after the HAL's restart

ASSUME HintAssumption ==
    /\ 0 \notin HintRates /\ HintRates # {} /\ Targets # {} /\ 0 \notin Targets
    /\ MaxRetries \in Nat \ {0} /\ LateObituary \in BOOLEAN

VARIABLES
    wanted,        \* power: mPowerModeState is on, rate: mRefreshRate,
                   \* deadline: mIdleHintDeadlineTime, target: mTargetWorkDuration
    pending,       \* rate: mNeedUpdateRefreshRateHint, idle: mForceUpdateIdleHint,
                   \* tids: mTidsUpdated
    last,          \* rate: mLastRefreshRateHint, idle: mIdleHintIsEnabled,
                   \* target: mLastTargetDurationReported
    link,          \* the proxy of the power HAL, mPowerHalExtAidl
    session,       \* mPowerHintSession
    retries,       \* mConnectRetryCount
    routine,       \* where the worker is, with its local copies
    hal,           \* the power HAL: alive, and what it was told
    obituary       \* a death notification is on its way

hintVars == <<wanted, pending, last, link, session, retries, routine, hal, obituary>>

NewHal == [alive |-> TRUE, rates |-> {}, idle |-> FALSE, target |-> 0]

HintInit ==
    /\ wanted \in [power : {TRUE}, rate : HintRates, deadline : {"none"}, target : Targets]
    /\ pending = [rate |-> TRUE, idle |-> FALSE, tids |-> TRUE]
    /\ last = [rate |-> 0, idle |-> FALSE, target |-> 0]
    /\ link = "live" /\ session = "none" /\ retries = 0
    /\ routine = [at |-> "test", power |-> FALSE, deadline |-> "none", updateRate |-> FALSE,
                  force |-> FALSE, rate |-> 0, start |-> FALSE]
    /\ hal = NewHal /\ obituary = FALSE

-----------------------------------------------------------------------------
(* Callers, in any thread, under the worker's lock.                        *)

Wakened(r) == IF r.at = "wait" THEN [r EXCEPT !.at = "copy"] ELSE r

(* signalRefreshRate                                                       *)
SignalRefreshRate(power, rate) ==
    /\ wanted' = [wanted EXCEPT !.power = power, !.rate = rate]
    /\ pending' = [pending EXCEPT !.rate = TRUE]
    /\ routine' = Wakened(routine)
    /\ UNCHANGED <<last, link, session, retries, hal, obituary>>

(* signalNonIdle                                                           *)
SignalNonIdle ==
    /\ wanted.deadline # "future" /\ wanted' = [wanted EXCEPT !.deadline = "future"]
    /\ routine' = Wakened(routine)
    /\ UNCHANGED <<pending, last, link, session, retries, hal, obituary>>

(* signalTargetWorkDuration                                                *)
SignalTarget(target) ==
    /\ target # wanted.target /\ wanted' = [wanted EXCEPT !.target = target]
    /\ routine' = IF target # last.target THEN Wakened(routine) ELSE routine
    /\ UNCHANGED <<pending, last, link, session, retries, hal, obituary>>

(* addBinderTid, removeBinderTid: the session is started again.            *)
TidChanges ==
    /\ pending' = [pending EXCEPT !.tids = TRUE]
    /\ routine' = Wakened(routine)
    /\ UNCHANGED <<wanted, last, link, session, retries, hal, obituary>>

(* The idle deadline passes; a worker that waits for it wakes up.          *)
IdleDeadline ==
    /\ wanted.deadline = "future" /\ wanted' = [wanted EXCEPT !.deadline = "past"]
    /\ routine' = Wakened(routine)
    /\ UNCHANGED <<pending, last, link, session, retries, hal, obituary>>

HalDies ==
    /\ hal.alive /\ hal' = [NewHal EXCEPT !.alive = FALSE]
    /\ link' = (IF link = "live" THEN "dead" ELSE link)
    /\ session' = (IF session = "live" THEN "dead" ELSE session)
    /\ obituary' = (obituary \/ link = "live")
    /\ UNCHANGED <<wanted, pending, last, retries, routine>>

HalRestarts ==
    /\ ~hal.alive /\ hal' = NewHal /\ (LateObituary \/ ~obituary)
    /\ UNCHANGED <<wanted, pending, last, link, session, retries, routine, obituary>>

(* BinderDiedCallback: forceUpdateHints.                                   *)
Forced(p) == [p EXCEPT !.rate = TRUE, !.idle = TRUE]
BinderDied ==
    /\ obituary /\ obituary' = FALSE
    /\ last' = [last EXCEPT !.rate = 0] /\ pending' = Forced(pending)
    /\ routine' = Wakened(routine)
    /\ UNCHANGED <<wanted, link, session, retries, hal>>

-----------------------------------------------------------------------------
(* Routine                                                                 *)

At(label) == routine.at = label
\* A local copy is forgotten once it has been used.
Goto(label) == routine' =
    [routine EXCEPT !.at = label, !.deadline = "none", !.force = FALSE,
        !.power = (@ /\ label = "rate"), !.updateRate = (@ /\ label = "rate"),
        !.rate = IF label = "record" THEN @ ELSE 0,
        !.start = (@ /\ label \in {"rate", "send", "record", "session"})]

IdleWanted(deadline) == deadline = "past"
NeedsStart == session = "none" \/ pending.tids

(* Nothing to do: the worker waits.                                        *)
Test ==
    /\ At("test")
    /\ session' = IF pending.tids THEN "none" ELSE session
    /\ Goto(IF pending.rate \/ pending.idle \/ last.idle # IdleWanted(wanted.deadline) \/ NeedsStart
               \/ wanted.target # last.target
            THEN "copy" ELSE "wait")
    /\ UNCHANGED <<wanted, pending, last, link, retries, hal, obituary>>

ClearedFlags == [rate |-> FALSE, idle |-> FALSE, tids |-> FALSE]

(* "Clear the flags here instead of clearing them after calling the hint   *)
(* update functions."                                                      *)
Copy ==
    /\ At("copy")
    /\ routine' = [at |-> "idle", power |-> wanted.power, deadline |-> wanted.deadline,
                   updateRate |-> pending.rate, force |-> pending.idle, rate |-> 0, start |-> session = "none"]
    /\ pending' = ClearedFlags
    /\ UNCHANGED <<wanted, last, link, session, retries, hal, obituary>>

Connects == link = "none"
Exists == retries < MaxRetries

(* connectPowerHal fails, or the call to a HAL that has died.              *)
CallFails ==
    \/ /\ Connects /\ ~hal.alive /\ retries' = IF Exists THEN retries + 1 ELSE retries
       /\ UNCHANGED link
    \/ link = "dead" /\ link' = "none" /\ UNCHANGED retries

(* Mutant: what was sent to the last HAL counts for the new one.           *)
Resumed == retries' = 0 /\ UNCHANGED <<session, pending>>

(* connectPowerHal: every hint and the session are to be set again.        *)
Reconnected == retries' = 0 /\ session' = "none" /\ pending' = Forced(pending)

(* sendPowerHalExtHint succeeds, after connecting if needed.               *)
CallSucceeds(told) ==
    /\ hal.alive /\ link # "dead" /\ link' = "live" /\ hal' = told
    /\ IF Connects THEN Reconnected ELSE UNCHANGED <<retries, session, pending>>

(* updateIdleHint                                                          *)
UpdateIdleHint ==
    /\ At("idle")
    /\ LET on == IdleWanted(routine.deadline) IN
       IF ~Exists \/ (on = last.idle /\ ~routine.force)
       THEN Goto("rate") /\ UNCHANGED <<last, link, session, retries, pending, hal>>
       ELSE /\ \/ /\ CallSucceeds([hal EXCEPT !.idle = on])
                  /\ last' = [last EXCEPT !.idle = on, !.rate = IF Connects THEN 0 ELSE @]
               \/ CallFails /\ UNCHANGED <<last, session, pending, hal>>
            /\ Goto("rate")
    /\ UNCHANGED <<wanted, obituary>>

(* updateRefreshRateHintInternal: the old hint is disabled first.  The     *)
(* rate is read without the lock.                                          *)
Retry == pending' = [pending EXCEPT !.rate = (@ \/ wanted.power)]
RateFails ==
    /\ last' = [last EXCEPT !.rate = IF link = "dead" THEN 0 ELSE @]
    /\ CallFails /\ Retry /\ UNCHANGED <<session, hal>>

DisableOldRate ==
    /\ At("rate")
    /\ LET rate == wanted.rate IN
       IF ~routine.updateRate \/ (last.rate = rate /\ routine.power)
       THEN Goto("session") /\ UNCHANGED <<last, link, session, retries, pending, hal>>
       ELSE \/ /\ last.rate # 0 /\ RateFails /\ Goto("session")
            \/ /\ IF last.rate # 0
                  THEN /\ CallSucceeds([hal EXCEPT !.rates = @ \ {last.rate}])
                       /\ last' = [last EXCEPT !.rate = 0]
                  ELSE UNCHANGED <<last, link, session, retries, pending, hal>>
               /\ IF routine.power
                  THEN routine' = [routine EXCEPT !.at = "send", !.rate = rate]
                  ELSE Goto("session")
    /\ UNCHANGED <<wanted, obituary>>

SendNewRate ==
    /\ At("send")
    /\ IF ~Exists THEN Goto("session") /\ UNCHANGED <<last, link, session, retries, pending, hal>>
       ELSE \/ RateFails /\ Goto("session")
            \/ /\ CallSucceeds([hal EXCEPT !.rates = @ \union {routine.rate}]) /\ Goto("record")
               /\ last' = [last EXCEPT !.rate = IF Connects THEN 0 ELSE @]
    /\ UNCHANGED <<wanted, obituary>>

RecordRate ==
    /\ At("record") /\ last' = [last EXCEPT !.rate = routine.rate] /\ Goto("session")
    /\ UNCHANGED <<wanted, pending, link, session, retries, hal, obituary>>

(* startHintSession, with the target of that moment.  After a connection   *)
(* that failed mPowerHalAidl is null and the call crashes the composer.    *)
StartSession ==
    /\ At("session")
    /\ IF ~routine.start THEN Goto("target") /\ UNCHANGED <<session, last, link, hal>>
       ELSE IF retries > 0 THEN Goto("crashed") /\ UNCHANGED <<session, last, link, hal>>
       ELSE /\ Goto("target")
            /\ IF hal.alive /\ link = "live"
               THEN /\ session' = "live" /\ last' = [last EXCEPT !.target = wanted.target]
                    /\ hal' = [hal EXCEPT !.target = wanted.target] /\ UNCHANGED link
               ELSE link' = "none" /\ UNCHANGED <<session, last, hal>>
    /\ UNCHANGED <<wanted, pending, retries, obituary>>

(* updateTargetWorkDuration                                                *)
UpdateTarget ==
    /\ At("target") /\ Goto("test")
    /\ IF session = "none" \/ wanted.target = last.target THEN UNCHANGED <<last, link, hal>>
       ELSE /\ last' = [last EXCEPT !.target = wanted.target]
            /\ IF session = "live" THEN hal' = [hal EXCEPT !.target = wanted.target] /\ UNCHANGED link
                                   ELSE link' = "none" /\ UNCHANGED hal
    /\ UNCHANGED <<wanted, pending, session, retries, obituary>>

HintNext ==
    \/ \E power \in BOOLEAN, rate \in HintRates : SignalRefreshRate(power, rate)
    \/ \E target \in Targets : SignalTarget(target)
    \/ SignalNonIdle \/ TidChanges \/ IdleDeadline
    \/ HalDies \/ HalRestarts \/ BinderDied
    \/ Test \/ Copy \/ UpdateIdleHint \/ DisableOldRate \/ SendNewRate \/ RecordRate
    \/ StartSession \/ UpdateTarget

HintSpec == HintInit /\ [][HintNext]_hintVars

-----------------------------------------------------------------------------
(* When the worker sleeps with a connection, the power HAL, restarted or   *)
(* not, has been told the display's present rate, no rate of a display     *)
(* that is off, whether it is idle, and the present target.                *)
PowerHalIsUpToDate ==
    (At("wait") /\ link = "live") =>
        /\ hal.rates = IF wanted.power THEN {wanted.rate} ELSE {}
        /\ hal.idle = IdleWanted(wanted.deadline)
        /\ hal.target = wanted.target
=============================================================================
