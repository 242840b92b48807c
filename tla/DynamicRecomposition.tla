------------------------ MODULE DynamicRecomposition ------------------------
(***************************************************************************)
(* A screen that seldom changes is cheaper to compose once on the GPU than *)
(* to scan out layer by layer.  Every validation, and a thread of the      *)
(* device that wakes when nothing has been validated for five seconds,     *)
(* choose between the two (mDynamicReCompMode).  The thread is created and *)
(* joined as the displays go on and off.  Only the choice itself is made   *)
(* under a lock (mDRMutex): a validation comes between any two steps of    *)
(* the thread.                                                             *)
(***************************************************************************)
EXTENDS Naturals

CONSTANT DrDisplays

ASSUME RecompositionAssumption == {"free", "joining"} \cap DrDisplays = {}

VARIABLES
    thread,       \* mDRThread: pc, joinable, alive (mDRThreadStatus), loop (mDRLoopStatus), replaced
    owner,        \* the thread that validates and changes the power: "free", "joining", or the
                  \* display it validates
    dr            \* per display: the fields of ExynosDisplay, and where the thread is with it

drVars == <<thread, owner, dr>>

\* started: mLastModeSwitchTimeStamp is set; settled: it is 5 s old; idle: so is the last update.
\* overtaken: a validation was under way, or began, between the thread's choice and its request.
DrInit ==
    /\ thread = [pc |-> "created", joinable |-> TRUE, alive |-> FALSE, loop |-> TRUE,
                 replaced |-> "none"]
    /\ owner = "free"
    /\ dr = [d \in DrDisplays |->
               [enabled |-> TRUE, client |-> FALSE, heavy |-> FALSE, fast |-> TRUE,
                started |-> FALSE, settled |-> FALSE, idle |-> FALSE, events |-> 0, calls |-> 0,
                untouched |-> FALSE, turn |-> "none", refresh |-> FALSE, overtaken |-> FALSE]]

-----------------------------------------------------------------------------
\* switchDynamicReCompMode.
SwitchMode(r, client) == [r EXCEPT !.client = client]

(* checkDynamicReCompMode.  The layers are heavy if they cover some pixel  *)
(* twice and none has a high priority or was preprocessed.                 *)
CheckMode(r) ==
    LET away == SwitchMode(r, FALSE)
        \* the first update after the thread chose the client; its own refresh is not one
        firstUpdate == r.events # 1 /\ r.client /\ r.calls = 1
        low == ~firstUpdate /\ ~r.fast
    IN
    IF ~r.started THEN [away EXCEPT !.started = TRUE, !.settled = r.idle]
    ELSE IF ~r.heavy
    THEN IF r.client THEN [away EXCEPT !.calls = 0, !.settled = r.idle] ELSE r
    ELSE IF ~r.client /\ ~r.settled THEN r
    ELSE [SwitchMode(r, low) EXCEPT !.calls = 0, !.settled = r.idle]

-----------------------------------------------------------------------------
(* dynamicRecompositionThreadCreate.  Assigning to a joinable std::thread  *)
(* ends the process; where the thread that was replaced stood is kept.     *)
CreateThread ==
    thread' = [thread EXCEPT !.pc = "created", !.joinable = TRUE, !.loop = TRUE,
                             !.replaced = IF thread.joinable THEN thread.pc ELSE @]

\* Mutant: the thread is told to stop, and left.
StopOnly == /\ thread' = [thread EXCEPT !.loop = FALSE]
            /\ UNCHANGED owner

\* The end of checkDynamicRecompositionThread; join waits in JoinEnds.
StopThread == /\ thread' = [thread EXCEPT !.loop = FALSE]
              /\ owner' = "joining"

CheckThread(anyEnabled) ==
    CASE ~thread.alive /\ anyEnabled -> CreateThread /\ UNCHANGED owner
      [] thread.alive /\ ~anyEnabled -> StopThread
      [] OTHER -> UNCHANGED <<thread, owner>>

\* setPowerMode, or a hotplug, with mDREnable.
PowerChanges(d) ==
    /\ owner = "free"
    /\ dr' = [dr EXCEPT ![d].enabled = ~@]
    /\ CheckThread(\E e \in DrDisplays : dr'[e].enabled)

JoinEnds ==
    /\ owner = "joining" /\ thread.pc = "ended"
    /\ thread' = [thread EXCEPT !.joinable = FALSE]
    /\ owner' = "free" /\ UNCHANGED dr

-----------------------------------------------------------------------------
(* validateDisplay counts, reads the layers of the frame and their rate,   *)
(* and then chooses.                                                       *)
Upto2(n) == IF n = 2 THEN 2 ELSE n + 1

Counted(r) ==
    [r EXCEPT !.events = Upto2(@), !.calls = Upto2(@), !.idle = FALSE, !.untouched = FALSE,
              !.refresh = FALSE, !.overtaken = (r.turn \in {"reset", "ask"})]

ValidateBegins(d) ==
    /\ owner = "free" /\ owner' = d
    /\ dr' = [dr EXCEPT ![d] = Counted(@)]
    /\ UNCHANGED thread

ReadLayers(d) ==
    /\ owner = d
    /\ \E heavy, fast \in BOOLEAN : dr' = [dr EXCEPT ![d].heavy = heavy, ![d].fast = fast]
    /\ UNCHANGED <<thread, owner>>

ValidateChecks(d) ==
    /\ owner = d /\ owner' = "free"
    /\ dr' = [dr EXCEPT ![d] = IF @.enabled THEN CheckMode(@) ELSE @]
    /\ IF dr[d].enabled /\ ~thread.alive /\ ~thread.loop THEN CreateThread
       ELSE UNCHANGED thread

\* Five seconds pass for display d; the rate of layers that do not change falls.
TimePasses(d) ==
    /\ ~dr[d].idle \/ dr[d].fast
    /\ \E fast \in {FALSE, dr[d].fast} :
          dr' = [dr EXCEPT ![d].settled = TRUE, ![d].idle = TRUE, ![d].fast = fast]
    /\ UNCHANGED <<thread, owner>>

-----------------------------------------------------------------------------
ThreadStarts ==
    /\ thread.pc = "created"
    /\ thread' = [thread EXCEPT !.pc = "loop", !.alive = TRUE]
    /\ UNCHANGED <<owner, dr>>

ThreadLoops ==
    /\ thread.pc = "loop"
    /\ thread' = [thread EXCEPT !.pc = IF thread.loop THEN "waiting" ELSE "leaving"]
    /\ dr' = IF thread.loop THEN [d \in DrDisplays |-> [dr[d] EXCEPT !.untouched = TRUE]] ELSE dr
    /\ UNCHANGED owner

\* wait_for returns: after five seconds, or because it was told to stop.
ThreadWakes ==
    /\ thread.pc = "waiting"
    /\ thread.loop => \A d \in DrDisplays : dr[d].untouched => dr[d].idle
    /\ thread' = [thread EXCEPT !.pc = IF thread.loop THEN "checking" ELSE "leaving"]
    /\ dr' = IF thread.loop THEN [d \in DrDisplays |-> [dr[d] EXCEPT !.turn = "test"]] ELSE dr
    /\ UNCHANGED owner

(* The thread looks at one display after the other.                        *)
Turns(d, from) == thread.pc = "checking" /\ dr[d].turn = from /\ UNCHANGED <<thread, owner>>

ThreadTests(d) ==
    /\ Turns(d, "test") /\ \A e \in DrDisplays : dr[e].turn \in {"test", "none"}
    /\ dr' = [dr EXCEPT ![d].turn = IF dr[d].enabled /\ dr[d].untouched THEN "choose" ELSE "none"]

Chosen(r, validating) ==
    LET c == CheckMode(r) IN
    IF c.client /\ ~r.client
    THEN [c EXCEPT !.turn = "reset", !.refresh = FALSE, !.overtaken = validating]
    ELSE [c EXCEPT !.turn = "none"]

ThreadChooses(d) ==
    /\ Turns(d, "choose")
    /\ dr' = [dr EXCEPT ![d] = Chosen(@, owner = d)]

\* The counter is not atomic: a validation that counts at the same time may undo the reset.
ThreadResets(d) ==
    /\ Turns(d, "reset")
    /\ \E events \in {0} \union (IF owner = d THEN {dr[d].events} ELSE {}) :
          dr' = [dr EXCEPT ![d].events = events, ![d].turn = "ask"]

\* setGeometryChanged and onRefresh.
ThreadAsks(d) ==
    /\ Turns(d, "ask")
    /\ dr' = [dr EXCEPT ![d].refresh = TRUE, ![d].turn = "none"]

RoundEnds ==
    /\ thread.pc = "checking" /\ \A d \in DrDisplays : dr[d].turn = "none"
    /\ thread' = [thread EXCEPT !.pc = "loop"]
    /\ UNCHANGED <<owner, dr>>

ThreadLeaves ==
    /\ thread.pc = "leaving"
    /\ thread' = [thread EXCEPT !.pc = "ended", !.alive = FALSE]
    /\ UNCHANGED <<owner, dr>>

ThreadChecks(d) == ThreadTests(d) \/ ThreadChooses(d) \/ ThreadResets(d) \/ ThreadAsks(d)

DrNext ==
    /\ thread.replaced = "none"
    /\ \/ \E d \in DrDisplays :
             \/ PowerChanges(d) \/ TimePasses(d) \/ ThreadChecks(d)
             \/ ValidateBegins(d) \/ ReadLayers(d) \/ ValidateChecks(d)
       \/ JoinEnds
       \/ ThreadStarts \/ ThreadLoops \/ ThreadWakes \/ RoundEnds \/ ThreadLeaves

DrSpec == DrInit /\ [][DrNext]_drVars

-----------------------------------------------------------------------------
ThreadIsOwned ==
    /\ thread.replaced \in {"none", "created"}
    /\ thread.pc # "ended" => thread.joinable

\* The validation of the frame that was asked for, with the same layers.
Revalidated(r) == CheckMode(Counted(r))

RefreshKeepsTheChoice ==
    \A d \in DrDisplays : dr[d].refresh /\ ~dr[d].overtaken =>
        dr[d].client /\ (dr[d].enabled => Revalidated(dr[d]).client)

(* A thread that has started is never replaced by a new one (one that has  *)
(* not is, which ends the process), and none is left behind when it is     *)
(* joined; and the frame that the thread asks for after it chose the       *)
(* client composition keeps that choice, whatever happens before the frame *)
(* comes, unless another validation overtook the thread before it asked.   *)
RecompositionIsSafe == ThreadIsOwned /\ RefreshKeepsTheChoice
=============================================================================
