---------------------------- MODULE M2mComposition ----------------------------
(***************************************************************************)
(* The memory-to-memory composition of a display: the 2D engine composes   *)
(* the layers of a frame into one of three destination buffers of its MPP, *)
(* and the display scans that buffer out.  The module follows a buffer     *)
(* from validateDisplay, which starts the composition, through             *)
(* presentDisplay to the screen and back, with the fences that keep the    *)
(* engine from writing what the screen still reads, the reuse of the       *)
(* previous result when no layer has changed, and the frames that are lost *)
(* after they were composed.                                               *)
(*                                                                         *)
(* A frame's layers are one value of M2mSources.  The engine executes its   *)
(* jobs in order, each after its acquire fence; a commit is on the screen  *)
(* after its vsync (Flip), which signals the fence the commit returned.  A *)
(* buffer that leaves the ring is freed by a thread when nobody reads it;  *)
(* the model keeps what it shows with the frames that show it.             *)
(***************************************************************************)
EXTENDS Integers, Sequences, FiniteSetsExt

CONSTANTS
    M2mDisplays,        \* displays that use the MPP, each of its own type
    M2mSources,         \* what a frame of each display gives the engine to compose
    M2mSecure,          \* the sources that need a protected buffer
    MaxJobs,            \* bound: jobs queued in the engine
    ComposeAfterLoss    \* the MPP is used again at once after a lost frame

AllSources == UNION {M2mSources[d] : d \in M2mDisplays}

None == "none"

ASSUME M2mAssumption ==
    /\ DOMAIN M2mSources = M2mDisplays
    /\ None \notin M2mDisplays \union AllSources
    /\ M2mSecure \subseteq AllSources
    /\ MaxJobs \in Nat
    /\ ComposeAfterLoss \in BOOLEAN

\* The destination buffers are a ring of three.
DstBufs == 0 .. 2
NoBuf == -1
OutOfRing == 3

VARIABLES
    mAssigned,          \* the display the MPP is assigned to
    mHWState,
    mCurrentDstBuf, mPrivDstBuf,
    mPrevAssigned,      \* display of the last processing (its type)
    mPrevFrame,         \* sources of the last processing
    mDstImgs,           \* the ring: allocated for, protection, fence, image
    engine,             \* jobs of the 2D engine
    validated,          \* per display, the frame between validate and present
    inFlight,           \* per display, the commit whose vsync is to come
    screen,             \* per display, what is scanned out
    lost                \* a composed frame was lost and the MPP still runs

m2mVars == <<mAssigned, mHWState, mCurrentDstBuf, mPrivDstBuf, mPrevAssigned,
    mPrevFrame, mDstImgs, engine, validated, inFlight, screen, lost>>

-----------------------------------------------------------------------------
\* A frame: its sources, the buffer that shows them, the jobs of the engine
\* that its acquire fence still waits for, and what a buffer that has left
\* the ring shows.
NoM2mFrame == [src |-> None, buf |-> NoBuf, ahead |-> 0, shows |-> None]
NoneInFlight == [NoM2mFrame EXCEPT !.ahead = -1]

EmptyImg == [display |-> None, secure |-> FALSE, acq |-> None, image |-> None]

IsAllocated(i) == mDstImgs[i].display # None

M2mInit ==
    /\ mAssigned = None /\ mHWState = "idle"
    /\ mCurrentDstBuf = 0 /\ mPrivDstBuf = -1
    /\ mPrevAssigned = None /\ mPrevFrame = None
    /\ mDstImgs = [i \in DstBufs |-> EmptyImg]
    /\ engine = <<>>
    /\ validated = [d \in M2mDisplays |-> NoneInFlight]
    /\ inFlight = [d \in M2mDisplays |-> NoneInFlight]
    /\ screen = [d \in M2mDisplays |-> NoM2mFrame]
    /\ lost = FALSE

-----------------------------------------------------------------------------
(* Buffers that leave the ring. *)

\* What buffer i shows when the jobs queued for it are done.
JobsFor(i) == {j \in 1 .. Len(engine) : engine[j].buf = i}

FinalImage(i) ==
    IF JobsFor(i) = {} THEN mDstImgs[i].image ELSE engine[Max(JobsFor(i))].src

Detached(frame, out) ==
    IF frame.buf \in out
    THEN [frame EXCEPT !.buf = OutOfRing, !.shows = FinalImage(frame.buf)]
    ELSE frame

DetachedFrames(frames, out) ==
    [d \in M2mDisplays |-> Detached(frames[d], out)]

DetachedJobs(out) ==
    [j \in 1 .. Len(engine) |->
        [engine[j] EXCEPT !.buf = IF @ \in out THEN OutOfRing ELSE @]]

-----------------------------------------------------------------------------
(* The MPP between frames. *)

IsAssignableState(d) ==
    /\ mAssigned \in {None, d}
    /\ mHWState = "idle" \/ mPrevAssigned \in {None, d}

\* Nothing of the earlier frames is under way or shown.
Quiet == engine = <<>> /\ \A d \in M2mDisplays :
            {validated[d].buf, inFlight[d].buf, screen[d].buf} \subseteq
                {NoBuf, OutOfRing}

\* updateResourceState, after the last display's resources were assigned: the
\* buffers go, their fences stay until a new buffer is allocated there.
HWIdle(frames) ==
    /\ mHWState' = "idle"
    /\ lost' = (lost /\ ~Quiet)
    /\ IF mHWState = "idle"
       THEN /\ validated' = frames
            /\ UNCHANGED <<mPrevFrame, mDstImgs, engine, inFlight, screen>>
       ELSE /\ mPrevFrame' = None
            /\ mDstImgs' = [i \in DstBufs |->
                    [EmptyImg EXCEPT !.acq = mDstImgs[i].acq]]
            /\ engine' = DetachedJobs(DstBufs)
            /\ validated' = DetachedFrames(frames, DstBufs)
            /\ inFlight' = DetachedFrames(inFlight, DstBufs)
            /\ screen' = DetachedFrames(screen, DstBufs)

-----------------------------------------------------------------------------
(* Validation starts the composition (earlyStartMPP). *)

PrevDstBuf == (mCurrentDstBuf + 2) % 3

NeedDstBufRealloc(d, s) ==
    \/ mDstImgs[mCurrentDstBuf].display # d
    \/ mPrevAssigned # d
    \/ mDstImgs[mCurrentDstBuf].secure # (s \in M2mSecure)

\* Mutant: the previous result is reused as long as there is one.
CanUseAnyFrame(s) == mPrevFrame # None /\ IsAllocated(PrevDstBuf)

CanUsePrevFrame(s) == mPrevFrame = s /\ IsAllocated(PrevDstBuf)

\* The engine composes s into the current buffer, after its acquire fence.
Execute(d, s, img, jobs, failed) ==
    /\ engine' = IF failed THEN jobs
                 ELSE Append(jobs, [buf |-> mCurrentDstBuf, src |-> s,
                                    acq |-> img.acq])
    /\ mDstImgs' = [mDstImgs EXCEPT ![mCurrentDstBuf] =
                        [img EXCEPT !.acq = None, !.display = d]]
    /\ UNCHANGED mCurrentDstBuf

\* A new buffer takes the current place in the ring.
AllocOutBuf(d, s, failed) ==
    LET out == {mCurrentDstBuf}
    IN  /\ Execute(d, s, [EmptyImg EXCEPT !.secure = (s \in M2mSecure)],
                   DetachedJobs(out), failed)
        /\ inFlight' = DetachedFrames(inFlight, out)
        /\ screen' = DetachedFrames(screen, out)

\* A validation that fails composes the frame on the GPU.
ComposedFrame(s, failed) ==
    IF failed THEN NoM2mFrame
    ELSE [src |-> s, buf |-> mCurrentDstBuf, ahead |-> Len(engine) + 1,
          shows |-> None]

\* The previous result has been presented, and has no fence any more.
ReusedFrame(s) ==
    [src |-> s, buf |-> PrevDstBuf, ahead |-> 0, shows |-> None]

DoPostProcessing(d, s, failed) ==
    CASE NeedDstBufRealloc(d, s) ->
            /\ AllocOutBuf(d, s, failed)
            /\ validated' = [DetachedFrames(validated, {mCurrentDstBuf})
                                EXCEPT ![d] = ComposedFrame(s, failed)]
      [] ~NeedDstBufRealloc(d, s) /\ CanUsePrevFrame(s) ->
            /\ ~failed
            /\ mCurrentDstBuf' = PrevDstBuf
            /\ validated' = [validated EXCEPT ![d] = ReusedFrame(s)]
            /\ UNCHANGED <<engine, mDstImgs, inFlight, screen>>
      [] OTHER ->
            /\ Execute(d, s, mDstImgs[mCurrentDstBuf], engine, failed)
            /\ validated' = [validated EXCEPT ![d] = ComposedFrame(s, failed)]
            /\ UNCHANGED <<inFlight, screen>>

\* The frame information is saved whether or not the engine took the job.
SaveFrameInfo(d, s) == mPrevAssigned' = d /\ mPrevFrame' = s

\* A frame of d whose layers go through the engine.
ValidateComposed(d, s, failed) ==
    /\ validated[d] = NoneInFlight /\ Len(engine) < MaxJobs
    /\ lost => ComposeAfterLoss
    /\ IsAssignableState(d)
    /\ mAssigned' = IF failed THEN None ELSE d
    /\ mHWState' = "running"
    /\ DoPostProcessing(d, s, failed)
    /\ SaveFrameInfo(d, s)
    /\ lost' = (lost \/ failed)
    /\ UNCHANGED mPrivDstBuf

\* A frame of d without the engine.  When d is the last display to validate,
\* an MPP that is not assigned goes idle.
ValidateDirect(d, last) ==
    LET frames == [validated EXCEPT ![d] = NoM2mFrame]
    IN  /\ validated[d] = NoneInFlight
        /\ mAssigned' = IF mAssigned = d THEN None ELSE mAssigned
        /\ IF last /\ mAssigned' = None
           THEN HWIdle(frames)
           ELSE /\ validated' = frames
                /\ UNCHANGED <<mHWState, mPrevFrame, mDstImgs, engine, inFlight,
                               screen, lost>>
        /\ UNCHANGED <<mCurrentDstBuf, mPrivDstBuf, mPrevAssigned>>

-----------------------------------------------------------------------------
(* The frame is presented. *)

\* The fence of a commit tells when the buffer of the commit before it is
\* free: it is stored with the buffer that was presented last.
SetDstAcquireFence(fence) ==
    /\ mDstImgs' = IF mPrivDstBuf < 0 \/ fence = None THEN mDstImgs
                   ELSE [mDstImgs EXCEPT ![mPrivDstBuf].acq = fence]
    /\ mPrivDstBuf' = mCurrentDstBuf

IncreaseDstBuffIndex == mCurrentDstBuf' = (mCurrentDstBuf + 1) % 3

\* The commit of the frame; one that fails returns no fence.
PresentComposed(d, delivered) ==
    /\ validated[d] # NoneInFlight /\ inFlight[d] = NoneInFlight
    /\ inFlight' = [inFlight EXCEPT ![d] = IF delivered THEN validated[d] ELSE @]
    /\ validated' = [validated EXCEPT ![d] = NoneInFlight]
    /\ IF validated[d].buf = NoBuf
       THEN UNCHANGED <<mCurrentDstBuf, mPrivDstBuf, mDstImgs, lost>>
       ELSE /\ SetDstAcquireFence(IF delivered THEN d ELSE None)
            /\ IncreaseDstBuffIndex
            /\ lost' = (lost \/ ~delivered)
    /\ UNCHANGED <<mAssigned, mHWState, mPrevAssigned, mPrevFrame, engine,
                   screen>>

\* The display is paused, in trusted UI, or changing its resolution: the
\* fences are closed, and the ring stays as the validation left it.
DropComposed(d) ==
    /\ validated[d] # NoneInFlight
    /\ validated' = [validated EXCEPT ![d] = NoneInFlight]
    /\ lost' = (lost \/ validated[d].buf # NoBuf)
    /\ UNCHANGED <<mAssigned, mHWState, mCurrentDstBuf, mPrivDstBuf,
                   mPrevAssigned, mPrevFrame, mDstImgs, engine, inFlight, screen>>

-----------------------------------------------------------------------------
(* The engine and the display. *)

OneJobLess(frames) ==
    [d \in M2mDisplays |->
        [frames[d] EXCEPT !.ahead = IF @ > 0 THEN @ - 1 ELSE @]]

JobDone ==
    /\ engine # <<>> /\ Head(engine).acq = None
    /\ mDstImgs' = IF Head(engine).buf = OutOfRing THEN mDstImgs
                   ELSE [mDstImgs EXCEPT ![Head(engine).buf].image =
                            Head(engine).src]
    /\ engine' = Tail(engine)
    /\ validated' = OneJobLess(validated)
    /\ inFlight' = OneJobLess(inFlight)
    /\ UNCHANGED <<mAssigned, mHWState, mCurrentDstBuf, mPrivDstBuf,
                   mPrevAssigned, mPrevFrame, screen, lost>>

Signalled(acq, d) == IF acq = d THEN None ELSE acq

Flip(d) ==
    /\ inFlight[d] # NoneInFlight /\ inFlight[d].ahead = 0
    /\ screen' = [screen EXCEPT ![d] = inFlight[d]]
    /\ inFlight' = [inFlight EXCEPT ![d] = NoneInFlight]
    /\ mDstImgs' = [i \in DstBufs |->
            [mDstImgs[i] EXCEPT !.acq = Signalled(@, d)]]
    /\ engine' = [j \in 1 .. Len(engine) |->
            [engine[j] EXCEPT !.acq = Signalled(@, d)]]
    /\ UNCHANGED <<mAssigned, mHWState, mCurrentDstBuf, mPrivDstBuf,
                   mPrevAssigned, mPrevFrame, validated, lost>>

M2mNext ==
    \/ \E d \in M2mDisplays, failed \in BOOLEAN : \E s \in M2mSources[d] :
            ValidateComposed(d, s, failed)
    \/ \E d \in M2mDisplays, last \in BOOLEAN : ValidateDirect(d, last)
    \/ \E d \in M2mDisplays, delivered \in BOOLEAN : PresentComposed(d, delivered)
    \/ \E d \in M2mDisplays : DropComposed(d) \/ Flip(d)
    \/ JobDone

M2mSpec == M2mInit /\ [][M2mNext]_m2mVars

-----------------------------------------------------------------------------

\* What a display scans out is the composition of its frame's own layers: the
\* engine never writes a buffer that is still shown, and a result is reused
\* only for the layers it was composed from ("Reuse previous frame",
\* ExynosMPP::doPostProcessing, setDstAcquireFence, increaseDstBuffIndex).
ScreenShowsItsFrame ==
    \A d \in M2mDisplays :
        CASE screen[d].buf = NoBuf -> TRUE
          [] screen[d].buf = OutOfRing -> screen[d].shows = screen[d].src
          [] OTHER -> mDstImgs[screen[d].buf].image = screen[d].src
=============================================================================
