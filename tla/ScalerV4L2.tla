----------------------------- MODULE ScalerV4L2 -----------------------------
(***************************************************************************)
(* libscaler: CScalerV4L2 (libscaler-v4l2.cpp, .h), driven by the blocking *)
(* call exynos_sc_convert and by the exclusive calls config, run, wait and *)
(* stop (libscaler.cpp).  Flags of each frame say whether its format is    *)
(* fresh, its buffer requested, its queue streaming and a buffer queued;   *)
(* flags of the session say which controls are fresh.  One thread uses a   *)
(* handle; a call is one action, any ioctl of which may fail.              *)
(***************************************************************************)
EXTENDS V4l2Queue

CONSTANTS
    ScImages,       \* what may be asked: records [format, rotation, csc, drm]
    ScFaults        \* the ioctls the driver may fail

VARIABLE
    scaler          \* CScalerV4L2 with its device

ScNoImage == [format |-> "none", rotation |-> 0, csc |-> "none", drm |-> FALSE]

(* jobFor is the image of the last job that was queued; broken: the last   *)
(* run failed and nothing was configured or stopped since.                 *)
ScNew ==
    [fresh |-> [q \in Sides |-> FALSE], reqbufs |-> [q \in Sides |-> FALSE],
     qbuf |-> [q \in Sides |-> FALSE], streaming |-> [q \in Sides |-> FALSE],
     freshControls |-> {}, image |-> ScNoImage,
     dev |-> IdleDevice([protection |-> FALSE, rotation |-> 0, csc |-> "none"]),
     jobFor |-> ScNoImage, broken |-> FALSE,
     ok |-> TRUE, fault |-> NoFault, refused |-> FALSE, hangs |-> FALSE]

ScInit == scaler = ScNew

-----------------------------------------------------------------------------
\* DQBuf of a frame: the flag goes before the ioctl is made.
ScDQBuf(s, q) == IF ~s.ok \/ ~s.qbuf[q] THEN s ELSE DQBUF([s EXCEPT !.qbuf[q] = FALSE], q)

\* DQBuf of both frames.
ScDQBufs(s) == ScDQBuf(ScDQBuf(s, "src"), "dst")

(* ResetDevice: waits for the job, then STREAMOFF and REQBUFS(0), each if  *)
(* its flag is set; failures are logged and the flags cleared all the same.*)
ScReset(s, q) ==
    IF ~s.ok THEN s
    ELSE LET taken == [ScDQBuf(s, q) EXCEPT !.ok = TRUE]
             off == IF s.streaming[q] THEN [STREAMOFF(taken, q) EXCEPT !.ok = TRUE] ELSE taken
             freed == IF s.reqbufs[q] THEN [FREEBUFS(off, q) EXCEPT !.ok = TRUE] ELSE off
         IN  [freed EXCEPT !.streaming[q] = FALSE, !.reqbufs[q] = FALSE]

ScStopAll(s) == ScReset(ScReset(s, "src"), "dst")

\* SetCtrl: a fresh control is set on a stopped device.
ScControl(s, control, value) ==
    IF ~s.ok \/ control \notin s.freshControls THEN s
    ELSE LET done == S_CTRL(ScStopAll(s), control, value)
         IN  IF done.ok THEN [done EXCEPT !.freshControls = @ \ {control}] ELSE done

ScControls(s) ==
    LET protected == ScControl(s, "protection", s.image.drm)
        rotated   == ScControl(protected, "rotation", s.image.rotation)
    IN  ScControl(rotated, "csc", s.image.csc)

\* DevSetFormat of a frame.
ScFormat(s, q) ==
    IF ~s.ok \/ ~s.fresh[q] THEN s
    ELSE LET done == S_FMT(ScReset(s, q), q, s.image.format)
         IN  IF done.ok THEN [done EXCEPT !.fresh[q] = FALSE] ELSE done

ScReqBufs(s, q) ==
    IF ~s.ok \/ s.reqbufs[q] THEN s
    ELSE LET done == REQBUFS(s, q) IN IF done.ok THEN [done EXCEPT !.reqbufs[q] = TRUE] ELSE done

ScStreamOn(s, q) ==
    IF ~s.ok \/ s.streaming[q] THEN s
    ELSE IF ~s.reqbufs[q] THEN Failed(s)
    ELSE LET done == STREAMON(s, q)
         IN  IF done.ok THEN [done EXCEPT !.streaming[q] = TRUE] ELSE done

\* QBuf of a frame takes the buffer of the last job first.
ScQBuf(s, q) ==
    IF ~s.ok THEN s
    ELSE IF ~s.reqbufs[q] THEN Failed(s)
    ELSE LET done == QBUF(ScDQBuf(s, q), q)
         IN  IF done.ok THEN [done EXCEPT !.qbuf[q] = TRUE] ELSE done

\* QBuf of both: the source does not count as queued when the destination fails.
ScQBufs(s) ==
    LET src == ScQBuf(s, "src")
        dst == ScQBuf(src, "dst")
    IN  IF src.ok /\ ~dst.ok THEN [dst EXCEPT !.qbuf.src = FALSE] ELSE dst

\* What both ways of running do before the buffers are queued.
ScPrepared(s) ==
    LET formatted == ScFormat(ScFormat(ScControls(s), "src"), "dst")
    IN  ScReqBufs(ScReqBufs(formatted, "src"), "dst")

ScStreamOns(s) == ScStreamOn(ScStreamOn(s, "src"), "dst")

-----------------------------------------------------------------------------
(* exynos_sc_config_exclusive, or the setters of the blocking call.  The   *)
(* protection is fresh only when it changes.                               *)
ScConfigure(image) ==
    scaler' = [scaler EXCEPT
        !.image = image,
        !.fresh = [q \in Sides |-> TRUE],
        !.freshControls = @ \cup {"rotation", "csc"}
                             \cup (IF image.drm # scaler.image.drm THEN {"protection"} ELSE {}),
        !.broken = FALSE]

(* exynos_sc_run_exclusive: queue, then start.  A client configures or     *)
(* stops the scaler after a run that failed.                               *)
ScRun(fault) ==
    LET s == ScStreamOns(ScQBufs(ScPrepared(Called(scaler, fault)))) IN
    /\ scaler.image # ScNoImage /\ ~scaler.broken
    /\ scaler' = Returned(IF s.ok THEN [s EXCEPT !.jobFor = s.image]
                          ELSE [s EXCEPT !.broken = TRUE])

(* exynos_sc_convert: Run starts the queues first, stops everything when   *)
(* the buffers cannot be queued, and waits.                                *)
ScConvert(fault) ==
    LET started == ScStreamOns(ScPrepared(Called(scaler, fault)))
        queued == ScQBufs(started)
        given == [queued EXCEPT !.jobFor = queued.image]
    IN
    /\ scaler.image # ScNoImage /\ ~scaler.broken
    /\ scaler' = Returned(IF queued.ok THEN ScDQBufs(given)
                          ELSE IF started.ok THEN Failed(ScStopAll(Tidied(queued)))
                          ELSE [started EXCEPT !.broken = TRUE])

\* exynos_sc_wait_frame_done_exclusive.
ScWait == scaler' = Returned(ScDQBufs(Called(scaler, NoFault)))

\* exynos_sc_stop_exclusive.
ScStop == scaler' = [Returned(ScStopAll(Called(scaler, NoFault))) EXCEPT !.broken = FALSE]

ScNext ==
    \/ \E image \in ScImages : ScConfigure(image)
    \/ \E fault \in ScFaults \cup {NoFault} : ScRun(fault) \/ ScConvert(fault)
    \/ ScWait
    \/ ScStop

-----------------------------------------------------------------------------
\* The engine did its last job with the configuration it was queued for.
ScJobsAreAsOrdered ==
    LET job == scaler.dev.job IN
    job # NoJob =>
        /\ job.src = scaler.jobFor.format
        /\ job.dst = scaler.jobFor.format
        /\ job.controls = [protection |-> scaler.jobFor.drm, rotation |-> scaler.jobFor.rotation,
                           csc |-> scaler.jobFor.csc]

\* No call is refused for the state its predecessors left, and none waits for ever.
ScNeverStuck == ~scaler.refused /\ ~scaler.hangs
=============================================================================
