------------------------------ MODULE Gscaler ------------------------------
(***************************************************************************)
(* libgscaler: the G-Scaler driven through its memory-to-memory video node *)
(* (libgscaler_obj.cpp), with the blocking call exynos_gsc_convert and the *)
(* exclusive calls config, run, wait and stop (libgscaler.cpp).  Only the  *)
(* memory-to-memory mode can be created.  Calls of one handle come from    *)
(* one thread; a call is one action, whose ioctls may fail one by one.     *)
(***************************************************************************)
EXTENDS V4l2Queue

CONSTANTS
    GscImages,      \* what may be asked: records [format, rotation, csc, drm]
    GscFaults       \* the ioctls the driver may fail

VARIABLES
    gsc,            \* the CGscaler object with its device
    gscOrder        \* the image of the last configuration

gscVars == <<gsc, gscOrder>>

GscNoImage == [format |-> "none", rotation |-> 0, csc |-> "none", drm |-> FALSE]

\* dirty, stream_on and buffer_queued of src_info and dst_info.
GscNew ==
    [dirty |-> [q \in Sides |-> FALSE], stream |-> [q \in Sides |-> FALSE],
     queued |-> [q \in Sides |-> FALSE], image |-> GscNoImage,
     dev |-> IdleDevice([protection |-> FALSE, rotation |-> 0, csc |-> "none"]),
     jobFor |-> GscNoImage, ok |-> TRUE, fault |-> NoFault, refused |-> FALSE, hangs |-> FALSE]

GscInit == gsc = GscNew /\ gscOrder = GscNoImage

-----------------------------------------------------------------------------
(* m_gsc_m2m_wait_frame_done: take the buffers of the last job back.       *)
GscTaken(s, q) ==
    IF ~s.ok \/ ~s.queued[q] THEN s
    ELSE LET t == DQBUF(s, q) IN IF t.ok THEN [t EXCEPT !.queued[q] = FALSE] ELSE t

GscWaited(s) ==
    IF ~s.ok THEN s
    ELSE IF ~(s.stream.src /\ s.stream.dst) THEN Failed(s)
    ELSE GscTaken(GscTaken(s, "src"), "dst")

(* m_gsc_m2m_stop: nothing unless a queue streams; otherwise it plows on   *)
(* through failing ioctls, and reports them.                               *)
GscOff(s, q) ==
    IF s.stream[q] THEN [STREAMOFF(Tidied(s), q) EXCEPT !.stream[q] = FALSE] ELSE s

GscClearProtection(s) == S_CTRL(Tidied(s), "protection", FALSE)

GscStopped(s) ==
    IF ~s.stream.src /\ ~s.stream.dst THEN s
    ELSE LET off == GscOff(GscOff(s, "src"), "dst")
             cleared == GscClearProtection(off)
             freed == FREEBUFS(Tidied(FREEBUFS(Tidied(cleared), "src")), "dst")
         IN  [freed EXCEPT !.ok = s.ok, !.fault = s.fault]

(* m_gsc_set_format: rotation and format of one side, then its buffer.     *)
(* Only the destination has a rotation; the source writes 0.               *)
GscFormatted(s, q) ==
    IF ~s.ok \/ ~s.dirty[q] THEN s
    ELSE LET rotated == S_CTRL(s, "rotation", IF q = "dst" THEN s.image.rotation ELSE 0)
             done == REQBUFS(S_FMT(rotated, q, s.image.format), q)
         IN  IF done.ok THEN [done EXCEPT !.dirty[q] = FALSE] ELSE done

\* m_gsc_set_addr.
GscQueued(s, q) == LET t == QBUF(s, q) IN IF t.ok THEN [t EXCEPT !.queued[q] = TRUE] ELSE t

GscStarted(s, q) ==
    IF ~s.ok \/ s.stream[q] THEN s
    ELSE LET t == STREAMON(s, q) IN IF t.ok THEN [t EXCEPT !.stream[q] = TRUE] ELSE t

\* The protection comes before the buffers are requested.
GscProtected(s, dirty) ==
    IF s.ok /\ dirty /\ s.image.drm THEN S_CTRL(s, "protection", TRUE) ELSE s

GscColoured(s, dirty) == IF s.ok /\ dirty THEN S_CTRL(s, "csc", s.image.csc) ELSE s

\* Mutant: the two sides are set in the opposite order.
GscFormatsSwapped(s) == GscFormatted(GscFormatted(s, "dst"), "src")

GscFormats(s) == GscFormatted(GscFormatted(s, "src"), "dst")

(* m_gsc_m2m_run_core.  A failure before the formats, and one of the       *)
(* colour controls, returns at once; any later one stops the device.       *)
GscRunCore(s) ==
    LET dirty     == s.dirty.src \/ s.dirty.dst
        waited    == IF s.stream.src THEN GscWaited(s) ELSE s
        protected == GscProtected(waited, dirty)
        formatted == GscFormats(protected)
        coloured  == GscColoured(formatted, dirty)
        queued    == GscQueued(GscQueued(coloured, "src"), "dst")
        started   == GscStarted(GscStarted(queued, "src"), "dst")
        justReturns == ~protected.ok \/ (formatted.ok /\ ~coloured.ok)
    IN  IF started.ok THEN [started EXCEPT !.jobFor = s.image]
        ELSE IF justReturns THEN started
        ELSE GscStopped(started)

-----------------------------------------------------------------------------
(* exynos_gsc_config_exclusive, or the setters of the blocking call: the   *)
(* colour property, rotation and both formats are given.                   *)
GscConfigure(image) ==
    /\ gsc' = [gsc EXCEPT !.image = image, !.dirty = [q \in Sides |-> TRUE]]
    /\ gscOrder' = image

\* exynos_gsc_run_exclusive: m_gsc_m2m_run.
GscRun(fault) ==
    /\ gscOrder # GscNoImage
    /\ gsc' = Returned(GscRunCore(Called(gsc, fault)))
    /\ UNCHANGED gscOrder

\* exynos_gsc_wait_frame_done_exclusive.
GscWait(fault) ==
    /\ gsc' = Returned(GscWaited(Called(gsc, fault)))
    /\ UNCHANGED gscOrder

\* exynos_gsc_stop_exclusive.
GscStop ==
    /\ gsc' = GscStopped(Called(gsc, NoFault))
    /\ UNCHANGED gscOrder

\* exynos_gsc_convert: run, wait and stop.
GscConvert(fault) ==
    LET done == GscWaited(GscRunCore(Called(gsc, fault))) IN
    /\ gscOrder # GscNoImage
    /\ gsc' = Returned(IF done.ok THEN GscStopped(done) ELSE done)
    /\ UNCHANGED gscOrder

\* exynos_gsc_destroy and a new handle: closing the node resets the device.
GscReopen ==
    /\ gsc' = GscNew
    /\ gscOrder' = GscNoImage

GscNext ==
    \/ \E image \in GscImages : GscConfigure(image)
    \/ \E fault \in GscFaults \cup {NoFault} : GscRun(fault) \/ GscWait(fault) \/ GscConvert(fault)
    \/ GscStop
    \/ GscReopen

-----------------------------------------------------------------------------
(* The job the engine did last is the one that was asked for: formats,     *)
(* rotation and colours are those of the configuration the job was run     *)
(* for, and a protected image was never handled with the protection off.   *)
GscJobsAreAsOrdered ==
    LET job == gsc.dev.job IN
    (job # NoJob /\ gsc.ok /\ gsc.jobFor # GscNoImage) =>
        /\ job.src = gsc.jobFor.format
        /\ job.dst = gsc.jobFor.format
        /\ job.controls.rotation = gsc.jobFor.rotation
        /\ job.controls.csc = gsc.jobFor.csc
        /\ gsc.jobFor.drm => job.controls.protection

\* No call waits for a job that the engine cannot do.
GscNeverHangs == ~gsc.hangs
=============================================================================
