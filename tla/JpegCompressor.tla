--------------------------- MODULE JpegCompressor ---------------------------
(***************************************************************************)
(* libhwjpeg: CHWJpegV4L2Compressor and CHWJpegV4L2Decompressor            *)
(* (hwjpeg-v4l2.cpp), each on a node of its own, and LibScalerForJpeg,     *)
(* which scales the picture of a thumbnail.  The flags of the objects say  *)
(* which ioctls can be skipped; a call is one action, any ioctl of which   *)
(* may fail.  Clients use one kind of memory.                              *)
(***************************************************************************)
EXTENDS V4l2Queue

CONSTANTS
    JpegImages,     \* formats of images
    JpegQualities,  \* quality factors
    JpegFaults      \* the ioctls the driver may fail

\* "none" is the mark of a control that has nothing to set.
ASSUME JpegAssumption == "none" \notin JpegQualities

VARIABLES
    compressor,     \* CHWJpegV4L2Compressor with its device
    decompressor,   \* CHWJpegV4L2Decompressor with its device
    thumbnailer     \* LibScalerForJpeg with its device

jpegVars == <<compressor, decompressor, thumbnailer>>

-----------------------------------------------------------------------------
(* The compressor.  newFormat, reqbufs, streaming and queued are the flags *)
(* HWJPEG_FLAG_PIX_FMT, _REQBUFS, _STREAMING and _QBUF_*; pending is the   *)
(* quality that UpdateControls has still to set.  The quality stands for   *)
(* every control, chroma factors and tables too.                           *)
CompressorNew ==
    [newFormat |-> TRUE, reqbufs |-> FALSE, streaming |-> FALSE, queued |-> FALSE,
     image |-> "none", pending |-> "none", buffers |-> FALSE,
     quality |-> "default", jobFor |-> <<"none", "none">>,
     dev |-> IdleDevice([quality |-> "default"]),
     ok |-> TRUE, fault |-> NoFault, refused |-> FALSE, hangs |-> FALSE]

\* StreamOff: its errors are only logged.
CompStreamOff(s) ==
    IF ~s.ok \/ ~s.streaming THEN s
    ELSE [STREAMOFF(STREAMOFF(s, "src"), "dst") EXCEPT !.streaming = FALSE]

(* ReqBufs(0) and ReqBufs(1): skipped when the flag says so, rolled back   *)
(* when the second queue fails.                                            *)
CompFreeBufs(s) ==
    IF ~s.ok \/ ~s.reqbufs THEN s
    ELSE LET done == FREEBUFS(FREEBUFS(s, "src"), "dst")
         IN  IF done.ok THEN [done EXCEPT !.reqbufs = FALSE] ELSE done

CompReqBufs(s) ==
    IF ~s.ok \/ s.reqbufs THEN s
    ELSE LET src == REQBUFS(s, "src")
             dst == REQBUFS(src, "dst")
         IN  IF dst.ok THEN [dst EXCEPT !.reqbufs = TRUE]
             ELSE IF src.ok THEN Failed(FREEBUFS(Tidied(dst), "src"))
             ELSE src

\* StopStreaming.
StopStreaming(s) == CompFreeBufs([CompStreamOff(s) EXCEPT !.queued = FALSE])

\* SetFormat: the image, then the stream of the same size.
CompSetFormat(s) ==
    LET done == S_FMT(S_FMT(s, "src", s.image), "dst", s.image)
    IN  IF done.ok THEN [done EXCEPT !.newFormat = FALSE] ELSE done

CompStreamOn(s) ==
    IF ~s.ok \/ s.streaming THEN s
    ELSE LET src == STREAMON(s, "src")
             dst == STREAMON(src, "dst")
         IN  IF dst.ok THEN [dst EXCEPT !.streaming = TRUE]
             ELSE IF src.ok THEN Failed(STREAMOFF(Tidied(dst), "src"))
             ELSE src

\* UpdateControls: what is pending counts as set before the ioctl is made.
UpdateControls(s) ==
    IF ~s.ok \/ s.pending = "none" THEN s
    ELSE S_CTRL([s EXCEPT !.pending = "none"], "quality", s.pending)

\* Mutant: the queued image stays queued when the stream's buffer fails.
CompKeepQueued(s) == Failed(s)

\* Reqbufs(0) is the only way to cancel the buffer that was queued.
CompCancel(s) == Failed(StopStreaming(Tidied(s)))

CompQBuf(s) ==
    LET src == QBUF(s, "src")
        dst == QBUF(src, "dst")
    IN  IF dst.ok THEN [dst EXCEPT !.queued = TRUE, !.jobFor = <<s.image, s.quality>>]
        ELSE IF src.ok THEN CompCancel(dst)
        ELSE src

\* DQBuf: both queues are asked whatever the first answers.
CompDQBuf(s) ==
    IF ~s.ok \/ ~s.queued THEN s
    ELSE LET src == DQBUF(s, "src")
             dst == DQBUF([src EXCEPT !.ok = TRUE], "dst")
         IN  [dst EXCEPT !.queued = FALSE, !.ok = src.ok /\ dst.ok]

\* Compress up to its optional wait.
CompSubmit(s) ==
    LET stopped   == IF s.newFormat THEN CompSetFormat(StopStreaming(s)) ELSE s
        specified == IF stopped.ok /\ ~stopped.buffers THEN Failed(stopped) ELSE stopped
        ready     == UpdateControls(CompStreamOn(CompReqBufs(specified)))
    IN  CompQBuf(ready)

\* SetImageFormat, SetImageBuffer and SetJpegBuffer.
SetImageFormat(image) ==
    /\ compressor' = IF compressor.image = image THEN compressor
                     ELSE [compressor EXCEPT !.image = image, !.newFormat = TRUE]
    /\ UNCHANGED <<decompressor, thumbnailer>>

SetBuffers ==
    /\ compressor.image # "none"
    /\ compressor' = [compressor EXCEPT !.buffers = TRUE]
    /\ UNCHANGED <<decompressor, thumbnailer>>

SetQuality(quality) ==
    /\ compressor' = [compressor EXCEPT !.quality = quality, !.pending = quality]
    /\ UNCHANGED <<decompressor, thumbnailer>>

(* Compress, blocking or not.  A client does not start a job of the same   *)
(* format while one is queued.                                             *)
Compress(block, fault) ==
    LET submitted == CompSubmit(Called(compressor, fault)) IN
    /\ compressor.image # "none"
    /\ ~compressor.queued \/ compressor.newFormat
    /\ compressor' = Returned(IF block THEN CompDQBuf(submitted) ELSE submitted)
    /\ UNCHANGED <<decompressor, thumbnailer>>

WaitForCompression ==
    /\ compressor' = Returned(CompDQBuf(Called(compressor, NoFault)))
    /\ UNCHANGED <<decompressor, thumbnailer>>

ReleaseDevice ==
    /\ compressor' = Returned(StopStreaming(Called(compressor, NoFault)))
    /\ UNCHANGED <<decompressor, thumbnailer>>

-----------------------------------------------------------------------------
(* The decompressor: its destination takes the image, its source the       *)
(* stream.  captureReady and outputReady are HWJPEG_FLAG_CAPTURE_READY and *)
(* HWJPEG_FLAG_OUTPUT_READY.                                               *)
DecompressorNew ==
    [captureReady |-> FALSE, outputReady |-> FALSE, image |-> "none", jobFor |-> "none",
     dev |-> IdleDevice([quality |-> "default"]),
     ok |-> TRUE, fault |-> NoFault, refused |-> FALSE, hangs |-> FALSE]

\* PrepareCapture and PrepareStream: a buffer and a streaming queue, or neither.
Prepare(s, q, ready) ==
    IF ~s.ok \/ ready THEN s
    ELSE LET allocated == REQBUFS(s, q)
             on == STREAMON(allocated, q)
         IN  IF allocated.ok /\ ~on.ok THEN Failed(FREEBUFS(Tidied(on), q)) ELSE on

PrepareCapture(s) ==
    LET t == Prepare(s, "dst", s.captureReady)
    IN  IF t.ok THEN [t EXCEPT !.captureReady = TRUE] ELSE t

PrepareStream(s) ==
    LET t == Prepare(s, "src", s.outputReady)
    IN  IF t.ok THEN [t EXCEPT !.outputReady = TRUE] ELSE t

CancelCapture(s) ==
    IF ~s.captureReady THEN s
    ELSE [FREEBUFS(STREAMOFF(s, "dst"), "dst") EXCEPT !.captureReady = FALSE]

CancelStream(s) ==
    IF ~s.outputReady THEN s
    ELSE [FREEBUFS(STREAMOFF(s, "src"), "src") EXCEPT !.outputReady = FALSE]

QBufAndWait(s) ==
    LET stream == QBUF(s, "src")
        image  == QBUF(stream, "dst")
        first  == DQBUF(image, "src")
        second == DQBUF([first EXCEPT !.ok = TRUE], "dst")
    IN  IF ~stream.ok THEN stream
        ELSE IF ~image.ok THEN Failed(CancelStream(Tidied(image)))
        ELSE [second EXCEPT !.ok = first.ok /\ second.ok, !.jobFor = s.image]

\* SetImageFormat of the decompressor; the format counts as set before S_FMT.
SetDecodedFormat(image) ==
    /\ decompressor' =
          IF decompressor.image = image THEN decompressor
          ELSE LET s == CancelCapture(Called(decompressor, NoFault))
               IN  Returned(S_FMT([s EXCEPT !.image = image], "dst", image))
    /\ UNCHANGED <<compressor, thumbnailer>>

Decompress(fault) ==
    /\ decompressor.image # "none"
    /\ decompressor' =
          LET ready == PrepareStream(PrepareCapture(Called(decompressor, fault)))
          IN  Returned(IF ready.ok THEN QBufAndWait(ready) ELSE ready)
    /\ UNCHANGED <<compressor, thumbnailer>>

-----------------------------------------------------------------------------
(* LibScalerForJpeg.  begun is memoryType of an Image, which is not 0 once *)
(* begin has allocated its buffer and started its queue.  The size and     *)
(* format of an Image are never stored, so that every set configures it.   *)
ThumbnailerNew ==
    [begun |-> [q \in Sides |-> FALSE], jobFor |-> "none",
     dev |-> IdleDevice([quality |-> "default"]),
     ok |-> TRUE, fault |-> NoFault, refused |-> FALSE, hangs |-> FALSE]

\* requestBuffers with count 0 stops the queue first.
ImageFreed(s, q) == IF s.begun[q] THEN FREEBUFS(STREAMOFF(s, q), q) ELSE s

\* Image::set.
ImageSet(s, q, format) ==
    LET done == S_FMT(ImageFreed(s, q), q, format)
    IN  IF done.ok THEN [done EXCEPT !.begun[q] = FALSE] ELSE done

\* Image::begin.
ImageBegin(s, q) ==
    IF ~s.ok \/ s.begun[q] THEN s
    ELSE LET done == STREAMON(REQBUFS(s, q), q)
         IN  IF done.ok THEN [done EXCEPT !.begun[q] = TRUE] ELSE done

\* Image::cancelBuffer.
CancelBuffer(s, q) == STREAMON(STREAMOFF(Tidied(s), q), q)

\* queue: a buffer that did not come to its end is cancelled.
ThumbnailQueued(s) ==
    LET src == QBUF(s, "src")
        dst == QBUF(src, "dst")
        done == DQBUF(DQBUF(dst, "src"), "dst")
    IN  IF ~src.ok \/ done.ok THEN done
        ELSE IF ~dst.ok THEN Failed(CancelBuffer(dst, "src"))
        ELSE Failed(CancelBuffer(CancelBuffer(done, "src"), "dst"))

\* GenerateThumbnailImage: SetSrcImage, SetDstImage and RunStream.
GenerateThumbnail(image, fault) ==
    /\ thumbnailer' =
          LET set == ImageSet(ImageSet(Called(thumbnailer, fault), "src", image), "dst", image)
              begun == ImageBegin(ImageBegin(set, "src"), "dst")
              done == ThumbnailQueued(begun)
          IN  Returned(IF ~begun.ok THEN begun
                       ELSE IF ~done.ok THEN done
                       ELSE [done EXCEPT !.jobFor = image])
    /\ UNCHANGED <<compressor, decompressor>>

-----------------------------------------------------------------------------
JpegInit ==
    /\ compressor = CompressorNew
    /\ decompressor = DecompressorNew
    /\ thumbnailer = ThumbnailerNew

CompressorNext ==
    \/ \E image \in JpegImages : SetImageFormat(image)
    \/ SetBuffers
    \/ \E quality \in JpegQualities : SetQuality(quality)
    \/ \E block \in BOOLEAN, fault \in JpegFaults \cup {NoFault} : Compress(block, fault)
    \/ WaitForCompression
    \/ ReleaseDevice

DecompressorNext ==
    \/ \E image \in JpegImages : SetDecodedFormat(image)
    \/ \E fault \in JpegFaults \cup {NoFault} : Decompress(fault)

ThumbnailerNext ==
    \E image \in JpegImages, fault \in JpegFaults \cup {NoFault} : GenerateThumbnail(image, fault)

-----------------------------------------------------------------------------
(* What the engine did last is what was asked for when it was queued: the  *)
(* image's format with the stream's, and the quality last set.             *)
JpegJobsAreAsOrdered ==
    /\ compressor.dev.job # NoJob =>
          LET job == compressor.dev.job IN
          /\ job.src = compressor.jobFor[1]
          /\ job.dst = compressor.jobFor[1]
          /\ job.controls.quality = compressor.jobFor[2]
    /\ decompressor.dev.job # NoJob =>
          decompressor.dev.job.dst = decompressor.jobFor
    /\ thumbnailer.dev.job # NoJob =>
          thumbnailer.dev.job.src = thumbnailer.jobFor /\ thumbnailer.dev.job.dst = thumbnailer.jobFor

\* No call is refused for the state its predecessors left, and none waits for ever.
JpegNeverStuck ==
    \A s \in {compressor, decompressor, thumbnailer} : ~s.refused /\ ~s.hangs
=============================================================================
