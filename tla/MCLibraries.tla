----------------------------- MODULE MCLibraries -----------------------------
(* The handles of the image libraries for TLC.  Each behaviour is that of  *)
(* one of the libraries; handles have devices of their own.                *)
EXTENDS Gscaler, JpegCompressor, ScalerV4L2

MCImages == {[format |-> "nv12", rotation |-> 0, csc |-> "601", drm |-> TRUE],
             [format |-> "rgb", rotation |-> 90, csc |-> "709", drm |-> FALSE]}

Streamed(ioctls) == ioctls \X Sides
Controls(names) == {"S_CTRL"} \X names

(* The ioctls that fail.  The G-Scaler's colour controls do not: the next  *)
(* job would run with the old ones.  Nor does STREAMON of the scaler's     *)
(* destination: the next call would wait for ever.                         *)
MCGscFaults == Streamed({"S_FMT", "REQBUFS", "QBUF", "STREAMON", "DQBUF", "STREAMOFF"})
                  \cup Controls({"protection", "rotation"})
MCJpegFaults == Streamed({"S_FMT", "REQBUFS", "QBUF", "STREAMON"})
MCScFaults == (Streamed({"S_FMT", "REQBUFS", "QBUF", "STREAMON"}) \ {<<"STREAMON", "dst">>})
                 \cup Controls({"protection", "rotation", "csc"})

VARIABLE focus
librariesVars == <<focus, gscVars, jpegVars, scaler>>

Handles == {"gscaler", "compressor", "decompressor", "thumbnailer", "scaler"}
HandlesInit == GscInit /\ JpegInit /\ ScInit

LibrariesNext ==
    \/ focus = "gscaler" /\ GscNext /\ UNCHANGED <<focus, jpegVars, scaler>>
    \/ focus = "compressor" /\ CompressorNext /\ UNCHANGED <<focus, gscVars, scaler>>
    \/ focus = "decompressor" /\ DecompressorNext /\ UNCHANGED <<focus, gscVars, scaler>>
    \/ focus = "thumbnailer" /\ ThumbnailerNext /\ UNCHANGED <<focus, gscVars, scaler>>
    \/ focus = "scaler" /\ ScNext /\ UNCHANGED <<focus, gscVars, jpegVars>>

LibrariesSpec == HandlesInit /\ [][LibrariesNext]_librariesVars

(* Every job the engines do has the formats and the controls of the call   *)
(* that queued it, whichever ioctls of earlier calls failed.               *)
JobsAreAsOrdered == GscJobsAreAsOrdered /\ JpegJobsAreAsOrdered /\ ScJobsAreAsOrdered

(* No sequence of calls and failures leaves a queue in a state in which a  *)
(* later call waits for ever, and for the JPEG and scaler libraries none   *)
(* in which the driver refuses what the library asks.                      *)
DevicesStayUsable == GscNeverHangs /\ JpegNeverStuck /\ ScNeverStuck
=============================================================================
