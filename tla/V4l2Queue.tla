----------------------------- MODULE V4l2Queue -----------------------------
(***************************************************************************)
(* What the image libraries (libhwjpeg, libgscaler, libscaler) assume of   *)
(* the kernel: a memory-to-memory video device with a source and a         *)
(* destination queue of one buffer each, and controls.  The kernel is not  *)
(* in the repository; this module is written from the calls the libraries  *)
(* make and from the order they keep.                                      *)
(*                                                                         *)
(* A library call is a sequence of ioctls.  Its model passes a record s    *)
(* through operators, one per ioctl:                                       *)
(*   s.dev      the device                                                 *)
(*   s.ok       no ioctl of this call has failed yet                       *)
(*   s.fault    the ioctl that the driver fails in this call, or NoFault   *)
(*   s.refused  an ioctl came in a state in which no driver accepts it     *)
(*   s.hangs    a dequeue waits for a job that the engine cannot do        *)
(* After a failure the rest of the sequence does nothing.                  *)
(***************************************************************************)

Sides == {"src", "dst"}
NoFault == <<"none">>

\* held: "no" buffer, one that is "queued", or one the engine is "done" with.
IdleQueue == [allocated |-> FALSE, on |-> FALSE, held |-> "no", format |-> "none"]

\* job: what the engine was given when it did the last job.
NoJob == [src |-> "none", dst |-> "none", controls |-> "none"]
IdleDevice(controls) ==
    [src |-> IdleQueue, dst |-> IdleQueue, controls |-> controls, job |-> NoJob]

\* The driver fails the ioctl, or it comes in the wrong state, or it is done.
Ioctl(s, name, legal, done) ==
    IF ~s.ok THEN s
    ELSE IF s.fault = name THEN [s EXCEPT !.ok = FALSE]
    ELSE IF ~legal THEN [s EXCEPT !.ok = FALSE, !.refused = TRUE]
    ELSE done

(* The engine does a job as soon as both queues stream and hold a buffer,  *)
(* with the formats and the controls of that moment.                       *)
Engine(s) ==
    IF \A q \in Sides : s.dev[q].on /\ s.dev[q].held = "queued"
    THEN [s EXCEPT !.dev.src.held = "done", !.dev.dst.held = "done",
                   !.dev.job = [src |-> s.dev.src.format, dst |-> s.dev.dst.format,
                                controls |-> s.dev.controls]]
    ELSE s

S_CTRL(s, control, value) ==
    Ioctl(s, <<"S_CTRL", control>>, TRUE, [s EXCEPT !.dev.controls[control] = value])

S_FMT(s, q, format) ==
    Ioctl(s, <<"S_FMT", q>>, ~s.dev[q].on, [s EXCEPT !.dev[q].format = format])

REQBUFS(s, q) ==
    Ioctl(s, <<"REQBUFS", q>>, ~s.dev[q].on,
          [s EXCEPT !.dev[q].allocated = TRUE, !.dev[q].held = "no"])

\* REQBUFS with count 0.
FREEBUFS(s, q) ==
    Ioctl(s, <<"FREEBUFS", q>>, ~s.dev[q].on,
          [s EXCEPT !.dev[q].allocated = FALSE, !.dev[q].held = "no"])

STREAMON(s, q) ==
    Ioctl(s, <<"STREAMON", q>>, s.dev[q].allocated, Engine([s EXCEPT !.dev[q].on = TRUE]))

\* Streaming off takes every buffer out of the queue.
STREAMOFF(s, q) ==
    Ioctl(s, <<"STREAMOFF", q>>, TRUE, [s EXCEPT !.dev[q].on = FALSE, !.dev[q].held = "no"])

QBUF(s, q) ==
    Ioctl(s, <<"QBUF", q>>, s.dev[q].allocated /\ s.dev[q].held = "no",
          Engine([s EXCEPT !.dev[q].held = "queued"]))

(* A dequeue just fails when the queue does not stream; when it does, it   *)
(* waits for the engine: the devices are opened without O_NONBLOCK.        *)
DQBUF(s, q) ==
    IF ~s.ok \/ s.fault = <<"DQBUF", q>> \/ ~s.dev[q].on THEN [s EXCEPT !.ok = FALSE]
    ELSE IF s.dev[q].held # "done" THEN [s EXCEPT !.ok = FALSE, !.hangs = TRUE]
    ELSE [s EXCEPT !.dev[q].held = "no"]

(* Ioctls made when something failed, whose own failure nobody looks at.   *)
Tidied(s) == [s EXCEPT !.ok = TRUE, !.fault = NoFault]
Failed(s) == [s EXCEPT !.ok = FALSE]

\* A call begins; `fault` is the ioctl the driver will fail, if it is made.
Called(s, fault) == [s EXCEPT !.ok = TRUE, !.fault = fault]
Returned(s) == [s EXCEPT !.fault = NoFault]
=============================================================================
