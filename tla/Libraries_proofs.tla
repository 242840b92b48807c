-------------------------- MODULE Libraries_proofs --------------------------
(***************************************************************************)
(* What is proved of the image libraries: libgscaler's CGscaler,           *)
(* libscaler's CScalerV4L2, and libhwjpeg's compressor, decompressor and   *)
(* thumbnailer.  Each of the five handles has an inductive invariant that  *)
(* ties its flags to the state of its device; a call is followed ioctl by  *)
(* ioctl.  The first part says what one ioctl does to a handle, made or    *)
(* failed.                                                                 *)
(***************************************************************************)
EXTENDS MCLibraries, TLAPS

-----------------------------------------------------------------------------
(* The device.                                                             *)

(* A handle of a library, with its device.                                 *)
Handle(s) ==
  /\ {"dev", "ok", "fault", "refused", "hangs"} \subseteq DOMAIN s
  /\ s.ok \in BOOLEAN /\ s.refused \in BOOLEAN /\ s.hangs \in BOOLEAN
  /\ DOMAIN s.dev = {"src", "dst", "controls", "job"}
  /\ \A q \in Sides :
       /\ DOMAIN s.dev[q] = {"allocated", "on", "held", "format"}
       /\ s.dev[q].allocated \in BOOLEAN /\ s.dev[q].on \in BOOLEAN

Rest(s, t) ==
  /\ DOMAIN t = DOMAIN s
  /\ \A f \in DOMAIN s : f \notin {"dev", "ok", "refused", "hangs"} => t[f] = s[f]

\* An ioctl that was not made, or had no effect.
Undone(s, t) == Handle(t) /\ Rest(s, t) /\ ~t.ok /\ t.dev = s.dev /\ t.hangs = s.hangs

\* An ioctl that succeeded.
Done(s, t) == Handle(t) /\ Rest(s, t) /\ s.ok /\ t.ok /\ t.hangs = s.hangs /\ t.refused = s.refused

\* What the two sides of a device have in common but the buffers they hold.
SameQueue(s, t, q) ==
  /\ t.dev[q].allocated = s.dev[q].allocated /\ t.dev[q].on = s.dev[q].on
  /\ t.dev[q].format = s.dev[q].format

\* An ioctl that fails changes nothing of the device.
LEMMA NotMade ==
  ASSUME NEW s, Handle(s)
  PROVE  /\ Rest(s, s) /\ (~s.ok => Undone(s, s))
         /\ Undone(s, [s EXCEPT !.ok = FALSE]) /\ [s EXCEPT !.ok = FALSE].refused = s.refused
         /\ Undone(s, [s EXCEPT !.ok = FALSE, !.refused = TRUE])
BY DEF Undone, Rest, Handle

Ready(d) == \A q \in Sides : d[q].on /\ d[q].held = "queued"
JobOf(d) == [src |-> d.src.format, dst |-> d.dst.format, controls |-> d.controls]

\* The engine does the job that is ready, or nothing happens.
LEMMA EngineFacts ==
  ASSUME NEW s, Handle(s)
  PROVE  LET t == Engine(s) IN
         /\ Handle(t) /\ Rest(s, t) /\ t.ok = s.ok /\ t.refused = s.refused /\ t.hangs = s.hangs
         /\ t.dev.controls = s.dev.controls
         /\ \A q \in Sides : SameQueue(s, t, q)
         /\ Ready(s.dev) => (\A q \in Sides : t.dev[q].held = "done") /\ t.dev.job = JobOf(s.dev)
         /\ ~Ready(s.dev) => t = s
<1> DEFINE t == Engine(s)
<1>1. CASE ~Ready(s.dev)
  BY <1>1 DEF Engine, Ready, Rest, SameQueue
<1>2. CASE Ready(s.dev)
  <2>1. t = [s EXCEPT !.dev.src.held = "done", !.dev.dst.held = "done", !.dev.job = JobOf(s.dev)]
    BY <1>2 DEF Engine, Ready, JobOf
  <2>2. /\ Rest(s, t) /\ t.ok = s.ok /\ t.refused = s.refused /\ t.hangs = s.hangs /\ t.fault = s.fault
        /\ t.dev = [s.dev EXCEPT !.src.held = "done", !.dst.held = "done", !.job = JobOf(s.dev)]
    BY <2>1 DEF Handle, Rest
  <2>3. /\ DOMAIN t.dev = DOMAIN s.dev /\ t.dev.controls = s.dev.controls /\ t.dev.job = JobOf(s.dev)
        /\ t.dev.src = [s.dev.src EXCEPT !.held = "done"] /\ t.dev.dst = [s.dev.dst EXCEPT !.held = "done"]
    BY <2>2 DEF Handle
  <2>4. \A q \in Sides : t.dev[q] = [s.dev[q] EXCEPT !.held = "done"]
    BY <2>3 DEF Sides
  <2>5. \A q \in Sides : SameQueue(s, t, q) /\ t.dev[q].held = "done" /\ DOMAIN t.dev[q] = DOMAIN s.dev[q]
    BY <2>4 DEF Handle, SameQueue
  <2> HIDE DEF t
  <2>6. Handle(t)
    BY <2>2, <2>3, <2>5 DEF Handle, Rest, SameQueue
  <2> QED BY <1>2, <2>2, <2>3, <2>5, <2>6 DEF t
<1> QED BY <1>1, <1>2

QueueFields == {"allocated", "on", "held", "format"}

\* The queue q of the device becomes r.
LEMMA QueueChange ==
  ASSUME NEW s, Handle(s), NEW q \in Sides, NEW r,
         DOMAIN r = QueueFields, r.allocated \in BOOLEAN, r.on \in BOOLEAN
  PROVE  LET t == [s EXCEPT !.dev[q] = r] IN
         /\ Handle(t) /\ Rest(s, t) /\ t.ok = s.ok /\ t.refused = s.refused /\ t.hangs = s.hangs
         /\ t.dev.controls = s.dev.controls /\ t.dev.job = s.dev.job
         /\ t.dev[q] = r /\ \A p \in Sides : p # q => t.dev[p] = s.dev[p]
<1> DEFINE t == [s EXCEPT !.dev[q] = r]
<1>1. /\ Rest(s, t) /\ t.ok = s.ok /\ t.refused = s.refused /\ t.hangs = s.hangs
      /\ t.dev = [s.dev EXCEPT ![q] = r]
  BY DEF Handle, Rest
<1>2. /\ DOMAIN t.dev = DOMAIN s.dev /\ t.dev.controls = s.dev.controls /\ t.dev.job = s.dev.job
      /\ t.dev[q] = r /\ \A p \in Sides : p # q => t.dev[p] = s.dev[p]
  BY <1>1 DEF Handle, Sides
<1> HIDE DEF t
<1>3. Handle(t)
  BY <1>1, <1>2 DEF Handle, Rest, QueueFields
<1> QED BY <1>1, <1>2, <1>3 DEF t

Updated(t, s, a, value) == t = [s EXCEPT ![a] = value]

\* VIDIOC_S_CTRL: it fails, or the control has the value.
LEMMA ControlFacts ==
  ASSUME NEW s, Handle(s), NEW control, NEW value
  PROVE  LET t == S_CTRL(s, control, value) IN
         \/ Undone(s, t) /\ (~s.ok => t = s) /\ t.refused = s.refused
            /\ (s.ok => s.fault = <<"S_CTRL", control>>)
         \/ /\ Done(s, t) /\ s.fault # <<"S_CTRL", control>> /\ t.dev.job = s.dev.job
            /\ \A p \in Sides : t.dev[p] = s.dev[p]
            /\ Updated(t.dev.controls, s.dev.controls, control, value)
<1> DEFINE u == [s EXCEPT !.dev.controls[control] = value]
           t == S_CTRL(s, control, value)
<1>1. t = Ioctl(s, <<"S_CTRL", control>>, TRUE, u)
  BY DEF S_CTRL
<1>2. /\ Rest(s, u) /\ u.ok = s.ok /\ u.refused = s.refused /\ u.hangs = s.hangs
      /\ u.dev = [s.dev EXCEPT !.controls = [s.dev.controls EXCEPT ![control] = value]]
  BY DEF Handle, Rest
<1>3. /\ DOMAIN u.dev = DOMAIN s.dev /\ u.dev.job = s.dev.job
      /\ \A p \in Sides : u.dev[p] = s.dev[p]
      /\ u.dev.controls = [s.dev.controls EXCEPT ![control] = value]
  BY <1>2 DEF Handle, Sides
<1> HIDE DEF u, t
<1>4. Handle(u)
  BY <1>2, <1>3 DEF Handle, Rest
<1>5. \/ s.ok /\ s.fault # <<"S_CTRL", control>> /\ t = u
      \/ /\ Undone(s, t) /\ (~s.ok => t = s) /\ (s.ok => s.fault = <<"S_CTRL", control>>)
         /\ t.refused = s.refused
  BY <1>1, NotMade DEF Ioctl
<1> QED BY <1>2, <1>3, <1>4, <1>5 DEF Done, Updated, t

\* VIDIOC_S_FMT: it fails, or the queue has the format.
LEMMA FormatFacts ==
  ASSUME NEW s, Handle(s), NEW q \in Sides, NEW format
  PROVE  LET t == S_FMT(s, q, format) IN
         \/ /\ Undone(s, t) /\ (~s.ok => t = s) /\ (s.ok => s.fault = <<"S_FMT", q>> \/ s.dev[q].on)
            /\ t.refused = s.refused \/ s.dev[q].on
         \/ /\ Done(s, t) /\ s.fault # <<"S_FMT", q>> /\ ~s.dev[q].on
            /\ t.dev.job = s.dev.job /\ t.dev.controls = s.dev.controls
            /\ \A p \in Sides : p # q => t.dev[p] = s.dev[p]
            /\ t.dev[q].format = format /\ t.dev[q].held = s.dev[q].held
            /\ t.dev[q].on = s.dev[q].on /\ t.dev[q].allocated = s.dev[q].allocated
<1> DEFINE r == [s.dev[q] EXCEPT !.format = format]
           u == [s EXCEPT !.dev[q] = r]
           t == S_FMT(s, q, format)
<1>1. t = Ioctl(s, <<"S_FMT", q>>, ~s.dev[q].on, u)
  BY DEF S_FMT
<1>2. /\ DOMAIN r = QueueFields /\ r.allocated = s.dev[q].allocated /\ r.on = s.dev[q].on
      /\ r.held = s.dev[q].held /\ r.format = format
  BY DEF Handle, QueueFields
<1>r. DOMAIN r = QueueFields /\ r.allocated \in BOOLEAN /\ r.on \in BOOLEAN
  BY DEF Handle, QueueFields
<1> HIDE DEF r
<1>3. /\ Handle(u) /\ Rest(s, u) /\ u.ok = s.ok /\ u.refused = s.refused /\ u.hangs = s.hangs
      /\ u.dev.controls = s.dev.controls /\ u.dev.job = s.dev.job
      /\ u.dev[q] = r /\ \A p \in Sides : p # q => u.dev[p] = s.dev[p]
  BY <1>r, QueueChange
<1> HIDE DEF u, t
<1>4. \/ s.ok /\ s.fault # <<"S_FMT", q>> /\ ~s.dev[q].on /\ t = u
      \/ /\ Undone(s, t) /\ (~s.ok => t = s) /\ (s.ok => s.fault = <<"S_FMT", q>> \/ s.dev[q].on)
         /\ t.refused = s.refused \/ s.dev[q].on
  BY <1>1, NotMade DEF Ioctl
<1> QED BY <1>2, <1>3, <1>4 DEF Done, t

\* VIDIOC_REQBUFS: it fails, or the queue has a buffer that nobody holds.
LEMMA RequestFacts ==
  ASSUME NEW s, Handle(s), NEW q \in Sides
  PROVE  LET t == REQBUFS(s, q) IN
         \/ /\ Undone(s, t) /\ (~s.ok => t = s) /\ (s.ok => s.fault = <<"REQBUFS", q>> \/ s.dev[q].on)
            /\ t.refused = s.refused \/ s.dev[q].on
         \/ /\ Done(s, t) /\ s.fault # <<"REQBUFS", q>> /\ ~s.dev[q].on
            /\ t.dev.job = s.dev.job /\ t.dev.controls = s.dev.controls
            /\ \A p \in Sides : p # q => t.dev[p] = s.dev[p]
            /\ t.dev[q].format = s.dev[q].format /\ t.dev[q].held = "no"
            /\ t.dev[q].on = s.dev[q].on /\ t.dev[q].allocated
<1> DEFINE r == [s.dev[q] EXCEPT !.allocated = TRUE, !.held = "no"]
           u == [s EXCEPT !.dev[q].allocated = TRUE, !.dev[q].held = "no"]
           v == [s EXCEPT !.dev[q] = r]
           t == REQBUFS(s, q)
<1>1. t = Ioctl(s, <<"REQBUFS", q>>, ~s.dev[q].on, u)
  BY DEF REQBUFS
<1>2. /\ DOMAIN r = QueueFields /\ r.allocated /\ r.on = s.dev[q].on
      /\ r.held = "no" /\ r.format = s.dev[q].format
  BY DEF Handle, QueueFields
<1>r. DOMAIN r = QueueFields /\ r.allocated \in BOOLEAN /\ r.on \in BOOLEAN
  BY DEF Handle, QueueFields
<1>u. u = v
  BY DEF Handle, Sides
<1> HIDE DEF r, u
<1>3. /\ Handle(v) /\ Rest(s, v) /\ v.ok = s.ok /\ v.refused = s.refused /\ v.hangs = s.hangs
      /\ v.dev.controls = s.dev.controls /\ v.dev.job = s.dev.job
      /\ v.dev[q] = r /\ \A p \in Sides : p # q => v.dev[p] = s.dev[p]
  BY <1>r, QueueChange
<1> HIDE DEF v, t
<1>4. \/ s.ok /\ s.fault # <<"REQBUFS", q>> /\ ~s.dev[q].on /\ t = v
      \/ /\ Undone(s, t) /\ (~s.ok => t = s) /\ (s.ok => s.fault = <<"REQBUFS", q>> \/ s.dev[q].on)
         /\ t.refused = s.refused \/ s.dev[q].on
  BY <1>1, <1>u, NotMade DEF Ioctl
<1> QED BY <1>2, <1>3, <1>4 DEF Done, t

\* VIDIOC_REQBUFS of no buffer.
LEMMA FreeFacts ==
  ASSUME NEW s, Handle(s), NEW q \in Sides
  PROVE  LET t == FREEBUFS(s, q) IN
         \/ /\ Undone(s, t) /\ (~s.ok => t = s) /\ (s.ok => s.fault = <<"FREEBUFS", q>> \/ s.dev[q].on)
            /\ t.refused = s.refused \/ s.dev[q].on
         \/ /\ Done(s, t) /\ s.fault # <<"FREEBUFS", q>> /\ ~s.dev[q].on
            /\ t.dev.job = s.dev.job /\ t.dev.controls = s.dev.controls
            /\ \A p \in Sides : p # q => t.dev[p] = s.dev[p]
            /\ t.dev[q].format = s.dev[q].format /\ t.dev[q].held = "no"
            /\ t.dev[q].on = s.dev[q].on /\ ~t.dev[q].allocated
<1> DEFINE r == [s.dev[q] EXCEPT !.allocated = FALSE, !.held = "no"]
           u == [s EXCEPT !.dev[q].allocated = FALSE, !.dev[q].held = "no"]
           v == [s EXCEPT !.dev[q] = r]
           t == FREEBUFS(s, q)
<1>1. t = Ioctl(s, <<"FREEBUFS", q>>, ~s.dev[q].on, u)
  BY DEF FREEBUFS
<1>2. /\ DOMAIN r = QueueFields /\ ~r.allocated /\ r.on = s.dev[q].on
      /\ r.held = "no" /\ r.format = s.dev[q].format
  BY DEF Handle, QueueFields
<1>r. DOMAIN r = QueueFields /\ r.allocated \in BOOLEAN /\ r.on \in BOOLEAN
  BY DEF Handle, QueueFields
<1>u. u = v
  BY DEF Handle, Sides
<1> HIDE DEF r, u
<1>3. /\ Handle(v) /\ Rest(s, v) /\ v.ok = s.ok /\ v.refused = s.refused /\ v.hangs = s.hangs
      /\ v.dev.controls = s.dev.controls /\ v.dev.job = s.dev.job
      /\ v.dev[q] = r /\ \A p \in Sides : p # q => v.dev[p] = s.dev[p]
  BY <1>r, QueueChange
<1> HIDE DEF v, t
<1>4. \/ s.ok /\ s.fault # <<"FREEBUFS", q>> /\ ~s.dev[q].on /\ t = v
      \/ /\ Undone(s, t) /\ (~s.ok => t = s) /\ (s.ok => s.fault = <<"FREEBUFS", q>> \/ s.dev[q].on)
         /\ t.refused = s.refused \/ s.dev[q].on
  BY <1>1, <1>u, NotMade DEF Ioctl
<1> QED BY <1>2, <1>3, <1>4 DEF Done, t

\* VIDIOC_STREAMOFF: the queue gives its buffer back.
LEMMA StreamOffFacts ==
  ASSUME NEW s, Handle(s), NEW q \in Sides
  PROVE  LET t == STREAMOFF(s, q) IN
         \/ /\ Undone(s, t) /\ (~s.ok => t = s) /\ (s.ok => s.fault = <<"STREAMOFF", q>>)
            /\ t.refused = s.refused
         \/ /\ Done(s, t) /\ s.fault # <<"STREAMOFF", q>>
            /\ t.dev.job = s.dev.job /\ t.dev.controls = s.dev.controls
            /\ \A p \in Sides : p # q => t.dev[p] = s.dev[p]
            /\ t.dev[q].format = s.dev[q].format /\ t.dev[q].held = "no"
            /\ ~t.dev[q].on /\ t.dev[q].allocated = s.dev[q].allocated
<1> DEFINE r == [s.dev[q] EXCEPT !.on = FALSE, !.held = "no"]
           u == [s EXCEPT !.dev[q].on = FALSE, !.dev[q].held = "no"]
           v == [s EXCEPT !.dev[q] = r]
           t == STREAMOFF(s, q)
<1>1. t = Ioctl(s, <<"STREAMOFF", q>>, TRUE, u)
  BY DEF STREAMOFF
<1>2. /\ DOMAIN r = QueueFields /\ r.allocated = s.dev[q].allocated /\ ~r.on
      /\ r.held = "no" /\ r.format = s.dev[q].format
  BY DEF Handle, QueueFields
<1>r. DOMAIN r = QueueFields /\ r.allocated \in BOOLEAN /\ r.on \in BOOLEAN
  BY DEF Handle, QueueFields
<1>u. u = v
  BY DEF Handle, Sides
<1> HIDE DEF r, u
<1>3. /\ Handle(v) /\ Rest(s, v) /\ v.ok = s.ok /\ v.refused = s.refused /\ v.hangs = s.hangs
      /\ v.dev.controls = s.dev.controls /\ v.dev.job = s.dev.job
      /\ v.dev[q] = r /\ \A p \in Sides : p # q => v.dev[p] = s.dev[p]
  BY <1>r, QueueChange
<1> HIDE DEF v, t
<1>4. \/ s.ok /\ s.fault # <<"STREAMOFF", q>> /\ t = v
      \/ /\ Undone(s, t) /\ (~s.ok => t = s) /\ (s.ok => s.fault = <<"STREAMOFF", q>>)
         /\ t.refused = s.refused
  BY <1>1, <1>u, NotMade DEF Ioctl
<1> QED BY <1>2, <1>3, <1>4 DEF Done, t

\* VIDIOC_STREAMON: the engine works when both queues stream with a buffer.
LEMMA StreamOnFacts ==
  ASSUME NEW s, Handle(s), NEW q \in Sides
  PROVE  LET t == STREAMON(s, q)
             runs == \A p \in Sides : (p = q \/ s.dev[p].on) /\ s.dev[p].held = "queued"
         IN
         \/ /\ Undone(s, t) /\ (~s.ok => t = s)
            /\ s.ok => s.fault = <<"STREAMON", q>> \/ ~s.dev[q].allocated
            /\ t.refused = s.refused \/ ~s.dev[q].allocated
         \/ /\ Done(s, t) /\ s.fault # <<"STREAMON", q>> /\ s.dev[q].allocated
            /\ t.dev.controls = s.dev.controls
            /\ t.dev[q].on /\ t.dev[q].allocated /\ t.dev[q].format = s.dev[q].format
            /\ \A p \in Sides : p # q => SameQueue(s, t, p)
            /\ runs => (\A p \in Sides : t.dev[p].held = "done") /\ t.dev.job = JobOf(s.dev)
            /\ ~runs => (\A p \in Sides : t.dev[p].held = s.dev[p].held) /\ t.dev.job = s.dev.job
<1> DEFINE r == [s.dev[q] EXCEPT !.on = TRUE]
           v == [s EXCEPT !.dev[q] = r]
           e == Engine(v)
           t == STREAMON(s, q)
           runs == \A p \in Sides : (p = q \/ s.dev[p].on) /\ s.dev[p].held = "queued"
<1>1. t = Ioctl(s, <<"STREAMON", q>>, s.dev[q].allocated, Engine([s EXCEPT !.dev[q].on = TRUE]))
  BY DEF STREAMON
<1>u. [s EXCEPT !.dev[q].on = TRUE] = v
  BY DEF Handle, Sides
<1>2. /\ DOMAIN r = QueueFields /\ r.allocated = s.dev[q].allocated /\ r.on
      /\ r.held = s.dev[q].held /\ r.format = s.dev[q].format
  BY DEF Handle, QueueFields
<1>r. DOMAIN r = QueueFields /\ r.allocated \in BOOLEAN /\ r.on \in BOOLEAN
  BY DEF Handle, QueueFields
<1> HIDE DEF r
<1>3. /\ Handle(v) /\ Rest(s, v) /\ v.ok = s.ok /\ v.refused = s.refused /\ v.hangs = s.hangs
      /\ v.dev.controls = s.dev.controls /\ v.dev.job = s.dev.job
      /\ v.dev[q] = r /\ \A p \in Sides : p # q => v.dev[p] = s.dev[p]
  BY <1>r, QueueChange
<1> HIDE DEF v
<1>4. /\ Handle(e) /\ Rest(v, e) /\ e.ok = v.ok /\ e.refused = v.refused /\ e.hangs = v.hangs
      /\ e.dev.controls = v.dev.controls
      /\ \A p \in Sides : SameQueue(v, e, p)
      /\ Ready(v.dev) => (\A p \in Sides : e.dev[p].held = "done") /\ e.dev.job = JobOf(v.dev)
      /\ ~Ready(v.dev) => e = v
  BY <1>3, EngineFacts
<1> HIDE DEF e, t
<1>5. \/ s.ok /\ s.fault # <<"STREAMON", q>> /\ s.dev[q].allocated /\ t = e
      \/ /\ Undone(s, t) /\ (~s.ok => t = s)
         /\ s.ok => s.fault = <<"STREAMON", q>> \/ ~s.dev[q].allocated
         /\ t.refused = s.refused \/ ~s.dev[q].allocated
  BY <1>1, <1>u, NotMade DEF Ioctl, e
<1>6. Ready(v.dev) <=> runs
  BY <1>2, <1>3 DEF Ready
<1>7. JobOf(v.dev) = JobOf(s.dev)
  BY <1>2, <1>3 DEF JobOf, Sides
<1>8. Rest(s, e)
  BY <1>3, <1>4 DEF Rest
<1>9. \A p \in Sides : SameQueue(v, e, p) /\ (p # q => SameQueue(s, e, p))
  BY <1>3, <1>4 DEF SameQueue
<1>10. \A p \in Sides : v.dev[p].held = s.dev[p].held
  BY <1>2, <1>3
<1> HIDE DEF runs
<1>11. e.dev[q].on /\ e.dev[q].allocated = s.dev[q].allocated /\ e.dev[q].format = s.dev[q].format
  BY <1>2, <1>3, <1>9 DEF SameQueue
<1>12. CASE ~(s.ok /\ s.fault # <<"STREAMON", q>> /\ s.dev[q].allocated /\ t = e)
  BY <1>5, <1>12 DEF t
<1>13. CASE s.ok /\ s.fault # <<"STREAMON", q>> /\ s.dev[q].allocated /\ t = e
  <2>1. Done(s, t)
    BY <1>3, <1>4, <1>8, <1>13 DEF Done
  <2>2. /\ t.dev.controls = s.dev.controls
        /\ t.dev[q].on /\ t.dev[q].allocated /\ t.dev[q].format = s.dev[q].format
    BY <1>3, <1>4, <1>11, <1>13
  <2>3. \A p \in Sides : p # q => SameQueue(s, t, p)
    BY <1>9, <1>13
  <2>4. runs => (\A p \in Sides : t.dev[p].held = "done") /\ t.dev.job = JobOf(s.dev)
    BY <1>4, <1>6, <1>7, <1>13
  <2>5. ~runs => (\A p \in Sides : t.dev[p].held = s.dev[p].held) /\ t.dev.job = s.dev.job
    BY <1>3, <1>4, <1>6, <1>10, <1>13
  <2>6. s.fault # <<"STREAMON", q>> /\ s.dev[q].allocated
    BY <1>13
  <2> HIDE DEF t
  <2> QED BY <2>1, <2>2, <2>3, <2>4, <2>5, <2>6 DEF t, runs
<1> QED BY <1>12, <1>13

\* VIDIOC_QBUF: the engine works when the other side waits for this buffer.
LEMMA EnqueueFacts ==
  ASSUME NEW s, Handle(s), NEW q \in Sides
  PROVE  LET t == QBUF(s, q)
             runs == \A p \in Sides : s.dev[p].on /\ (p = q \/ s.dev[p].held = "queued")
         IN
         \/ /\ Undone(s, t) /\ (~s.ok => t = s)
            /\ s.ok => s.fault = <<"QBUF", q>> \/ ~(s.dev[q].allocated /\ s.dev[q].held = "no")
            /\ t.refused = s.refused \/ ~(s.dev[q].allocated /\ s.dev[q].held = "no")
         \/ /\ Done(s, t) /\ s.fault # <<"QBUF", q>> /\ s.dev[q].allocated /\ s.dev[q].held = "no"
            /\ t.dev.controls = s.dev.controls
            /\ \A p \in Sides : SameQueue(s, t, p)
            /\ runs => (\A p \in Sides : t.dev[p].held = "done") /\ t.dev.job = JobOf(s.dev)
            /\ ~runs => /\ t.dev[q].held = "queued" /\ t.dev.job = s.dev.job
                       /\ \A p \in Sides : p # q => t.dev[p].held = s.dev[p].held
<1> DEFINE r == [s.dev[q] EXCEPT !.held = "queued"]
           v == [s EXCEPT !.dev[q] = r]
           e == Engine(v)
           t == QBUF(s, q)
           runs == \A p \in Sides : s.dev[p].on /\ (p = q \/ s.dev[p].held = "queued")
<1>1. t = Ioctl(s, <<"QBUF", q>>, s.dev[q].allocated /\ s.dev[q].held = "no",
                Engine([s EXCEPT !.dev[q].held = "queued"]))
  BY DEF QBUF
<1>u. [s EXCEPT !.dev[q].held = "queued"] = v
  BY DEF Handle, Sides
<1>2. /\ DOMAIN r = QueueFields /\ r.allocated = s.dev[q].allocated /\ r.on = s.dev[q].on
      /\ r.held = "queued" /\ r.format = s.dev[q].format
  BY DEF Handle, QueueFields
<1>r. DOMAIN r = QueueFields /\ r.allocated \in BOOLEAN /\ r.on \in BOOLEAN
  BY DEF Handle, QueueFields
<1> HIDE DEF r
<1>3. /\ Handle(v) /\ Rest(s, v) /\ v.ok = s.ok /\ v.refused = s.refused /\ v.hangs = s.hangs
      /\ v.dev.controls = s.dev.controls /\ v.dev.job = s.dev.job
      /\ v.dev[q] = r /\ \A p \in Sides : p # q => v.dev[p] = s.dev[p]
  BY <1>r, QueueChange
<1> HIDE DEF v
<1>4. /\ Handle(e) /\ Rest(v, e) /\ e.ok = v.ok /\ e.refused = v.refused /\ e.hangs = v.hangs
      /\ e.dev.controls = v.dev.controls
      /\ \A p \in Sides : SameQueue(v, e, p)
      /\ Ready(v.dev) => (\A p \in Sides : e.dev[p].held = "done") /\ e.dev.job = JobOf(v.dev)
      /\ ~Ready(v.dev) => e = v
  BY <1>3, EngineFacts
<1> HIDE DEF e, t
<1>5. \/ s.ok /\ s.fault # <<"QBUF", q>> /\ s.dev[q].allocated /\ s.dev[q].held = "no" /\ t = e
      \/ /\ Undone(s, t) /\ (~s.ok => t = s)
         /\ s.ok => s.fault = <<"QBUF", q>> \/ ~(s.dev[q].allocated /\ s.dev[q].held = "no")
         /\ t.refused = s.refused \/ ~(s.dev[q].allocated /\ s.dev[q].held = "no")
  BY <1>1, <1>u, NotMade DEF Ioctl, e
<1>6. Ready(v.dev) <=> runs
  BY <1>2, <1>3 DEF Ready
<1>7. JobOf(v.dev) = JobOf(s.dev)
  BY <1>2, <1>3 DEF JobOf, Sides
<1>8. Rest(s, e)
  BY <1>3, <1>4 DEF Rest
<1>9. \A p \in Sides : SameQueue(v, e, p) /\ SameQueue(s, e, p)
  BY <1>2, <1>3, <1>4 DEF SameQueue
<1>10. v.dev[q].held = "queued" /\ \A p \in Sides : p # q => v.dev[p].held = s.dev[p].held
  BY <1>2, <1>3
<1> HIDE DEF runs
<1>12. CASE ~(s.ok /\ s.fault # <<"QBUF", q>> /\ s.dev[q].allocated /\ s.dev[q].held = "no" /\ t = e)
  BY <1>5, <1>12 DEF t
<1>13. CASE s.ok /\ s.fault # <<"QBUF", q>> /\ s.dev[q].allocated /\ s.dev[q].held = "no" /\ t = e
  <2>1. Done(s, t)
    BY <1>3, <1>4, <1>8, <1>13 DEF Done
  <2> QED BY <1>3, <1>4, <1>6, <1>7, <1>9, <1>10, <1>13, <2>1 DEF t, e, runs
<1> QED BY <1>12, <1>13

(* A dequeue of a queue that streams waits for the engine.                 *)
LEMMA DequeueFacts ==
  ASSUME NEW s, Handle(s), NEW q \in Sides
  PROVE  LET t == DQBUF(s, q) IN
         \/ /\ Undone(s, t) /\ t.refused = s.refused
            /\ s.ok => s.fault = <<"DQBUF", q>> \/ ~s.dev[q].on
         \/ /\ s.ok /\ s.dev[q].on /\ s.dev[q].held # "done" /\ s.fault # <<"DQBUF", q>>
         \/ /\ Done(s, t) /\ s.fault # <<"DQBUF", q>> /\ s.dev[q].on /\ s.dev[q].held = "done"
            /\ t.dev.job = s.dev.job /\ t.dev.controls = s.dev.controls
            /\ \A p \in Sides : SameQueue(s, t, p)
            /\ t.dev[q].held = "no" /\ \A p \in Sides : p # q => t.dev[p] = s.dev[p]
<1> DEFINE r == [s.dev[q] EXCEPT !.held = "no"]
           v == [s EXCEPT !.dev[q] = r]
           t == DQBUF(s, q)
<1>1. CASE ~s.ok \/ s.fault = <<"DQBUF", q>> \/ ~s.dev[q].on
  BY <1>1, NotMade DEF DQBUF
<1>2. CASE s.ok /\ s.dev[q].on /\ s.dev[q].held # "done" /\ s.fault # <<"DQBUF", q>>
  BY <1>2
<1>3. CASE s.ok /\ s.fault # <<"DQBUF", q>> /\ s.dev[q].on /\ s.dev[q].held = "done"
  <2>1. t = v
    BY <1>3 DEF DQBUF, Handle, Sides
  <2>2. /\ r.allocated = s.dev[q].allocated /\ r.on = s.dev[q].on /\ r.held = "no"
        /\ r.format = s.dev[q].format
    BY DEF Handle, QueueFields
  <2>r. DOMAIN r = QueueFields /\ r.allocated \in BOOLEAN /\ r.on \in BOOLEAN
    BY DEF Handle, QueueFields
  <2> HIDE DEF r
  <2>3. /\ Handle(v) /\ Rest(s, v) /\ v.ok = s.ok /\ v.refused = s.refused /\ v.hangs = s.hangs
        /\ v.dev.controls = s.dev.controls /\ v.dev.job = s.dev.job
        /\ v.dev[q] = r /\ \A p \in Sides : p # q => v.dev[p] = s.dev[p]
    BY <2>r, QueueChange
  <2> HIDE DEF v, t
  <2>4. \A p \in Sides : SameQueue(s, v, p)
    BY <2>2, <2>3 DEF SameQueue
  <2>5. Done(s, v)
    BY <1>3, <2>3 DEF Done
  <2> QED BY <1>3, <2>1, <2>2, <2>3, <2>4, <2>5 DEF t
<1> QED BY <1>1, <1>2, <1>3 DEF Handle

(* The other steps of a call.                                              *)
Kept(s, t) == Handle(t) /\ t.dev = s.dev /\ t.refused = s.refused /\ t.hangs = s.hangs

\* What Failed, Tidied, Called and Returned leave of a handle.
LEMMA CallFacts ==
  ASSUME NEW s, Handle(s)
  PROVE  /\ Kept(s, Failed(s)) /\ Rest(s, Failed(s)) /\ ~Failed(s).ok
         /\ Kept(s, Tidied(s)) /\ Tidied(s).ok /\ Tidied(s).fault = NoFault
         /\ \A fault : /\ Kept(s, Called(s, fault)) /\ Called(s, fault).ok
                       /\ Called(s, fault).fault = fault
         /\ Kept(s, Returned(s)) /\ Returned(s).ok = s.ok
         /\ \A f \in DOMAIN s : f \notin {"ok", "fault"} =>
              /\ Tidied(s)[f] = s[f] /\ Returned(s)[f] = s[f]
              /\ \A fault : Called(s, fault)[f] = s[f]
         /\ DOMAIN Tidied(s) = DOMAIN s /\ DOMAIN Returned(s) = DOMAIN s
         /\ \A fault : DOMAIN Called(s, fault) = DOMAIN s
BY DEF Failed, Tidied, Called, Returned, Handle, Kept, Rest

LEMMA NoFaultFacts == \A name, x : NoFault # <<name, x>>
BY DEF NoFault

LEMMA IdleFacts ==
  /\ DOMAIN IdleQueue = QueueFields /\ IdleQueue.allocated = FALSE /\ IdleQueue.on = FALSE
  /\ IdleQueue.held = "no" /\ IdleQueue.format = "none"
  /\ \A controls : /\ DOMAIN IdleDevice(controls) = {"src", "dst", "controls", "job"}
                   /\ IdleDevice(controls).controls = controls /\ IdleDevice(controls).job = NoJob
                   /\ \A q \in Sides : IdleDevice(controls)[q] = IdleQueue
BY DEF IdleQueue, IdleDevice, QueueFields, Sides

-----------------------------------------------------------------------------
(* The G-Scaler.                                                           *)

GscFields == {"dirty", "stream", "queued", "image", "dev", "jobFor", "ok", "fault", "refused", "hangs"}

GscHandle(s) ==
  /\ Handle(s) /\ DOMAIN s = GscFields
  /\ s.dirty \in [Sides -> BOOLEAN] /\ s.stream \in [Sides -> BOOLEAN] /\ s.queued \in [Sides -> BOOLEAN]
  /\ DOMAIN s.dev.controls = {"protection", "rotation", "csc"}

GscJobFits(job, image) ==
  /\ job.src = image.format /\ job.dst = image.format
  /\ job.controls.rotation = image.rotation /\ job.controls.csc = image.csc
  /\ image.drm => job.controls.protection

\* What is not dirty is set on the device; the colours come last in a call.
GscIsSet(s) ==
  /\ s.dirty.src => s.dirty.dst
  /\ \A q \in Sides : ~s.dirty[q] => s.dev[q].format = s.image.format
  /\ ~s.dirty.dst => s.dev.controls.rotation = s.image.rotation
  /\ ~s.dirty.dst /\ s.dev.dst.allocated /\ s.image.drm => s.dev.controls.protection
GscIsColoured(s) == ~s.dirty.dst => s.dev.controls.csc = s.image.csc

\* What holds at every step of a call, but for the colours.
GscBase(s) ==
  /\ GscHandle(s) /\ ~s.hangs /\ GscIsSet(s)
  /\ \A q \in Sides : s.stream[q] = s.dev[q].on
  /\ s.dev.job # NoJob => GscJobFits(s.dev.job, s.jobFor)

\* No buffer waits for the engine between two calls.
GscIsCalm(s) ==
  /\ s.stream.src = s.stream.dst
  /\ s.stream.src => \A q \in Sides : s.dev[q].held # "queued" /\ (s.queued[q] => s.dev[q].held = "done")

GscInv(s) == GscBase(s) /\ GscIsColoured(s) /\ GscIsCalm(s)

GscSame(s, t) == t.image = s.image /\ t.jobFor = s.jobFor /\ t.fault = s.fault

\* An ioctl leaves the fields of the handle.
LEMMA GscRest ==
  ASSUME NEW s, NEW t, GscHandle(s), Rest(s, t)
  PROVE  /\ DOMAIN t = GscFields /\ GscSame(s, t)
         /\ t.dirty = s.dirty /\ t.stream = s.stream /\ t.queued = s.queued
BY DEF GscHandle, GscFields, Rest, GscSame

\* A failed ioctl keeps all but the outcome.
LEMMA GscUndone ==
  ASSUME NEW s, NEW t, GscHandle(s), Undone(s, t)
  PROVE  /\ GscHandle(t) /\ GscSame(s, t) /\ t.dirty = s.dirty
         /\ GscBase(s) => GscBase(t)
         /\ GscIsColoured(s) => GscIsColoured(t)
         /\ GscIsCalm(s) => GscIsCalm(t)
         /\ t.stream = s.stream
<1>1. /\ DOMAIN t = GscFields /\ GscSame(s, t)
      /\ t.dirty = s.dirty /\ t.stream = s.stream /\ t.queued = s.queued
  BY GscRest DEF Undone
<1> QED BY <1>1 DEF Undone, GscHandle, GscSame, GscBase, GscIsSet, GscIsColoured, GscIsCalm

\* GscTaken keeps the invariant: a buffer that was queued is done.
LEMMA GscTakes ==
  ASSUME NEW s, NEW q \in Sides, GscInv(s), s.stream.src
  PROVE  LET t == GscTaken(s, q) IN
         GscInv(t) /\ GscSame(s, t) /\ t.dirty = s.dirty /\ t.stream = s.stream
<1> DEFINE t == GscTaken(s, q)
           u == DQBUF(s, q)
<1>1. CASE ~s.ok \/ ~s.queued[q]
  BY <1>1 DEF GscTaken, GscSame
<1>2. CASE s.ok /\ s.queued[q]
  <2>1. t = IF u.ok THEN [u EXCEPT !.queued[q] = FALSE] ELSE u
    BY <1>2 DEF GscTaken
  <2>2. s.dev[q].on /\ s.dev[q].held = "done" /\ Handle(s) /\ GscHandle(s)
    BY <1>2 DEF GscInv, GscBase, GscIsCalm, GscHandle, Sides
  <2>3. \/ Undone(s, u)
        \/ /\ Done(s, u) /\ u.dev.job = s.dev.job /\ u.dev.controls = s.dev.controls
           /\ \A p \in Sides : SameQueue(s, u, p)
           /\ u.dev[q].held = "no" /\ \A p \in Sides : p # q => u.dev[p] = s.dev[p]
    BY <2>2, DequeueFacts
  <2> HIDE DEF u
  <2>4. CASE Undone(s, u)
    <3>1. t = u
      BY <2>1, <2>4 DEF Undone
    <3> HIDE DEF t
    <3> QED BY <2>2, <2>4, <3>1, GscUndone DEF GscInv, t
  <2>5. CASE /\ Done(s, u) /\ u.dev.job = s.dev.job /\ u.dev.controls = s.dev.controls
             /\ \A p \in Sides : SameQueue(s, u, p)
             /\ u.dev[q].held = "no" /\ \A p \in Sides : p # q => u.dev[p] = s.dev[p]
    <3>1. t = [u EXCEPT !.queued[q] = FALSE]
      BY <2>1, <2>5 DEF Done
    <3>2. /\ DOMAIN u = GscFields /\ GscSame(s, u)
          /\ u.dirty = s.dirty /\ u.stream = s.stream /\ u.queued = s.queued
      BY <2>2, <2>5, GscRest DEF Done
    <3>3. /\ DOMAIN t = GscFields /\ GscSame(s, t) /\ t.dirty = s.dirty /\ t.stream = s.stream
          /\ t.queued = [s.queued EXCEPT ![q] = FALSE] /\ t.dev = u.dev /\ t.ok = u.ok
          /\ t.refused = u.refused /\ t.hangs = u.hangs
      BY <3>1, <3>2 DEF GscFields, GscSame
    <3> HIDE DEF t
    <3>4. Handle(t)
      BY <2>5, <3>3 DEF Handle, Done, GscFields
    <3>5. GscHandle(t)
      BY <2>2, <2>5, <3>3, <3>4 DEF GscHandle
    <3>6. GscIsSet(t) /\ GscIsColoured(t)
      BY <2>5, <3>3 DEF GscInv, GscBase, GscIsSet, GscIsColoured, GscSame, SameQueue, Sides
    <3>7. GscIsCalm(t)
      <4>1. ASSUME NEW p \in Sides PROVE t.dev[p].held # "queued" /\ (t.queued[p] => t.dev[p].held = "done")
        <5>1. CASE p = q
          BY <2>2, <2>5, <3>3, <5>1 DEF GscHandle
        <5>2. CASE p # q
          <6>1. t.dev[p] = s.dev[p] /\ t.queued[p] = s.queued[p]
            BY <2>2, <2>5, <3>3, <5>2 DEF GscHandle
          <6> QED BY <6>1 DEF GscInv, GscIsCalm
        <5> QED BY <5>1, <5>2
      <4> QED BY <3>3, <4>1 DEF GscInv, GscIsCalm
    <3>8. GscBase(t)
      BY <2>5, <3>3, <3>5, <3>6 DEF GscInv, GscBase, Done, GscSame, SameQueue
    <3> QED BY <3>3, <3>6, <3>7, <3>8 DEF GscInv, t
  <2> QED BY <2>3, <2>4, <2>5
<1> QED BY <1>1, <1>2 DEF GscInv, GscBase, GscHandle, Handle

\* A failure is only recorded.
LEMMA GscFails ==
  ASSUME NEW s, GscHandle(s)
  PROVE  /\ GscSame(s, Failed(s)) /\ Failed(s).dirty = s.dirty /\ Failed(s).stream = s.stream /\ ~Failed(s).ok
         /\ GscBase(s) => GscBase(Failed(s))
         /\ GscInv(s) => GscInv(Failed(s))
<1>1. Undone(s, Failed(s))
  BY CallFacts DEF GscHandle, Undone, Kept
<1> QED BY <1>1, GscUndone DEF GscInv, Undone

\* m_gsc_m2m_wait_frame_done.
LEMMA GscWaits ==
  ASSUME NEW s, GscInv(s)
  PROVE  LET t == GscWaited(s) IN
         GscInv(t) /\ GscSame(s, t) /\ t.dirty = s.dirty /\ t.stream = s.stream
<1> DEFINE t == GscWaited(s)
           u == GscTaken(s, "src")
<1>1. CASE ~s.ok
  BY <1>1 DEF GscWaited, GscSame
<1>2. CASE s.ok /\ ~(s.stream.src /\ s.stream.dst)
  BY <1>2, GscFails DEF GscWaited, GscInv, GscBase
<1>3. CASE s.ok /\ s.stream.src /\ s.stream.dst
  <2>1. t = GscTaken(u, "dst")
    BY <1>3 DEF GscWaited
  <2>2. GscInv(u) /\ GscSame(s, u) /\ u.dirty = s.dirty /\ u.stream = s.stream
    BY <1>3, GscTakes DEF Sides
  <2> HIDE DEF u
  <2>3. GscInv(t) /\ GscSame(u, t) /\ t.dirty = u.dirty /\ t.stream = u.stream
    BY <1>3, <2>1, <2>2, GscTakes DEF Sides
  <2> QED BY <2>2, <2>3 DEF GscSame
<1> QED BY <1>1, <1>2, <1>3 DEF GscInv, GscBase, GscHandle, Handle

(* m_gsc_set_format of the sides in turn: while the destination is dirty,  *)
(* nothing is said of the controls.                                        *)
LEMMA GscFormatsOne ==
  ASSUME NEW s, NEW q \in Sides, GscBase(s), GscIsCalm(s), s.dirty.dst, s.ok => s.dirty[q],
         q = "dst" => ~s.dirty.src \/ ~s.ok,
         s.ok /\ s.image.drm => s.dev.controls.protection
  PROVE  LET t == GscFormatted(s, q) IN
         /\ GscBase(t) /\ GscIsCalm(t) /\ GscSame(s, t) /\ t.stream = s.stream
         /\ t.ok => /\ s.ok /\ ~t.dirty[q] /\ \A p \in Sides : p # q => t.dirty[p] = s.dirty[p]
                    /\ t.image.drm => t.dev.controls.protection
         /\ ~t.ok => t.dirty.dst
<1> DEFINE r == S_CTRL(s, "rotation", IF q = "dst" THEN s.image.rotation ELSE 0)
           f == S_FMT(r, q, s.image.format)
           b == REQBUFS(f, q)
           t == GscFormatted(s, q)
           Stays(x) == /\ GscBase(x) /\ GscIsCalm(x) /\ GscSame(s, x) /\ x.stream = s.stream /\ x.dirty = s.dirty
                       /\ x.ok => s.ok /\ x.dev.controls.protection = s.dev.controls.protection
<1>1. CASE ~s.ok
  BY <1>1 DEF GscFormatted, GscSame
<1>2. CASE s.ok
  <2>1. GscHandle(s) /\ s.dirty[q] /\ t = IF b.ok THEN [b EXCEPT !.dirty[q] = FALSE] ELSE b
    BY <1>2 DEF GscFormatted, GscBase
  <2>2. Stays(r) /\ (r.ok /\ q = "dst" => r.dev.controls.rotation = s.image.rotation)
    <3>1. \/ Undone(s, r)
          \/ /\ Done(s, r) /\ r.dev.job = s.dev.job
             /\ \A p \in Sides : r.dev[p] = s.dev[p]
             /\ r.dev.controls = [s.dev.controls EXCEPT !["rotation"] = IF q = "dst" THEN s.image.rotation ELSE 0]
      BY <2>1, ControlFacts DEF GscHandle, Updated
    <3> HIDE DEF r
    <3>2. CASE Undone(s, r)
      BY <2>1, <3>2, GscUndone DEF Undone
    <3>3. CASE /\ Done(s, r) /\ r.dev.job = s.dev.job
               /\ \A p \in Sides : r.dev[p] = s.dev[p]
               /\ r.dev.controls = [s.dev.controls EXCEPT !["rotation"] = IF q = "dst" THEN s.image.rotation ELSE 0]
      <4>1. /\ DOMAIN r = GscFields /\ GscSame(s, r)
            /\ r.dirty = s.dirty /\ r.stream = s.stream /\ r.queued = s.queued
        BY <2>1, <3>3, GscRest DEF Done
      <4>2. /\ r.dev.controls.protection = s.dev.controls.protection
            /\ q = "dst" => r.dev.controls.rotation = s.image.rotation
            /\ DOMAIN r.dev.controls = DOMAIN s.dev.controls
        BY <2>1, <3>3 DEF GscHandle
      <4>3. GscHandle(r)
        BY <2>1, <3>3, <4>1, <4>2 DEF GscHandle, Done
      <4>4. GscBase(r)
        BY <3>3, <4>1, <4>3 DEF GscBase, Done, GscIsSet, GscSame
      <4>5. GscIsCalm(r)
        BY <3>3, <4>1 DEF GscIsCalm
      <4> QED BY <1>2, <4>1, <4>2, <4>4, <4>5
    <3> QED BY <3>1, <3>2, <3>3
  <2> HIDE DEF r
  <2>3. Stays(f) /\ (f.ok => r.ok /\ f.dev[q].format = s.image.format /\ f.dev.controls = r.dev.controls)
    <3>1. \/ Undone(r, f)
          \/ /\ Done(r, f) /\ ~r.dev[q].on
             /\ f.dev.job = r.dev.job /\ f.dev.controls = r.dev.controls
             /\ \A p \in Sides : p # q => f.dev[p] = r.dev[p]
             /\ f.dev[q].format = s.image.format /\ f.dev[q].held = r.dev[q].held
             /\ f.dev[q].on = r.dev[q].on /\ f.dev[q].allocated = r.dev[q].allocated
      BY <2>2, FormatFacts DEF GscHandle, GscBase
    <3> HIDE DEF f
    <3>2. CASE Undone(r, f)
      BY <2>2, <3>2, GscUndone DEF Undone, GscBase, GscSame
    <3>3. CASE /\ Done(r, f) /\ ~r.dev[q].on
               /\ f.dev.job = r.dev.job /\ f.dev.controls = r.dev.controls
               /\ \A p \in Sides : p # q => f.dev[p] = r.dev[p]
               /\ f.dev[q].format = s.image.format /\ f.dev[q].held = r.dev[q].held
               /\ f.dev[q].on = r.dev[q].on /\ f.dev[q].allocated = r.dev[q].allocated
      <4>1. /\ DOMAIN f = GscFields /\ GscSame(r, f)
            /\ f.dirty = r.dirty /\ f.stream = r.stream /\ f.queued = r.queued
        BY <2>2, <3>3, GscRest DEF Done, GscBase
      <4>2. GscHandle(f)
        BY <2>2, <3>3, <4>1 DEF GscHandle, GscBase, Done
      <4>3. GscIsSet(f)
        BY <2>1, <2>2, <3>3, <4>1 DEF GscBase, GscIsSet, GscSame
      <4>4. GscBase(f)
        BY <2>2, <3>3, <4>1, <4>2, <4>3 DEF GscBase, Done, GscSame
      <4>5. GscIsCalm(f)
        <5>1. \A p \in Sides : f.dev[p].held = r.dev[p].held
          BY <3>3
        <5> QED BY <2>2, <4>1, <5>1 DEF GscIsCalm
      <4> QED BY <2>2, <3>3, <4>1, <4>4, <4>5 DEF GscSame, Done
    <3> QED BY <3>1, <3>2, <3>3
  <2> HIDE DEF f
  <2>4. /\ Stays(b)
        /\ b.ok => f.ok /\ b.dev[q].format = s.image.format /\ b.dev.controls = f.dev.controls
    <3>1. \/ Undone(f, b)
          \/ /\ Done(f, b) /\ ~f.dev[q].on
             /\ b.dev.job = f.dev.job /\ b.dev.controls = f.dev.controls
             /\ \A p \in Sides : p # q => b.dev[p] = f.dev[p]
             /\ b.dev[q].format = f.dev[q].format /\ b.dev[q].held = "no"
             /\ b.dev[q].on = f.dev[q].on
      BY <2>3, RequestFacts DEF GscHandle, GscBase
    <3> HIDE DEF b
    <3>2. CASE Undone(f, b)
      BY <2>3, <3>2, GscUndone DEF Undone, GscBase, GscSame
    <3>3. CASE /\ Done(f, b) /\ ~f.dev[q].on
               /\ b.dev.job = f.dev.job /\ b.dev.controls = f.dev.controls
               /\ \A p \in Sides : p # q => b.dev[p] = f.dev[p]
               /\ b.dev[q].format = f.dev[q].format /\ b.dev[q].held = "no"
               /\ b.dev[q].on = f.dev[q].on
      <4>1. /\ DOMAIN b = GscFields /\ GscSame(f, b)
            /\ b.dirty = f.dirty /\ b.stream = f.stream /\ b.queued = f.queued
        BY <2>3, <3>3, GscRest DEF Done, GscBase
      <4>2. GscHandle(b)
        BY <2>3, <3>3, <4>1 DEF GscHandle, GscBase, Done
      <4>3. GscIsSet(b)
        BY <2>1, <2>3, <3>3, <4>1 DEF GscBase, GscIsSet, GscSame
      <4>4. GscBase(b)
        BY <2>3, <3>3, <4>1, <4>2, <4>3 DEF GscBase, Done, GscSame
      <4>5. GscIsCalm(b)
        <5>1. ~f.stream[q] /\ ~f.stream.src
          BY <2>3, <3>3 DEF GscBase, GscIsCalm, Sides
        <5> QED BY <2>3, <4>1, <5>1 DEF GscIsCalm
      <4> QED BY <2>3, <3>3, <4>1, <4>4, <4>5 DEF GscSame, Done
    <3> QED BY <3>1, <3>2, <3>3
  <2> HIDE DEF b
  <2>5. CASE ~b.ok
    BY <2>1, <2>4, <2>5
  <2>6. CASE b.ok
    <3>1. t = [b EXCEPT !.dirty[q] = FALSE]
      BY <2>1, <2>6
    <3> HIDE DEF t
    <3>2. /\ DOMAIN t = GscFields /\ GscSame(b, t) /\ t.stream = b.stream /\ t.queued = b.queued
          /\ t.dev = b.dev /\ t.ok = b.ok /\ t.refused = b.refused /\ t.hangs = b.hangs
          /\ t.dirty = [b.dirty EXCEPT ![q] = FALSE]
      BY <2>4, <3>1 DEF GscBase, GscHandle, GscFields, GscSame
    <3>3. ~t.dirty[q] /\ (\A p \in Sides : p # q => t.dirty[p] = b.dirty[p]) /\ t.dirty \in [Sides -> BOOLEAN]
      BY <2>4, <3>2 DEF GscBase, GscHandle
    <3>4. GscHandle(t)
      BY <2>4, <3>2, <3>3 DEF GscBase, GscHandle, Handle, GscFields
    <3>5. GscIsSet(t)
      BY <1>2, <2>2, <2>3, <2>4, <2>6, <3>2, <3>3 DEF GscBase, GscIsSet, GscSame, Sides
    <3>6. GscBase(t)
      BY <2>4, <3>2, <3>4, <3>5 DEF GscBase, GscSame
    <3>7. GscIsCalm(t)
      BY <2>4, <3>2 DEF GscIsCalm
    <3> QED BY <1>2, <2>2, <2>3, <2>4, <2>6, <3>2, <3>3, <3>6, <3>7 DEF GscSame, t
  <2> QED BY <2>5, <2>6
<1> QED BY <1>1, <1>2 DEF GscBase, GscHandle, Handle

\* The formats of both sides.
LEMMA GscFormatsAll ==
  ASSUME NEW s, GscInv(s), s.ok /\ s.dirty.dst /\ s.image.drm => s.dev.controls.protection
  PROVE  LET t == GscFormats(s) IN
         /\ GscBase(t) /\ GscIsCalm(t) /\ GscSame(s, t) /\ t.stream = s.stream
         /\ ~s.dirty.dst => t = s
         /\ t.ok => s.ok /\ ~t.dirty.src /\ ~t.dirty.dst
         /\ ~t.ok => GscIsColoured(t)
<1> DEFINE u == GscFormatted(s, "src")
           t == GscFormatted(u, "dst")
<1>0. t = GscFormats(s)
  BY DEF GscFormats
<1>1. CASE ~s.dirty.dst
  <2>1. ~s.dirty.src
    BY <1>1 DEF GscInv, GscBase, GscIsSet
  <2>2. u = s
    BY <2>1 DEF GscFormatted
  <2> HIDE DEF u
  <2>3. t = s
    BY <1>1, <2>2 DEF GscFormatted
  <2> QED BY <1>0, <1>1, <2>1, <2>3 DEF GscInv, GscSame
<1>2. CASE s.dirty.dst
  <2>1. /\ GscBase(u) /\ GscIsCalm(u) /\ GscSame(s, u) /\ u.stream = s.stream
        /\ u.ok => s.ok /\ ~u.dirty.src /\ (u.image.drm => u.dev.controls.protection)
        /\ u.dirty.dst
    <3>1. CASE s.ok => s.dirty.src
      BY <1>2, <3>1, GscFormatsOne DEF GscInv, Sides
    <3>2. CASE s.ok /\ ~s.dirty.src
      <4>1. u = s
        BY <3>2 DEF GscFormatted
      <4> QED BY <1>2, <3>2, <4>1 DEF GscInv, GscSame
    <3> QED BY <3>1, <3>2
  <2> HIDE DEF u
  <2>2. /\ GscBase(t) /\ GscIsCalm(t) /\ GscSame(u, t) /\ t.stream = u.stream
        /\ t.ok => u.ok /\ ~t.dirty.dst /\ t.dirty.src = u.dirty.src
        /\ ~t.ok => t.dirty.dst
    BY <2>1, GscFormatsOne DEF Sides
  <2> HIDE DEF t
  <2> QED BY <1>0, <1>2, <2>1, <2>2 DEF GscSame, GscIsColoured
<1> QED BY <1>1, <1>2

\* The protection is set when it is asked for.
LEMMA GscProtects ==
  ASSUME NEW s, GscInv(s)
  PROVE  LET t == S_CTRL(s, "protection", TRUE) IN
         /\ GscInv(t) /\ GscSame(s, t) /\ t.stream = s.stream /\ t.dirty = s.dirty
         /\ t.ok => s.ok /\ t.dev.controls.protection
<1> DEFINE t == S_CTRL(s, "protection", TRUE)
<1>1. GscHandle(s)
  BY DEF GscInv, GscBase
<1>2. \/ Undone(s, t)
      \/ /\ Done(s, t) /\ t.dev.job = s.dev.job
         /\ \A p \in Sides : t.dev[p] = s.dev[p]
         /\ t.dev.controls = [s.dev.controls EXCEPT !["protection"] = TRUE]
  <2>1. PICK v : v = TRUE
    OBVIOUS
  <2>2. t = S_CTRL(s, "protection", v)
    BY <2>1
  <2> HIDE DEF t
  <2>3. \/ Undone(s, t)
        \/ /\ Done(s, t) /\ t.dev.job = s.dev.job
           /\ \A p \in Sides : t.dev[p] = s.dev[p]
           /\ t.dev.controls = [s.dev.controls EXCEPT !["protection"] = v]
    BY <1>1, <2>2, ControlFacts DEF GscHandle, Updated
  <2> QED BY <2>1, <2>3
<1> HIDE DEF t
<1>3. CASE Undone(s, t)
  <2>1. GscInv(t) /\ GscSame(s, t) /\ t.stream = s.stream /\ t.dirty = s.dirty
    BY <1>1, <1>3, GscUndone DEF GscInv
  <2> QED BY <1>3, <2>1 DEF Undone, t
<1>4. CASE /\ Done(s, t) /\ t.dev.job = s.dev.job
           /\ \A p \in Sides : t.dev[p] = s.dev[p]
           /\ t.dev.controls = [s.dev.controls EXCEPT !["protection"] = TRUE]
  <2>1. /\ DOMAIN t = GscFields /\ GscSame(s, t)
        /\ t.dirty = s.dirty /\ t.stream = s.stream /\ t.queued = s.queued
    BY <1>1, <1>4, GscRest DEF Done
  <2>2. /\ t.dev.controls.protection /\ t.dev.controls.rotation = s.dev.controls.rotation
        /\ t.dev.controls.csc = s.dev.controls.csc /\ DOMAIN t.dev.controls = DOMAIN s.dev.controls
    BY <1>1, <1>4 DEF GscHandle
  <2>3. GscHandle(t)
    BY <1>1, <1>4, <2>1, <2>2 DEF GscHandle, Done
  <2>4. GscIsSet(t) /\ GscIsColoured(t)
    BY <1>4, <2>1, <2>2 DEF GscInv, GscBase, GscIsSet, GscIsColoured, GscSame, Sides
  <2>5. GscIsCalm(t)
    BY <1>4, <2>1 DEF GscInv, GscIsCalm
  <2>6. GscBase(t)
    BY <1>4, <2>1, <2>3, <2>4 DEF GscInv, GscBase, Done, GscSame
  <2> QED BY <1>4, <2>1, <2>2, <2>4, <2>5, <2>6 DEF GscInv, Done, t
<1> QED BY <1>2, <1>3, <1>4 DEF t

\* The colour controls, which never fail.
LEMMA GscColours ==
  ASSUME NEW s, GscBase(s), GscIsCalm(s), s.ok, s.fault # <<"S_CTRL", "csc">>
  PROVE  LET t == S_CTRL(s, "csc", s.image.csc) IN
         GscInv(t) /\ GscSame(s, t) /\ t.stream = s.stream /\ t.dirty = s.dirty /\ t.ok
<1> DEFINE t == S_CTRL(s, "csc", s.image.csc)
<1>1. GscHandle(s)
  BY DEF GscBase
<1>4. /\ Done(s, t) /\ t.dev.job = s.dev.job
      /\ \A p \in Sides : t.dev[p] = s.dev[p]
      /\ t.dev.controls = [s.dev.controls EXCEPT !["csc"] = s.image.csc]
  BY <1>1, ControlFacts DEF GscHandle, Updated
<1> HIDE DEF t
<1>5. /\ DOMAIN t = GscFields /\ GscSame(s, t)
      /\ t.dirty = s.dirty /\ t.stream = s.stream /\ t.queued = s.queued
  BY <1>1, <1>4, GscRest DEF Done
<1>6. /\ t.dev.controls.protection = s.dev.controls.protection
      /\ t.dev.controls.rotation = s.dev.controls.rotation
      /\ t.dev.controls.csc = s.image.csc /\ DOMAIN t.dev.controls = DOMAIN s.dev.controls
  BY <1>1, <1>4 DEF GscHandle
<1>7. GscHandle(t)
  BY <1>1, <1>4, <1>5, <1>6 DEF GscHandle, Done
<1>8. GscIsSet(t) /\ GscIsColoured(t)
  BY <1>4, <1>5, <1>6 DEF GscBase, GscIsSet, GscIsColoured, GscSame, Sides
<1>9. GscIsCalm(t)
  BY <1>4, <1>5 DEF GscIsCalm
<1>10. GscBase(t)
  BY <1>4, <1>5, <1>7, <1>8 DEF GscBase, Done, GscSame
<1> QED BY <1>4, <1>5, <1>8, <1>9, <1>10 DEF GscInv, Done, t

\* What the runs keep when they replace the job.
GscShape(s) ==
  /\ GscHandle(s) /\ ~s.hangs /\ GscIsSet(s) /\ GscIsColoured(s)
  /\ \A q \in Sides : s.stream[q] = s.dev[q].on
GscJobKept(s) == s.dev.job # NoJob => GscJobFits(s.dev.job, s.jobFor)

\* The base of the invariant in two parts.
LEMMA GscParts ==
  ASSUME NEW s
  PROVE  GscShape(s) /\ GscJobKept(s) <=> GscBase(s) /\ GscIsColoured(s)
BY DEF GscShape, GscJobKept, GscBase

\* An ioctl that was not made keeps the base.
LEMMA GscUndoneShape ==
  ASSUME NEW s, NEW t, GscShape(s), Undone(s, t)
  PROVE  /\ GscShape(t) /\ GscSame(s, t) /\ t.dirty = s.dirty /\ t.stream = s.stream
         /\ GscJobKept(s) => GscJobKept(t)
<1>1. GscHandle(s)
  BY DEF GscShape
<1>2. GscHandle(t) /\ GscSame(s, t) /\ t.dirty = s.dirty /\ t.stream = s.stream
  BY <1>1, GscUndone
<1> QED BY <1>2 DEF GscShape, GscJobKept, Undone, GscIsSet, GscIsColoured, GscSame

\* Both sides are set, so that a job of this moment is the image's.
LEMMA GscFits ==
  ASSUME NEW s, GscShape(s), ~s.dirty.src, ~s.dirty.dst, s.dev.dst.allocated
  PROVE  GscJobFits(JobOf(s.dev), s.image)
BY DEF GscShape, GscIsSet, GscIsColoured, GscJobFits, JobOf, Sides

\* VIDIOC_QBUF of a run.
LEMMA GscQueues ==
  ASSUME NEW s, NEW q \in Sides, GscShape(s), s.ok
  PROVE  LET t == GscQueued(s, q)
             runs == \A p \in Sides : s.dev[p].on /\ (p = q \/ s.dev[p].held = "queued")
         IN
         /\ GscShape(t) /\ GscSame(s, t) /\ t.dirty = s.dirty /\ t.stream = s.stream
         /\ ~t.ok => t.dev = s.dev
         /\ t.ok => s.dev[q].allocated
         /\ t.ok /\ runs => (\A p \in Sides : t.dev[p].held = "done") /\ t.dev.job = JobOf(s.dev)
         /\ t.ok /\ ~runs => /\ t.dev[q].held = "queued" /\ t.dev.job = s.dev.job
                            /\ \A p \in Sides : p # q => t.dev[p].held = s.dev[p].held
<1> DEFINE t == GscQueued(s, q)
           u == QBUF(s, q)
           runs == \A p \in Sides : s.dev[p].on /\ (p = q \/ s.dev[p].held = "queued")
           Queues == /\ Done(s, u) /\ s.dev[q].allocated /\ u.dev.controls = s.dev.controls
                     /\ \A p \in Sides : SameQueue(s, u, p)
                     /\ runs => (\A p \in Sides : u.dev[p].held = "done") /\ u.dev.job = JobOf(s.dev)
                     /\ ~runs => /\ u.dev[q].held = "queued" /\ u.dev.job = s.dev.job
                                /\ \A p \in Sides : p # q => u.dev[p].held = s.dev[p].held
<1>1. t = IF u.ok THEN [u EXCEPT !.queued[q] = TRUE] ELSE u
  BY DEF GscQueued
<1>2. GscHandle(s)
  BY DEF GscShape
<1>3. Undone(s, u) \/ Queues
  BY <1>2, EnqueueFacts DEF GscHandle
<1> HIDE DEF u
<1>4. CASE Undone(s, u)
  <2>1. t = u /\ ~u.ok /\ u.dev = s.dev
    BY <1>1, <1>4 DEF Undone
  <2> HIDE DEF t
  <2> QED BY <1>4, <2>1, GscUndoneShape DEF t
<1>5. CASE Queues
  <2>1. t = [u EXCEPT !.queued[q] = TRUE]
    BY <1>1, <1>5 DEF Done
  <2>2. /\ DOMAIN u = GscFields /\ GscSame(s, u)
        /\ u.dirty = s.dirty /\ u.stream = s.stream /\ u.queued = s.queued
    BY <1>2, <1>5, GscRest DEF Done
  <2> HIDE DEF t, runs
  <2>3. /\ DOMAIN t = GscFields /\ GscSame(s, t) /\ t.dirty = s.dirty /\ t.stream = s.stream
        /\ t.queued = [s.queued EXCEPT ![q] = TRUE] /\ t.dev = u.dev /\ t.ok = u.ok
        /\ t.refused = u.refused /\ t.hangs = u.hangs
    BY <2>1, <2>2 DEF GscFields, GscSame
  <2>4. Handle(t)
    BY <1>5, <2>3 DEF Handle, Done, GscFields
  <2>5. GscHandle(t)
    BY <1>2, <1>5, <2>3, <2>4 DEF GscHandle
  <2>6. GscIsSet(t) /\ GscIsColoured(t)
    BY <1>5, <2>3 DEF GscShape, GscIsSet, GscIsColoured, GscSame, SameQueue, Sides
  <2>7. GscShape(t)
    BY <1>5, <2>3, <2>5, <2>6 DEF GscShape, Done, GscSame, SameQueue
  <2>8. t.ok /\ u.ok
    BY <1>5, <2>3 DEF Done
  <2> QED BY <1>5, <2>3, <2>7, <2>8 DEF t, runs
<1> QED BY <1>3, <1>4, <1>5

\* VIDIOC_STREAMON of a run.
LEMMA GscStarts ==
  ASSUME NEW s, NEW q \in Sides, GscShape(s), s.ok, ~s.stream[q]
  PROVE  LET t == GscStarted(s, q)
             runs == \A p \in Sides : (p = q \/ s.dev[p].on) /\ s.dev[p].held = "queued"
         IN
         /\ GscShape(t) /\ GscSame(s, t) /\ t.dirty = s.dirty
         /\ ~t.ok => t.dev = s.dev
         /\ t.ok => s.dev[q].allocated /\ t.stream[q] /\ \A p \in Sides : p # q => t.stream[p] = s.stream[p]
         /\ t.ok /\ runs => (\A p \in Sides : t.dev[p].held = "done") /\ t.dev.job = JobOf(s.dev)
         /\ t.ok /\ ~runs => (\A p \in Sides : t.dev[p].held = s.dev[p].held) /\ t.dev.job = s.dev.job
<1> DEFINE t == GscStarted(s, q)
           u == STREAMON(s, q)
           runs == \A p \in Sides : (p = q \/ s.dev[p].on) /\ s.dev[p].held = "queued"
           Starts == /\ Done(s, u) /\ u.dev.controls = s.dev.controls
                     /\ u.dev[q].on /\ u.dev[q].allocated /\ s.dev[q].allocated
                     /\ u.dev[q].format = s.dev[q].format
                     /\ \A p \in Sides : p # q => SameQueue(s, u, p)
                     /\ runs => (\A p \in Sides : u.dev[p].held = "done") /\ u.dev.job = JobOf(s.dev)
                     /\ ~runs => (\A p \in Sides : u.dev[p].held = s.dev[p].held) /\ u.dev.job = s.dev.job
<1>1. t = IF u.ok THEN [u EXCEPT !.stream[q] = TRUE] ELSE u
  BY DEF GscStarted
<1>2. GscHandle(s)
  BY DEF GscShape
<1>3. Undone(s, u) \/ Starts
  BY <1>2, StreamOnFacts DEF GscHandle
<1> HIDE DEF u
<1>4. CASE Undone(s, u)
  <2>1. t = u /\ ~u.ok /\ u.dev = s.dev
    BY <1>1, <1>4 DEF Undone
  <2> HIDE DEF t
  <2> QED BY <1>4, <2>1, GscUndoneShape DEF t
<1>5. CASE Starts
  <2>1. t = [u EXCEPT !.stream[q] = TRUE]
    BY <1>1, <1>5 DEF Done
  <2>2. /\ DOMAIN u = GscFields /\ GscSame(s, u)
        /\ u.dirty = s.dirty /\ u.stream = s.stream /\ u.queued = s.queued
    BY <1>2, <1>5, GscRest DEF Done
  <2> HIDE DEF t, runs
  <2>3. /\ DOMAIN t = GscFields /\ GscSame(s, t) /\ t.dirty = s.dirty /\ t.queued = s.queued
        /\ t.stream = [s.stream EXCEPT ![q] = TRUE] /\ t.dev = u.dev /\ t.ok = u.ok
        /\ t.refused = u.refused /\ t.hangs = u.hangs
    BY <2>1, <2>2 DEF GscFields, GscSame
  <2>4. Handle(t)
    BY <1>5, <2>3 DEF Handle, Done, GscFields
  <2>s. t.stream[q] /\ (\A p \in Sides : p # q => t.stream[p] = s.stream[p]) /\ t.stream \in [Sides -> BOOLEAN]
    BY <1>2, <2>3 DEF GscHandle
  <2>5. GscHandle(t)
    BY <1>2, <1>5, <2>3, <2>4, <2>s DEF GscHandle
  <2>6. \A p \in Sides : t.dev[p].format = s.dev[p].format /\ t.dev[p].allocated = s.dev[p].allocated
    <3>1. t.dev[q].allocated = TRUE /\ s.dev[q].allocated = TRUE /\ t.dev[q].format = s.dev[q].format
      BY <1>2, <1>5, <2>3, <2>4 DEF GscHandle, Handle
    <3>2. \A p \in Sides : p # q => t.dev[p].format = s.dev[p].format /\ t.dev[p].allocated = s.dev[p].allocated
      BY <1>5, <2>3 DEF SameQueue
    <3> QED BY <3>1, <3>2
  <2>7. GscIsSet(t) /\ GscIsColoured(t)
    BY <1>5, <2>3, <2>6 DEF GscShape, GscIsSet, GscIsColoured, GscSame, Sides
  <2>8. \A p \in Sides : t.stream[p] = t.dev[p].on
    <3>1. t.stream[q] = TRUE /\ t.dev[q].on = TRUE
      BY <1>5, <2>3, <2>s, <2>5 DEF GscHandle, Handle
    <3>2. \A p \in Sides : p # q => t.stream[p] = s.stream[p] /\ t.dev[p].on = s.dev[p].on
      BY <1>5, <2>3, <2>s DEF SameQueue
    <3> QED BY <3>1, <3>2 DEF GscShape
  <2>9. GscShape(t)
    BY <1>5, <2>3, <2>5, <2>7, <2>8 DEF GscShape, Done
  <2>10. t.ok /\ u.ok
    BY <1>5, <2>3 DEF Done
  <2>11. s.dev[q].allocated
    BY <1>5
  <2> QED BY <1>5, <2>3, <2>s, <2>9, <2>10, <2>11 DEF t, runs
<1> QED BY <1>3, <1>4, <1>5

\* What m_gsc_m2m_stop leaves alone on its way from s to x.
GscStopping(s, x) ==
  /\ GscHandle(x) /\ ~x.hangs
  /\ x.image = s.image /\ x.jobFor = s.jobFor /\ x.dirty = s.dirty /\ x.dev.job = s.dev.job
  /\ \A q \in Sides : x.dev[q].format = s.dev[q].format /\ x.stream[q] = x.dev[q].on
  /\ x.dev.controls.rotation = s.dev.controls.rotation /\ x.dev.controls.csc = s.dev.controls.csc

\* The stop plows on through failures.
LEMMA GscTidies ==
  ASSUME NEW s, NEW x, GscStopping(s, x)
  PROVE  /\ GscStopping(s, Tidied(x)) /\ Tidied(x).ok /\ Tidied(x).fault = NoFault
         /\ Tidied(x).stream = x.stream /\ Tidied(x).dev = x.dev
<1>1. Handle(x) /\ DOMAIN x = GscFields
  BY DEF GscStopping, GscHandle
<1>2. /\ Handle(Tidied(x)) /\ Tidied(x).dev = x.dev /\ Tidied(x).hangs = x.hangs
      /\ Tidied(x).ok /\ Tidied(x).fault = NoFault
  BY <1>1, CallFacts DEF Kept
<1>3. DOMAIN Tidied(x) = DOMAIN x /\ \A f \in DOMAIN x : f \notin {"ok", "fault"} => Tidied(x)[f] = x[f]
  BY <1>1, CallFacts
<1>4. /\ Tidied(x).image = x.image /\ Tidied(x).jobFor = x.jobFor /\ Tidied(x).dirty = x.dirty
      /\ Tidied(x).stream = x.stream /\ Tidied(x).queued = x.queued
  BY <1>1, <1>3 DEF GscFields
<1> QED BY <1>1, <1>2, <1>3, <1>4 DEF GscStopping, GscHandle

\* VIDIOC_STREAMOFF of a stop.
LEMMA GscTurnsOff ==
  ASSUME NEW s, NEW x, NEW q \in Sides, GscStopping(s, x)
  PROVE  LET t == GscOff(x, q) IN
         GscStopping(s, t) /\ ~t.stream[q] /\ \A p \in Sides : p # q => t.stream[p] = x.stream[p]
<1> DEFINE t == GscOff(x, q)
           y == Tidied(x)
           u == STREAMOFF(y, q)
<1>1. CASE ~x.stream[q]
  BY <1>1 DEF GscOff
<1>2. CASE x.stream[q]
  <2>1. t = [u EXCEPT !.stream[q] = FALSE]
    BY <1>2 DEF GscOff
  <2>2. GscStopping(s, y) /\ y.ok /\ y.fault = NoFault /\ y.stream = x.stream /\ y.dev = x.dev
    BY GscTidies
  <2>3. GscHandle(y) /\ Handle(y)
    BY <2>2 DEF GscStopping, GscHandle
  <2> HIDE DEF y
  <2>4. /\ Done(y, u) /\ u.dev.job = y.dev.job /\ u.dev.controls = y.dev.controls
        /\ \A p \in Sides : p # q => u.dev[p] = y.dev[p]
        /\ u.dev[q].format = y.dev[q].format /\ ~u.dev[q].on
    <3>1. y.fault # <<"STREAMOFF", q>>
      BY <2>2, NoFaultFacts
    <3> QED BY <2>2, <2>3, <3>1, StreamOffFacts
  <2> HIDE DEF u
  <2>5. /\ DOMAIN u = GscFields /\ GscSame(y, u)
        /\ u.dirty = y.dirty /\ u.stream = y.stream /\ u.queued = y.queued
    BY <2>3, <2>4, GscRest DEF Done
  <2> HIDE DEF t
  <2>6. /\ DOMAIN t = GscFields /\ GscSame(u, t) /\ t.dirty = u.dirty /\ t.queued = u.queued
        /\ t.stream = [u.stream EXCEPT ![q] = FALSE] /\ t.dev = u.dev /\ t.ok = u.ok
        /\ t.refused = u.refused /\ t.hangs = u.hangs
    BY <2>1, <2>5 DEF GscFields, GscSame
  <2>7. Handle(t)
    BY <2>4, <2>6 DEF Handle, Done, GscFields
  <2>8. ~t.stream[q] /\ (\A p \in Sides : p # q => t.stream[p] = x.stream[p]) /\ t.stream \in [Sides -> BOOLEAN]
    BY <2>2, <2>3, <2>5, <2>6 DEF GscHandle
  <2>9. GscHandle(t)
    BY <2>3, <2>4, <2>5, <2>6, <2>7, <2>8 DEF GscHandle
  <2>10. \A p \in Sides : t.stream[p] = t.dev[p].on
    <3>1. t.stream[q] = FALSE /\ t.dev[q].on = FALSE
      BY <2>4, <2>6, <2>8, <2>9 DEF GscHandle, Handle
    <3>2. \A p \in Sides : p # q => t.stream[p] = x.stream[p] /\ t.dev[p].on = y.dev[p].on
      BY <2>4, <2>6, <2>8
    <3>3. \A p \in Sides : x.stream[p] = y.dev[p].on
      BY <2>2 DEF GscStopping
    <3> QED BY <3>1, <3>2, <3>3
  <2>11. \A p \in Sides : t.dev[p].format = s.dev[p].format
    <3>1. \A p \in Sides : t.dev[p].format = y.dev[p].format
      BY <2>4, <2>6
    <3> QED BY <2>2, <3>1 DEF GscStopping
  <2>12. ~t.hangs /\ t.dev.job = s.dev.job /\ t.dev.controls = y.dev.controls
    BY <2>2, <2>4, <2>6 DEF GscStopping, Done
  <2>13. t.image = s.image /\ t.jobFor = s.jobFor /\ t.dirty = s.dirty
    BY <2>2, <2>5, <2>6 DEF GscStopping, GscSame
  <2> QED BY <2>2, <2>8, <2>9, <2>10, <2>11, <2>12, <2>13 DEF GscStopping, t
<1> QED BY <1>1, <1>2

\* VIDIOC_REQBUFS of no buffer, in a stop.
LEMMA GscFrees ==
  ASSUME NEW s, NEW x, NEW q \in Sides, GscStopping(s, x), ~x.stream[q]
  PROVE  LET t == FREEBUFS(Tidied(x), q) IN
         /\ GscStopping(s, t) /\ t.stream = x.stream /\ ~t.dev[q].allocated
         /\ \A p \in Sides : p # q => t.dev[p] = x.dev[p]
<1> DEFINE y == Tidied(x)
           t == FREEBUFS(y, q)
<1>2. GscStopping(s, y) /\ y.ok /\ y.fault = NoFault /\ y.stream = x.stream /\ y.dev = x.dev
  BY GscTidies
<1>3. GscHandle(y) /\ Handle(y) /\ ~y.dev[q].on
  BY <1>2 DEF GscStopping, GscHandle
<1> HIDE DEF y
<1>4. /\ Done(y, t) /\ t.dev.job = y.dev.job /\ t.dev.controls = y.dev.controls
      /\ \A p \in Sides : p # q => t.dev[p] = y.dev[p]
      /\ t.dev[q].format = y.dev[q].format /\ t.dev[q].on = y.dev[q].on /\ ~t.dev[q].allocated
  <2>1. y.fault # <<"FREEBUFS", q>>
    BY <1>2, NoFaultFacts
  <2> QED BY <1>2, <1>3, <2>1, FreeFacts
<1> HIDE DEF t
<1>5. /\ DOMAIN t = GscFields /\ GscSame(y, t)
      /\ t.dirty = y.dirty /\ t.stream = y.stream /\ t.queued = y.queued
  BY <1>3, <1>4, GscRest DEF Done
<1>6. GscHandle(t)
  BY <1>3, <1>4, <1>5 DEF GscHandle, Done
<1>7. \A p \in Sides : t.dev[p].format = y.dev[p].format /\ t.dev[p].on = y.dev[p].on
  BY <1>4
<1> QED BY <1>2, <1>4, <1>5, <1>6, <1>7 DEF GscStopping, GscSame, Done, t, y

\* The content protection goes off last.
LEMMA GscUnprotects ==
  ASSUME NEW s, NEW x, GscStopping(s, x), x.ok, x.fault = NoFault
  PROVE  LET t == S_CTRL(x, "protection", FALSE) IN GscStopping(s, t) /\ t.stream = x.stream
<1> DEFINE t == S_CTRL(x, "protection", FALSE)
<1>1. GscHandle(x)
  BY DEF GscStopping
<1>2. /\ Done(x, t) /\ t.dev.job = x.dev.job
      /\ \A p \in Sides : t.dev[p] = x.dev[p]
      /\ t.dev.controls = [x.dev.controls EXCEPT !["protection"] = FALSE]
  <2>1. PICK v : v = FALSE
    OBVIOUS
  <2>2. t = S_CTRL(x, "protection", v)
    BY <2>1
  <2> HIDE DEF t
  <2>3. \/ Undone(x, t) /\ (x.ok => x.fault = <<"S_CTRL", "protection">>)
        \/ /\ Done(x, t) /\ t.dev.job = x.dev.job
           /\ \A p \in Sides : t.dev[p] = x.dev[p]
           /\ t.dev.controls = [x.dev.controls EXCEPT !["protection"] = v]
    BY <1>1, <2>2, ControlFacts DEF GscHandle, Updated
  <2>4. x.fault # <<"S_CTRL", "protection">>
    BY NoFaultFacts
  <2> QED BY <2>1, <2>3, <2>4
<1> HIDE DEF t
<1>3. /\ DOMAIN t = GscFields /\ GscSame(x, t)
      /\ t.dirty = x.dirty /\ t.stream = x.stream /\ t.queued = x.queued
  BY <1>1, <1>2, GscRest DEF Done
<1>4. /\ DOMAIN t.dev.controls = DOMAIN x.dev.controls
      /\ t.dev.controls.rotation = x.dev.controls.rotation
      /\ t.dev.controls.csc = x.dev.controls.csc
  BY <1>1, <1>2 DEF GscHandle
<1>5. GscHandle(t)
  BY <1>1, <1>2, <1>3, <1>4 DEF GscHandle, Done
<1>6. \A p \in Sides : t.dev[p].format = s.dev[p].format /\ t.stream[p] = t.dev[p].on
  BY <1>2, <1>3 DEF GscStopping
<1>7. /\ t.image = s.image /\ t.jobFor = s.jobFor /\ t.dirty = s.dirty /\ ~t.hangs /\ t.dev.job = s.dev.job
  BY <1>2, <1>3 DEF GscStopping, GscSame, Done
<1> QED BY <1>3, <1>4, <1>5, <1>6, <1>7 DEF GscStopping, t

\* m_gsc_m2m_stop.
LEMMA GscStops ==
  ASSUME NEW s, GscShape(s), GscJobKept(s)
  PROVE  LET t == GscStopped(s) IN GscInv(t) /\ GscSame(s, t) /\ t.ok = s.ok
<1>1. CASE ~s.stream.src /\ ~s.stream.dst
  <2>1. GscStopped(s) = s
    BY <1>1 DEF GscStopped
  <2>2. GscIsCalm(s)
    <3>1. s.stream.src = FALSE /\ s.stream.dst = FALSE
      BY <1>1 DEF GscShape, GscHandle, Sides
    <3> QED BY <3>1 DEF GscIsCalm
  <2> QED BY <2>1, <2>2, GscParts DEF GscInv, GscSame
<1>2. CASE s.stream.src \/ s.stream.dst
  <2> DEFINE half == GscOff(s, "src")
             off == GscOff(half, "dst")
             clean == Tidied(off)
             cleared == S_CTRL(clean, "protection", FALSE)
             part == FREEBUFS(Tidied(cleared), "src")
             freed == FREEBUFS(Tidied(part), "dst")
             t == [freed EXCEPT !.ok = s.ok, !.fault = s.fault]
  <2>1. GscStopped(s) = t
    BY <1>2 DEF GscStopped, GscClearProtection
  <2>2. GscStopping(s, s)
    BY DEF GscStopping, GscShape
  <2>3. GscStopping(s, half) /\ ~half.stream.src
    BY <2>2, GscTurnsOff DEF Sides
  <2> HIDE DEF half
  <2>4. GscStopping(s, off) /\ ~off.stream.dst /\ ~off.stream.src
    BY <2>3, GscTurnsOff DEF Sides
  <2> HIDE DEF off
  <2>5. GscStopping(s, clean) /\ clean.ok /\ clean.fault = NoFault /\ clean.stream = off.stream
    BY <2>4, GscTidies
  <2> HIDE DEF clean
  <2>6. GscStopping(s, cleared) /\ ~cleared.stream.src /\ ~cleared.stream.dst
    BY <2>4, <2>5, GscUnprotects
  <2> HIDE DEF cleared
  <2>7. GscStopping(s, part) /\ ~part.stream.src /\ ~part.stream.dst
    BY <2>6, GscFrees DEF Sides
  <2> HIDE DEF part
  <2>8. GscStopping(s, freed) /\ ~freed.stream.src /\ ~freed.stream.dst /\ ~freed.dev.dst.allocated
    BY <2>7, GscFrees DEF Sides
  <2> HIDE DEF freed
  <2>9. /\ DOMAIN t = GscFields /\ GscSame(s, t) /\ t.dirty = freed.dirty /\ t.queued = freed.queued
        /\ t.stream = freed.stream /\ t.dev = freed.dev /\ t.ok = s.ok
        /\ t.refused = freed.refused /\ t.hangs = freed.hangs
    BY <2>8 DEF GscStopping, GscHandle, GscFields, GscSame
  <2> HIDE DEF t
  <2>10. GscHandle(t)
    BY <2>8, <2>9 DEF GscShape, GscStopping, GscHandle, Handle, GscFields
  <2>11. GscIsSet(t) /\ GscIsColoured(t)
    BY <2>8, <2>9 DEF GscShape, GscIsSet, GscIsColoured, GscStopping, GscSame, Sides
  <2>12. GscIsCalm(t)
    <3>1. t.stream.src = FALSE /\ t.stream.dst = FALSE
      BY <2>8, <2>9, <2>10 DEF GscHandle, Sides
    <3> QED BY <3>1 DEF GscIsCalm
  <2>13. GscBase(t)
    BY <2>8, <2>9, <2>10, <2>11 DEF GscBase, GscJobKept, GscStopping, GscSame
  <2> QED BY <2>1, <2>9, <2>11, <2>12, <2>13 DEF GscInv
<1> QED BY <1>1, <1>2

\* A job that fits is recorded with the image it is for.
LEMMA GscGiven ==
  ASSUME NEW s, GscShape(s), GscIsCalm(s), GscJobFits(s.dev.job, s.image)
  PROVE  LET t == [s EXCEPT !.jobFor = s.image] IN GscInv(t) /\ t.image = s.image
<1> DEFINE t == [s EXCEPT !.jobFor = s.image]
<1>1. GscHandle(s)
  BY DEF GscShape
<1>2. /\ DOMAIN t = GscFields /\ t.image = s.image /\ t.jobFor = s.image
      /\ t.dirty = s.dirty /\ t.stream = s.stream /\ t.queued = s.queued /\ t.dev = s.dev
      /\ t.ok = s.ok /\ t.refused = s.refused /\ t.hangs = s.hangs
  BY <1>1 DEF GscHandle, GscFields
<1> HIDE DEF t
<1>3. GscHandle(t)
  BY <1>1, <1>2 DEF GscHandle, Handle, GscFields
<1>4. GscIsSet(t) /\ GscIsColoured(t) /\ GscIsCalm(t)
  BY <1>2 DEF GscShape, GscIsSet, GscIsColoured, GscIsCalm
<1>5. GscBase(t)
  BY <1>2, <1>3, <1>4 DEF GscShape, GscBase
<1> QED BY <1>2, <1>4, <1>5 DEF GscInv, t

\* After a failure, the rest of the sequence does nothing.
LEMMA GscEnds ==
  ASSUME NEW s, NEW q \in Sides, Handle(s), ~s.ok
  PROVE  GscQueued(s, q) = s /\ GscStarted(s, q) = s
<1> DEFINE t == QBUF(s, q)
<1>1. t = s
  BY EnqueueFacts DEF Done
<1>2. GscQueued(s, q) = IF t.ok THEN [t EXCEPT !.queued[q] = TRUE] ELSE t
  BY DEF GscQueued
<1> HIDE DEF t
<1>3. GscQueued(s, q) = s
  BY <1>1, <1>2
<1>4. GscStarted(s, q) = s
  BY DEF GscStarted
<1> QED BY <1>3, <1>4

(* Queueing both buffers and starting both sides: the engine runs when the *)
(* last of them is done, and not before.                                   *)
LEMMA GscRuns ==
  ASSUME NEW c, GscInv(c), c.ok, ~c.dirty.src, ~c.dirty.dst
  PROVE  LET t == GscStarted(GscStarted(GscQueued(GscQueued(c, "src"), "dst"), "src"), "dst") IN
         /\ GscSame(c, t)
         /\ t.ok => GscShape(t) /\ GscIsCalm(t) /\ GscJobFits(t.dev.job, t.image)
         /\ ~t.ok => GscShape(t) /\ GscJobKept(t)
<1> DEFINE q1 == GscQueued(c, "src")
           q2 == GscQueued(q1, "dst")
           s1 == GscStarted(q2, "src")
           s2 == GscStarted(s1, "dst")
<1>1. GscShape(c) /\ GscJobKept(c) /\ GscHandle(c) /\ c.stream.src = c.stream.dst
  BY GscParts DEF GscInv, GscBase, GscIsCalm
<1>2. ~\A p \in Sides : c.dev[p].on /\ (p = "src" \/ c.dev[p].held = "queued")
  <2>1. "dst" \in Sides /\ "dst" # "src"
    BY DEF Sides
  <2>2. c.dev.dst.on => c.dev.dst.held # "queued"
    BY <1>1, <2>1 DEF GscShape, GscInv, GscIsCalm
  <2> QED BY <2>1, <2>2
<1>3. /\ GscShape(q1) /\ GscSame(c, q1) /\ q1.dirty = c.dirty /\ q1.stream = c.stream
      /\ ~q1.ok => q1.dev = c.dev
      /\ q1.ok => q1.dev.src.held = "queued" /\ q1.dev.job = c.dev.job /\ q1.dev.dst.held = c.dev.dst.held
  BY <1>1, <1>2, GscQueues DEF Sides
<1> HIDE DEF q1
<1>4. GscJobKept(q1) /\ GscHandle(q1) /\ Handle(q1)
  BY <1>1, <1>3 DEF GscJobKept, GscSame, GscShape, GscHandle
<1>5. CASE ~q1.ok
  <2>1. q2 = q1
    BY <1>4, <1>5, GscEnds DEF Sides
  <2>2. s1 = q1
    BY <1>4, <1>5, <2>1, GscEnds DEF Sides
  <2>3. s2 = q1
    BY <1>4, <1>5, <2>2, GscEnds DEF Sides
  <2> HIDE DEF s2
  <2> QED BY <1>3, <1>4, <1>5, <2>3 DEF s2, s1, q2, q1
<1>6. CASE q1.ok
  <2>1. (\A p \in Sides : q1.dev[p].on /\ (p = "dst" \/ q1.dev[p].held = "queued")) <=> q1.stream.src
    BY <1>1, <1>3, <1>6 DEF GscShape, Sides
  <2>2. /\ GscShape(q2) /\ GscSame(q1, q2) /\ q2.dirty = q1.dirty /\ q2.stream = q1.stream
        /\ ~q2.ok => q2.dev = q1.dev
        /\ q2.ok => q1.dev.dst.allocated
        /\ q2.ok /\ q1.stream.src => /\ q2.dev.src.held = "done" /\ q2.dev.dst.held = "done"
                                   /\ q2.dev.job = JobOf(q1.dev)
        /\ q2.ok /\ ~q1.stream.src => /\ q2.dev.dst.held = "queued" /\ q2.dev.job = q1.dev.job
                                    /\ q2.dev.src.held = q1.dev.src.held
    BY <1>3, <1>6, <2>1, GscQueues DEF Sides
  <2> HIDE DEF q2
  <2>3. GscHandle(q2) /\ Handle(q2)
    BY <2>2 DEF GscShape, GscHandle
  <2>4. CASE ~q2.ok
    <3>1. GscJobKept(q2)
      BY <1>4, <2>2, <2>4 DEF GscJobKept, GscSame
    <3>2. s1 = q2
      BY <2>3, <2>4, GscEnds DEF Sides
    <3>3. s2 = q2
      BY <2>3, <2>4, <3>2, GscEnds DEF Sides
    <3> HIDE DEF s2
    <3> QED BY <1>3, <2>2, <2>4, <3>1, <3>3 DEF GscSame, s2, s1, q2, q1
  <2>5. CASE q2.ok /\ q2.stream.src
    <3>1. q2.stream.dst
      BY <1>1, <1>3, <2>2, <2>5
    <3>2. s1 = q2
      BY <2>5 DEF GscStarted
    <3>3. s2 = q2
      BY <3>1, <3>2 DEF GscStarted
    <3> HIDE DEF s2, s1
    <3>4. GscJobFits(q2.dev.job, q2.image)
      BY <1>3, <2>2, <2>5, GscFits DEF GscSame
    <3>5. GscIsCalm(q2)
      BY <1>1, <1>3, <2>2, <2>5 DEF GscIsCalm, Sides
    <3> QED BY <1>3, <2>2, <2>5, <3>3, <3>4, <3>5 DEF GscSame, s2, s1, q2, q1
  <2>6. CASE q2.ok /\ ~q2.stream.src
    <3>1. ~q2.stream.dst /\ ~q2.dev.src.on /\ ~q2.dev.dst.on
      BY <1>1, <1>3, <2>2, <2>6 DEF GscShape, Sides
    <3>2. GscJobKept(q2) /\ q2.dev.src.held = "queued" /\ q2.dev.dst.held = "queued"
      BY <1>3, <1>4, <1>6, <2>2, <2>6 DEF GscJobKept, GscSame
    <3>3. ~\A p \in Sides : (p = "src" \/ q2.dev[p].on) /\ q2.dev[p].held = "queued"
      BY <3>1 DEF Sides
    <3>4. /\ GscShape(s1) /\ GscSame(q2, s1) /\ s1.dirty = q2.dirty
          /\ ~s1.ok => s1.dev = q2.dev
          /\ s1.ok => /\ s1.stream.src /\ ~s1.stream.dst /\ s1.dev.job = q2.dev.job
                      /\ \A p \in Sides : s1.dev[p].held = q2.dev[p].held
      BY <2>2, <2>6, <3>1, <3>3, GscStarts DEF Sides
    <3> HIDE DEF s1
    <3>5. GscJobKept(s1) /\ Handle(s1)
      BY <3>2, <3>4 DEF GscJobKept, GscSame, GscShape, GscHandle
    <3>6. CASE ~s1.ok
      <4>1. s2 = s1
        BY <3>5, <3>6, GscEnds DEF Sides
      <4> HIDE DEF s2
      <4> QED BY <1>3, <2>2, <3>4, <3>5, <3>6, <4>1 DEF GscSame, s2, s1, q2, q1
    <3>7. CASE s1.ok
      <4>1. \A p \in Sides : (p = "dst" \/ s1.dev[p].on) /\ s1.dev[p].held = "queued"
        BY <3>2, <3>4, <3>7 DEF Sides, GscShape
      <4>2. /\ GscShape(s2) /\ GscSame(s1, s2)
            /\ ~s2.ok => s2.dev = s1.dev
            /\ s2.ok => /\ s1.dev.dst.allocated /\ s2.stream.src /\ s2.stream.dst
                        /\ \A p \in Sides : s2.dev[p].held = "done"
                        /\ s2.dev.job = JobOf(s1.dev)
        BY <3>4, <3>7, <4>1, GscStarts DEF Sides
      <4> HIDE DEF s2
      <4>3. CASE ~s2.ok
        <5>1. GscJobKept(s2)
          BY <3>5, <4>2, <4>3 DEF GscJobKept, GscSame
        <5> QED BY <1>3, <2>2, <3>4, <4>2, <4>3, <5>1 DEF GscSame, s2, s1, q2, q1
      <4>4. CASE s2.ok
        <5>1. GscJobFits(s2.dev.job, s2.image)
          BY <1>3, <2>2, <3>4, <4>2, <4>4, GscFits DEF GscSame
        <5>2. GscIsCalm(s2)
          <6>1. s2.stream.src = TRUE /\ s2.stream.dst = TRUE
            BY <4>2, <4>4 DEF GscShape, GscHandle, Sides
          <6> QED BY <4>2, <4>4, <6>1 DEF GscIsCalm
        <5> QED BY <1>3, <2>2, <3>4, <4>2, <4>4, <5>1, <5>2 DEF GscSame, s2, s1, q2, q1
      <4> QED BY <4>3, <4>4
    <3> QED BY <3>6, <3>7
  <2> QED BY <2>4, <2>5, <2>6
<1> QED BY <1>5, <1>6

\* m_gsc_m2m_run_core.
LEMMA GscRunsCore ==
  ASSUME NEW s, GscInv(s), s.fault # <<"S_CTRL", "csc">>
  PROVE  GscInv(GscRunCore(s))
<1> DEFINE dirty == s.dirty.src \/ s.dirty.dst
           w == IF s.stream.src THEN GscWaited(s) ELSE s
           p == GscProtected(w, dirty)
           f == GscFormats(p)
           c == GscColoured(f, dirty)
           t == GscStarted(GscStarted(GscQueued(GscQueued(c, "src"), "dst"), "src"), "dst")
           returns == ~p.ok \/ (f.ok /\ ~c.ok)
           end == IF t.ok THEN [t EXCEPT !.jobFor = s.image] ELSE IF returns THEN t ELSE GscStopped(t)
<1>1. GscRunCore(s) = end
  BY DEF GscRunCore
<1>2. dirty <=> s.dirty.dst
  BY DEF GscInv, GscBase, GscIsSet
<1>3. GscInv(w) /\ GscSame(s, w) /\ w.dirty = s.dirty
  BY GscWaits DEF GscSame
<1> HIDE DEF w
<1>4. /\ GscInv(p) /\ GscSame(w, p) /\ p.dirty = w.dirty
      /\ p.ok /\ p.dirty.dst /\ p.image.drm => p.dev.controls.protection
  <2>1. CASE w.ok /\ dirty /\ w.image.drm
    <3>1. p = S_CTRL(w, "protection", TRUE)
      BY <2>1 DEF GscProtected
    <3> HIDE DEF p
    <3> QED BY <1>3, <3>1, GscProtects
  <2>2. CASE ~(w.ok /\ dirty /\ w.image.drm)
    <3>1. p = w
      BY <2>2 DEF GscProtected
    <3> HIDE DEF p, dirty
    <3> QED BY <1>2, <1>3, <2>2, <3>1 DEF GscSame
  <2> QED BY <2>1, <2>2
<1> HIDE DEF p
<1>5. /\ GscBase(f) /\ GscIsCalm(f) /\ GscSame(p, f)
      /\ ~p.dirty.dst => f = p
      /\ f.ok => p.ok /\ ~f.dirty.src /\ ~f.dirty.dst
      /\ ~f.ok => GscIsColoured(f)
  BY <1>4, GscFormatsAll
<1> HIDE DEF f
<1>6. GscInv(c) /\ GscSame(f, c) /\ (c.ok => ~c.dirty.src /\ ~c.dirty.dst) /\ (f.ok <=> c.ok)
  <2>1. CASE f.ok /\ dirty
    <3>1. c = S_CTRL(f, "csc", f.image.csc)
      BY <2>1 DEF GscColoured
    <3>2. f.fault # <<"S_CTRL", "csc">>
      BY <1>3, <1>4, <1>5 DEF GscSame
    <3> HIDE DEF c
    <3> QED BY <1>5, <2>1, <3>1, <3>2, GscColours
  <2>2. CASE ~(f.ok /\ dirty)
    <3>1. c = f
      BY <2>2 DEF GscColoured
    <3> HIDE DEF c, dirty
    <3>2. GscInv(f)
      BY <1>2, <1>3, <1>4, <1>5, <2>2 DEF GscInv
    <3> QED BY <1>5, <3>1, <3>2 DEF GscSame
  <2> QED BY <2>1, <2>2
<1> HIDE DEF c
<1>7. /\ GscSame(c, t)
      /\ t.ok => GscShape(t) /\ GscIsCalm(t) /\ GscJobFits(t.dev.job, t.image)
      /\ ~t.ok => GscShape(t) /\ GscJobKept(t)
      /\ ~c.ok => t = c
  <2>1. CASE c.ok
    BY <1>6, <2>1, GscRuns
  <2>2. CASE ~c.ok
    <3>1. Handle(c) /\ GscQueued(c, "src") = c /\ GscQueued(c, "dst") = c
          /\ GscStarted(c, "src") = c /\ GscStarted(c, "dst") = c
      BY <1>6, <2>2, GscEnds DEF Sides, GscInv, GscBase, GscHandle
    <3>2. t = c
      BY <3>1
    <3> HIDE DEF t
    <3> QED BY <1>6, <2>2, <3>2, GscParts DEF GscInv, GscSame
  <2> QED BY <2>1, <2>2
<1> HIDE DEF t
<1>8. CASE t.ok
  <2>1. t.image = s.image
    BY <1>3, <1>4, <1>5, <1>6, <1>7 DEF GscSame
  <2>2. end = [t EXCEPT !.jobFor = t.image]
    BY <1>8, <2>1
  <2> HIDE DEF end
  <2> QED BY <1>1, <1>7, <1>8, <2>2, GscGiven
<1>9. CASE ~t.ok /\ returns
  <2>1. ~c.ok
    BY <1>5, <1>6, <1>9
  <2>2. end = c
    BY <1>7, <1>9, <2>1
  <2> HIDE DEF end
  <2> QED BY <1>1, <1>6, <2>2
<1>10. CASE ~t.ok /\ ~returns
  <2>1. end = GscStopped(t)
    BY <1>10
  <2> HIDE DEF end
  <2> QED BY <1>1, <1>7, <1>10, <2>1, GscStops
<1> QED BY <1>8, <1>9, <1>10

\* A call begins and returns.
LEMMA GscCalls ==
  ASSUME NEW s, GscInv(s)
  PROVE  /\ GscInv(Returned(s)) /\ Returned(s).ok = s.ok
         /\ \A fault : GscInv(Called(s, fault)) /\ Called(s, fault).ok /\ Called(s, fault).fault = fault
<1>1. Handle(s) /\ GscHandle(s)
  BY DEF GscInv, GscBase, GscHandle
<1>2. /\ Kept(s, Returned(s)) /\ Returned(s).ok = s.ok /\ DOMAIN Returned(s) = DOMAIN s
      /\ \A f \in DOMAIN s : f \notin {"ok", "fault"} => Returned(s)[f] = s[f]
  BY <1>1, CallFacts
<1>3. ASSUME NEW t, Kept(s, t), DOMAIN t = DOMAIN s,
             \A f \in DOMAIN s : f \notin {"ok", "fault"} => t[f] = s[f]
      PROVE  GscInv(t)
  <2>1. /\ t.dirty = s.dirty /\ t.stream = s.stream /\ t.queued = s.queued /\ t.image = s.image
        /\ t.jobFor = s.jobFor
    BY <1>1, <1>3 DEF GscHandle, GscFields
  <2>2. GscHandle(t)
    BY <1>1, <1>3, <2>1 DEF GscHandle, Kept
  <2> QED BY <1>3, <2>1, <2>2 DEF GscInv, GscBase, GscIsSet, GscIsColoured, GscIsCalm, Kept
<1>4. ASSUME NEW fault
      PROVE  GscInv(Called(s, fault)) /\ Called(s, fault).ok /\ Called(s, fault).fault = fault
  <2> DEFINE t == Called(s, fault)
  <2>1. /\ Kept(s, t) /\ t.ok /\ t.fault = fault /\ DOMAIN t = DOMAIN s
        /\ \A f \in DOMAIN s : f \notin {"ok", "fault"} => t[f] = s[f]
    BY <1>1, CallFacts
  <2> HIDE DEF t
  <2> QED BY <1>3, <2>1 DEF t
<1> QED BY <1>2, <1>3, <1>4

\* The invariant holds of a new handle.
LEMMA GscNewFacts == GscInv(GscNew) /\ GscNew.ok
<1>1. /\ DOMAIN GscNew = GscFields /\ GscNew.ok = TRUE /\ GscNew.refused = FALSE /\ GscNew.hangs = FALSE
      /\ GscNew.dirty = [q \in Sides |-> FALSE] /\ GscNew.stream = [q \in Sides |-> FALSE]
      /\ GscNew.queued = [q \in Sides |-> FALSE] /\ GscNew.image = GscNoImage /\ GscNew.jobFor = GscNoImage
      /\ GscNew.dev = IdleDevice([protection |-> FALSE, rotation |-> 0, csc |-> "none"])
  BY DEF GscNew, GscFields
<1>2. /\ DOMAIN GscNew.dev = {"src", "dst", "controls", "job"} /\ GscNew.dev.job = NoJob
      /\ GscNew.dev.controls = [protection |-> FALSE, rotation |-> 0, csc |-> "none"]
      /\ \A q \in Sides : GscNew.dev[q] = IdleQueue
  BY <1>1, IdleFacts
<1>3. Handle(GscNew)
  BY <1>1, <1>2, IdleFacts DEF Handle, QueueFields, GscFields
<1>4. GscHandle(GscNew)
  BY <1>1, <1>2, <1>3 DEF GscHandle
<1>5. GscIsSet(GscNew) /\ GscIsColoured(GscNew) /\ GscIsCalm(GscNew)
  BY <1>1, <1>2, IdleFacts DEF GscIsSet, GscIsColoured, GscIsCalm, GscNoImage, Sides
<1>6. GscBase(GscNew)
  <2>1. \A q \in Sides : GscNew.stream[q] = GscNew.dev[q].on
    <3>1. ASSUME NEW q \in Sides PROVE GscNew.stream[q] = FALSE /\ GscNew.dev[q].on = FALSE
      <4>1. GscNew.stream[q] = FALSE
        BY <1>1
      <4>2. GscNew.dev[q] = IdleQueue
        BY <1>2
      <4> QED BY <4>1, <4>2, IdleFacts
    <3> QED BY <3>1
  <2> QED BY <1>1, <1>2, <1>4, <1>5, <2>1 DEF GscBase
<1> QED BY <1>1, <1>5, <1>6 DEF GscInv

\* A configuration makes both sides dirty.
LEMMA GscConfigures ==
  ASSUME NEW s, NEW image, GscInv(s)
  PROVE  GscInv([s EXCEPT !.image = image, !.dirty = [q \in Sides |-> TRUE]])
<1> DEFINE t == [s EXCEPT !.image = image, !.dirty = [q \in Sides |-> TRUE]]
<1>1. GscHandle(s)
  BY DEF GscInv, GscBase
<1>2. /\ DOMAIN t = GscFields /\ t.jobFor = s.jobFor /\ t.dirty = [q \in Sides |-> TRUE]
      /\ t.stream = s.stream /\ t.queued = s.queued /\ t.dev = s.dev
      /\ t.ok = s.ok /\ t.refused = s.refused /\ t.hangs = s.hangs
  BY <1>1 DEF GscHandle, GscFields
<1> HIDE DEF t
<1>3. t.dirty \in [Sides -> BOOLEAN] /\ t.dirty.src /\ t.dirty.dst /\ \A q \in Sides : t.dirty[q]
  BY <1>2 DEF Sides
<1>4. GscHandle(t)
  BY <1>1, <1>2, <1>3 DEF GscHandle, Handle, GscFields
<1>5. GscIsSet(t) /\ GscIsColoured(t)
  BY <1>3 DEF GscIsSet, GscIsColoured
<1>6. GscIsCalm(t)
  BY <1>2 DEF GscInv, GscIsCalm
<1>7. GscBase(t)
  BY <1>2, <1>4, <1>5 DEF GscInv, GscBase
<1> QED BY <1>5, <1>6, <1>7 DEF GscInv, t

\* The driver sets the colours, which are written after the buffers.
GscColoursAreSet == <<"S_CTRL", "csc">> \notin GscFaults

\* Every call keeps the invariant of the G-Scaler.
LEMMA GscKeeps ==
  ASSUME GscColoursAreSet, GscInv(gsc), [GscNext]_gscVars
  PROVE  GscInv(gsc')
<1>1. ASSUME NEW image \in GscImages, GscConfigure(image) PROVE GscInv(gsc')
  BY <1>1, GscConfigures DEF GscConfigure
<1>2. \A fault \in GscFaults \cup {NoFault} : fault # <<"S_CTRL", "csc">>
  BY NoFaultFacts DEF GscColoursAreSet
<1>3. ASSUME NEW fault \in GscFaults \cup {NoFault}
      PROVE  /\ GscRun(fault) => GscInv(gsc')
             /\ GscWait(fault) => GscInv(gsc')
             /\ GscConvert(fault) => GscInv(gsc')
  <2> DEFINE s == Called(gsc, fault)
             r == GscRunCore(s)
             w == GscWaited(s)
             d == GscWaited(r)
             e == IF d.ok THEN GscStopped(d) ELSE d
  <2>1. GscInv(s) /\ s.fault # <<"S_CTRL", "csc">>
    BY <1>2, GscCalls
  <2> HIDE DEF s
  <2>2. GscInv(r) /\ GscInv(w)
    BY <2>1, GscRunsCore, GscWaits
  <2> HIDE DEF r, w
  <2>3. GscInv(d)
    BY <2>2, GscWaits
  <2> HIDE DEF d
  <2>4. GscInv(e)
    BY <2>3, GscStops, GscParts DEF GscInv
  <2> HIDE DEF e
  <2>5. GscInv(Returned(r)) /\ GscInv(Returned(w)) /\ GscInv(Returned(e))
    BY <2>2, <2>4, GscCalls
  <2>6. GscRun(fault) => gsc' = Returned(r)
    BY DEF GscRun, r, s
  <2>7. GscWait(fault) => gsc' = Returned(w)
    BY DEF GscWait, w, s
  <2>8. GscConvert(fault) => gsc' = Returned(e)
    BY DEF GscConvert, e, d, r, s
  <2> QED BY <2>5, <2>6, <2>7, <2>8
<1>4. CASE GscStop
  <2>1. GscInv(Called(gsc, NoFault))
    BY GscCalls
  <2> QED BY <1>4, <2>1, GscStops, GscParts DEF GscStop, GscInv
<1>5. CASE GscReopen
  BY <1>5, GscNewFacts DEF GscReopen
<1>6. CASE UNCHANGED gscVars
  BY <1>6 DEF gscVars
<1> QED BY <1>1, <1>3, <1>4, <1>5, <1>6 DEF GscNext

-----------------------------------------------------------------------------
(* The scaler.                                                             *)

ScFields == {"fresh", "reqbufs", "qbuf", "streaming", "freshControls", "image", "dev", "jobFor",
             "broken", "ok", "fault", "refused", "hangs"}
ScControlNames == {"protection", "rotation", "csc"}
ScWanted(image) == [protection |-> image.drm, rotation |-> image.rotation, csc |-> image.csc]

ScHandle(s) ==
  /\ Handle(s) /\ DOMAIN s = ScFields
  /\ s.fresh \in [Sides -> BOOLEAN] /\ s.reqbufs \in [Sides -> BOOLEAN]
  /\ s.qbuf \in [Sides -> BOOLEAN] /\ s.streaming \in [Sides -> BOOLEAN]
  /\ s.freshControls \subseteq ScControlNames
  /\ s.dev.controls = [protection |-> s.dev.controls.protection, rotation |-> s.dev.controls.rotation,
                       csc |-> s.dev.controls.csc]

ScJobFits(job, image) ==
  job.src = image.format /\ job.dst = image.format /\ job.controls = ScWanted(image)

\* The flags of a side tell of its queue; the engine is done with what is queued.
ScSide(s, q) ==
  /\ s.streaming[q] <=> s.dev[q].on
  /\ s.streaming[q] => s.reqbufs[q]
  /\ s.reqbufs[q] => s.dev[q].allocated
  /\ s.qbuf[q] /\ s.dev[q].on => s.dev[q].held = "done"
  /\ ~s.fresh[q] => s.dev[q].format = s.image.format

\* The ioctls whose failure the library survives.
ScIsFair(fault) ==
  /\ fault # <<"STREAMON", "dst">>
  /\ \A q \in Sides : fault # <<"DQBUF", q>> /\ fault # <<"STREAMOFF", q>>

ScShape(s) ==
  /\ ScHandle(s) /\ ~s.hangs /\ ~s.refused /\ ScIsFair(s.fault)
  /\ \A c \in ScControlNames : c \notin s.freshControls => s.dev.controls[c] = ScWanted(s.image)[c]

ScJobKept(s) == s.dev.job # NoJob => ScJobFits(s.dev.job, s.jobFor)

ScBase(s) == ScShape(s) /\ \A q \in Sides : ScSide(s, q)

(* Buffers are with the driver only while both sides stream, and a side    *)
(* with a fresh format does not stream.                                    *)
ScSettled(s) ==
  /\ s.streaming.src <=> s.streaming.dst
  /\ \A q \in Sides :
       /\ s.reqbufs[q] /\ s.dev[q].held # "no" => s.qbuf[q]
       /\ s.qbuf[q] => s.streaming[q]
       /\ s.fresh[q] => ~s.streaming.src /\ ~s.streaming.dst

\* A client that may run the scaler finds it settled, or to be set anew.
ScInv(s) ==
  /\ ScBase(s) /\ ScJobKept(s) /\ s.broken \in BOOLEAN
  /\ ~s.broken => ScSettled(s) \/ (s.fresh.src /\ s.fresh.dst)

ScSame(s, t) ==
  /\ t.image = s.image /\ t.jobFor = s.jobFor /\ t.fault = s.fault /\ t.broken = s.broken

\* An ioctl leaves the fields of the handle.
LEMMA ScRest ==
  ASSUME NEW s, NEW t, ScHandle(s), Rest(s, t)
  PROVE  /\ DOMAIN t = ScFields /\ ScSame(s, t)
         /\ t.fresh = s.fresh /\ t.reqbufs = s.reqbufs /\ t.qbuf = s.qbuf /\ t.streaming = s.streaming
         /\ t.freshControls = s.freshControls
BY DEF ScHandle, ScFields, Rest, ScSame

\* A failed ioctl that was not refused.
LEMMA ScUndone ==
  ASSUME NEW s, NEW t, ScShape(s), Undone(s, t), t.refused = s.refused
  PROVE  /\ ScShape(t) /\ ScSame(s, t) /\ t.dev = s.dev /\ ~t.ok
         /\ t.fresh = s.fresh /\ t.reqbufs = s.reqbufs /\ t.qbuf = s.qbuf /\ t.streaming = s.streaming
         /\ t.freshControls = s.freshControls
<1>1. /\ DOMAIN t = ScFields /\ ScSame(s, t)
      /\ t.fresh = s.fresh /\ t.reqbufs = s.reqbufs /\ t.qbuf = s.qbuf /\ t.streaming = s.streaming
      /\ t.freshControls = s.freshControls
  BY ScRest DEF Undone, ScShape
<1>2. Handle(t) /\ t.dev = s.dev /\ ~t.ok /\ t.hangs = s.hangs
  BY DEF Undone
<1>3. ScHandle(t)
  BY <1>1, <1>2 DEF ScShape, ScHandle
<1> QED BY <1>1, <1>2, <1>3 DEF ScShape, ScSame

\* An ioctl that leaves the controls and the formats alone.
LEMMA ScDone ==
  ASSUME NEW s, NEW t, ScShape(s), Done(s, t), t.dev.controls = s.dev.controls
  PROVE  /\ ScShape(t) /\ ScSame(s, t) /\ t.ok
         /\ t.fresh = s.fresh /\ t.reqbufs = s.reqbufs /\ t.qbuf = s.qbuf /\ t.streaming = s.streaming
         /\ t.freshControls = s.freshControls
<1>1. /\ DOMAIN t = ScFields /\ ScSame(s, t)
      /\ t.fresh = s.fresh /\ t.reqbufs = s.reqbufs /\ t.qbuf = s.qbuf /\ t.streaming = s.streaming
      /\ t.freshControls = s.freshControls
  BY ScRest DEF Done, ScShape
<1>2. Handle(t) /\ t.ok /\ t.hangs = s.hangs /\ t.refused = s.refused
  BY DEF Done
<1>3. ScHandle(t)
  BY <1>1, <1>2 DEF ScShape, ScHandle
<1> QED BY <1>1, <1>2, <1>3 DEF ScShape, ScSame


LEMMA ScFreshOff ==
  ASSUME NEW s, NEW q \in Sides, ScShape(s)
  PROVE  LET t == [s EXCEPT !.fresh[q] = FALSE] IN
         /\ ScShape(t) /\ ScSame(s, t) /\ t.dev = s.dev /\ t.ok = s.ok
         /\ t.reqbufs = s.reqbufs /\ t.qbuf = s.qbuf /\ t.streaming = s.streaming /\ t.freshControls = s.freshControls
         /\ ~t.fresh[q] /\ \A p \in Sides : p # q => t.fresh[p] = s.fresh[p]
<1> DEFINE t == [s EXCEPT !.fresh[q] = FALSE]
<1>1. ScHandle(s)
  BY DEF ScShape
<1>2. /\ DOMAIN t = ScFields /\ ScSame(s, t) /\ t.dev = s.dev /\ t.ok = s.ok
      /\ t.refused = s.refused /\ t.hangs = s.hangs
      /\ t.reqbufs = s.reqbufs /\ t.qbuf = s.qbuf /\ t.streaming = s.streaming /\ t.freshControls = s.freshControls
      /\ t.fresh = [s.fresh EXCEPT ![q] = FALSE]
  BY <1>1 DEF ScHandle, ScFields, ScSame
<1> HIDE DEF t
<1>3. Handle(t)
  BY <1>1, <1>2 DEF ScHandle, Handle, ScFields
<1>4. /\ ~t.fresh[q] /\ t.fresh \in [Sides -> BOOLEAN] /\ \A p \in Sides : p # q => t.fresh[p] = s.fresh[p]
  BY <1>1, <1>2 DEF ScHandle
<1>5. ScHandle(t)
  BY <1>1, <1>2, <1>3, <1>4 DEF ScHandle
<1>6. ScShape(t)
  BY <1>2, <1>5 DEF ScShape, ScSame
<1> QED BY <1>2, <1>4, <1>6 DEF t

LEMMA ScReqbufsOn ==
  ASSUME NEW s, NEW q \in Sides, ScShape(s)
  PROVE  LET t == [s EXCEPT !.reqbufs[q] = TRUE] IN
         /\ ScShape(t) /\ ScSame(s, t) /\ t.dev = s.dev /\ t.ok = s.ok
         /\ t.fresh = s.fresh /\ t.qbuf = s.qbuf /\ t.streaming = s.streaming /\ t.freshControls = s.freshControls
         /\ t.reqbufs[q] /\ \A p \in Sides : p # q => t.reqbufs[p] = s.reqbufs[p]
<1> DEFINE t == [s EXCEPT !.reqbufs[q] = TRUE]
<1>1. ScHandle(s)
  BY DEF ScShape
<1>2. /\ DOMAIN t = ScFields /\ ScSame(s, t) /\ t.dev = s.dev /\ t.ok = s.ok
      /\ t.refused = s.refused /\ t.hangs = s.hangs
      /\ t.fresh = s.fresh /\ t.qbuf = s.qbuf /\ t.streaming = s.streaming /\ t.freshControls = s.freshControls
      /\ t.reqbufs = [s.reqbufs EXCEPT ![q] = TRUE]
  BY <1>1 DEF ScHandle, ScFields, ScSame
<1> HIDE DEF t
<1>3. Handle(t)
  BY <1>1, <1>2 DEF ScHandle, Handle, ScFields
<1>4. /\ t.reqbufs[q] /\ t.reqbufs \in [Sides -> BOOLEAN] /\ \A p \in Sides : p # q => t.reqbufs[p] = s.reqbufs[p]
  BY <1>1, <1>2 DEF ScHandle
<1>5. ScHandle(t)
  BY <1>1, <1>2, <1>3, <1>4 DEF ScHandle
<1>6. ScShape(t)
  BY <1>2, <1>5 DEF ScShape, ScSame
<1> QED BY <1>2, <1>4, <1>6 DEF t

LEMMA ScQbufOff ==
  ASSUME NEW s, NEW q \in Sides, ScShape(s)
  PROVE  LET t == [s EXCEPT !.qbuf[q] = FALSE] IN
         /\ ScShape(t) /\ ScSame(s, t) /\ t.dev = s.dev /\ t.ok = s.ok
         /\ t.fresh = s.fresh /\ t.reqbufs = s.reqbufs /\ t.streaming = s.streaming /\ t.freshControls = s.freshControls
         /\ ~t.qbuf[q] /\ \A p \in Sides : p # q => t.qbuf[p] = s.qbuf[p]
<1> DEFINE t == [s EXCEPT !.qbuf[q] = FALSE]
<1>1. ScHandle(s)
  BY DEF ScShape
<1>2. /\ DOMAIN t = ScFields /\ ScSame(s, t) /\ t.dev = s.dev /\ t.ok = s.ok
      /\ t.refused = s.refused /\ t.hangs = s.hangs
      /\ t.fresh = s.fresh /\ t.reqbufs = s.reqbufs /\ t.streaming = s.streaming /\ t.freshControls = s.freshControls
      /\ t.qbuf = [s.qbuf EXCEPT ![q] = FALSE]
  BY <1>1 DEF ScHandle, ScFields, ScSame
<1> HIDE DEF t
<1>3. Handle(t)
  BY <1>1, <1>2 DEF ScHandle, Handle, ScFields
<1>4. /\ ~t.qbuf[q] /\ t.qbuf \in [Sides -> BOOLEAN] /\ \A p \in Sides : p # q => t.qbuf[p] = s.qbuf[p]
  BY <1>1, <1>2 DEF ScHandle
<1>5. ScHandle(t)
  BY <1>1, <1>2, <1>3, <1>4 DEF ScHandle
<1>6. ScShape(t)
  BY <1>2, <1>5 DEF ScShape, ScSame
<1> QED BY <1>2, <1>4, <1>6 DEF t

LEMMA ScQbufOn ==
  ASSUME NEW s, NEW q \in Sides, ScShape(s)
  PROVE  LET t == [s EXCEPT !.qbuf[q] = TRUE] IN
         /\ ScShape(t) /\ ScSame(s, t) /\ t.dev = s.dev /\ t.ok = s.ok
         /\ t.fresh = s.fresh /\ t.reqbufs = s.reqbufs /\ t.streaming = s.streaming /\ t.freshControls = s.freshControls
         /\ t.qbuf[q] /\ \A p \in Sides : p # q => t.qbuf[p] = s.qbuf[p]
<1> DEFINE t == [s EXCEPT !.qbuf[q] = TRUE]
<1>1. ScHandle(s)
  BY DEF ScShape
<1>2. /\ DOMAIN t = ScFields /\ ScSame(s, t) /\ t.dev = s.dev /\ t.ok = s.ok
      /\ t.refused = s.refused /\ t.hangs = s.hangs
      /\ t.fresh = s.fresh /\ t.reqbufs = s.reqbufs /\ t.streaming = s.streaming /\ t.freshControls = s.freshControls
      /\ t.qbuf = [s.qbuf EXCEPT ![q] = TRUE]
  BY <1>1 DEF ScHandle, ScFields, ScSame
<1> HIDE DEF t
<1>3. Handle(t)
  BY <1>1, <1>2 DEF ScHandle, Handle, ScFields
<1>4. /\ t.qbuf[q] /\ t.qbuf \in [Sides -> BOOLEAN] /\ \A p \in Sides : p # q => t.qbuf[p] = s.qbuf[p]
  BY <1>1, <1>2 DEF ScHandle
<1>5. ScHandle(t)
  BY <1>1, <1>2, <1>3, <1>4 DEF ScHandle
<1>6. ScShape(t)
  BY <1>2, <1>5 DEF ScShape, ScSame
<1> QED BY <1>2, <1>4, <1>6 DEF t

LEMMA ScStreamingOn ==
  ASSUME NEW s, NEW q \in Sides, ScShape(s)
  PROVE  LET t == [s EXCEPT !.streaming[q] = TRUE] IN
         /\ ScShape(t) /\ ScSame(s, t) /\ t.dev = s.dev /\ t.ok = s.ok
         /\ t.fresh = s.fresh /\ t.reqbufs = s.reqbufs /\ t.qbuf = s.qbuf /\ t.freshControls = s.freshControls
         /\ t.streaming[q] /\ \A p \in Sides : p # q => t.streaming[p] = s.streaming[p]
<1> DEFINE t == [s EXCEPT !.streaming[q] = TRUE]
<1>1. ScHandle(s)
  BY DEF ScShape
<1>2. /\ DOMAIN t = ScFields /\ ScSame(s, t) /\ t.dev = s.dev /\ t.ok = s.ok
      /\ t.refused = s.refused /\ t.hangs = s.hangs
      /\ t.fresh = s.fresh /\ t.reqbufs = s.reqbufs /\ t.qbuf = s.qbuf /\ t.freshControls = s.freshControls
      /\ t.streaming = [s.streaming EXCEPT ![q] = TRUE]
  BY <1>1 DEF ScHandle, ScFields, ScSame
<1> HIDE DEF t
<1>3. Handle(t)
  BY <1>1, <1>2 DEF ScHandle, Handle, ScFields
<1>4. /\ t.streaming[q] /\ t.streaming \in [Sides -> BOOLEAN] /\ \A p \in Sides : p # q => t.streaming[p] = s.streaming[p]
  BY <1>1, <1>2 DEF ScHandle
<1>5. ScHandle(t)
  BY <1>1, <1>2, <1>3, <1>4 DEF ScHandle
<1>6. ScShape(t)
  BY <1>2, <1>5 DEF ScShape, ScSame
<1> QED BY <1>2, <1>4, <1>6 DEF t

ScOff(s, q) == [s EXCEPT !.streaming[q] = FALSE, !.reqbufs[q] = FALSE]

LEMMA ScQueueOff ==
  ASSUME NEW s, NEW q \in Sides, ScShape(s)
  PROVE  LET t == ScOff(s, q) IN
         /\ ScShape(t) /\ ScSame(s, t) /\ t.dev = s.dev /\ t.ok = s.ok
         /\ t.fresh = s.fresh /\ t.qbuf = s.qbuf /\ t.freshControls = s.freshControls
         /\ ~t.streaming[q] /\ \A p \in Sides : p # q => t.streaming[p] = s.streaming[p]
         /\ ~t.reqbufs[q] /\ \A p \in Sides : p # q => t.reqbufs[p] = s.reqbufs[p]
<1> DEFINE t == ScOff(s, q)
<1>1. ScHandle(s)
  BY DEF ScShape
<1>2. /\ DOMAIN t = ScFields /\ ScSame(s, t) /\ t.dev = s.dev /\ t.ok = s.ok
      /\ t.refused = s.refused /\ t.hangs = s.hangs
      /\ t.fresh = s.fresh /\ t.qbuf = s.qbuf /\ t.freshControls = s.freshControls
      /\ t.streaming = [s.streaming EXCEPT ![q] = FALSE]
      /\ t.reqbufs = [s.reqbufs EXCEPT ![q] = FALSE]
  BY <1>1 DEF ScOff, ScHandle, ScFields, ScSame
<1> HIDE DEF t
<1>3. Handle(t)
  BY <1>1, <1>2 DEF ScHandle, Handle, ScFields
<1>4. /\ ~t.streaming[q] /\ t.streaming \in [Sides -> BOOLEAN] /\ \A p \in Sides : p # q => t.streaming[p] = s.streaming[p]
      /\ ~t.reqbufs[q] /\ t.reqbufs \in [Sides -> BOOLEAN] /\ \A p \in Sides : p # q => t.reqbufs[p] = s.reqbufs[p]
  BY <1>1, <1>2 DEF ScHandle
<1>5. ScHandle(t)
  BY <1>1, <1>2, <1>3, <1>4 DEF ScHandle
<1>6. ScShape(t)
  BY <1>2, <1>5 DEF ScShape, ScSame
<1> QED BY <1>2, <1>4, <1>6 DEF t

\* Whether a call is going on does not matter to the base.
LEMMA ScOkFacts ==
  ASSUME NEW s, ScShape(s)
  PROVE  LET t == [s EXCEPT !.ok = TRUE] IN
         /\ ScShape(t) /\ ScSame(s, t) /\ t.dev = s.dev /\ t.ok
         /\ t.fresh = s.fresh /\ t.reqbufs = s.reqbufs /\ t.qbuf = s.qbuf /\ t.streaming = s.streaming
         /\ t.freshControls = s.freshControls
<1> DEFINE t == [s EXCEPT !.ok = TRUE]
<1>1. ScHandle(s)
  BY DEF ScShape
<1>2. /\ DOMAIN t = ScFields /\ ScSame(s, t) /\ t.dev = s.dev /\ t.ok = TRUE
      /\ t.refused = s.refused /\ t.hangs = s.hangs
      /\ t.fresh = s.fresh /\ t.reqbufs = s.reqbufs /\ t.qbuf = s.qbuf /\ t.streaming = s.streaming
      /\ t.freshControls = s.freshControls
  BY <1>1 DEF ScHandle, ScFields, ScSame
<1> HIDE DEF t
<1>3. ScHandle(t)
  BY <1>1, <1>2 DEF ScHandle, Handle, ScFields
<1>4. ScShape(t)
  BY <1>2, <1>3 DEF ScShape, ScSame
<1> QED BY <1>2, <1>4 DEF t

ScSideSame(s, t, p) ==
  /\ t.dev[p] = s.dev[p] /\ t.fresh[p] = s.fresh[p] /\ t.reqbufs[p] = s.reqbufs[p]
  /\ t.qbuf[p] = s.qbuf[p] /\ t.streaming[p] = s.streaming[p]

\* All that a step on side q leaves alone.
ScOnly(s, t, q) ==
  /\ ScSame(s, t) /\ t.dev.job = s.dev.job
  /\ \A p \in Sides : p # q => ScSideSame(s, t, p)

\* A side that is the same is as sound as it was.
LEMMA ScSideStays ==
  ASSUME NEW s, NEW t, NEW p, ScSide(s, p), ScSideSame(s, t, p), t.image = s.image
  PROVE  ScSide(t, p)
BY DEF ScSide, ScSideSame

\* A change of one side keeps the base when it keeps that side.
LEMMA ScOnlyBase ==
  ASSUME NEW s, NEW t, NEW q \in Sides, ScBase(s), ScShape(t), ScOnly(s, t, q), ScSide(t, q)
  PROVE  ScBase(t) /\ (ScJobKept(s) => ScJobKept(t))
<1>1. ASSUME NEW p \in Sides PROVE ScSide(t, p)
  BY <1>1, ScSideStays DEF ScBase, ScOnly, ScSame
<1> QED BY <1>1 DEF ScBase, ScOnly, ScSame, ScJobKept

(* A dequeue looks at one side only.                                       *)
LEMMA ScDequeuesOne ==
  ASSUME NEW s, NEW q \in Sides, ScShape(s), ScSide(s, q)
  PROVE  LET t == ScDQBuf(s, q) IN
         /\ ScShape(t) /\ ScSide(t, q) /\ ScOnly(s, t, q) /\ t.dev.controls = s.dev.controls
         /\ t.freshControls = s.freshControls /\ t.fresh = s.fresh
         /\ t.streaming = s.streaming /\ t.reqbufs = s.reqbufs
         /\ SameQueue(s, t, q)
         /\ ~s.ok \/ ~s.qbuf[q] => t = s
         /\ s.ok => ~t.qbuf[q]
         /\ s.ok /\ s.qbuf[q] /\ s.dev[q].on => t.ok /\ t.dev[q].held = "no"
         /\ s.ok /\ s.qbuf[q] /\ ~s.dev[q].on => ~t.ok /\ t.dev = s.dev
<1> DEFINE t == ScDQBuf(s, q)
           x == [s EXCEPT !.qbuf[q] = FALSE]
<1>1. CASE ~s.ok \/ ~s.qbuf[q]
  <2>1. t = s
    BY <1>1 DEF ScDQBuf
  <2>2. ScOnly(s, s, q) /\ SameQueue(s, s, q)
    BY DEF ScOnly, ScSame, ScSideSame, SameQueue
  <2> HIDE DEF t
  <2> QED BY <1>1, <2>1, <2>2 DEF t
<1>2. CASE s.ok /\ s.qbuf[q]
  <2>1. t = DQBUF(x, q)
    BY <1>2 DEF ScDQBuf
  <2> HIDE DEF t
  <2>2. /\ ScShape(x) /\ ScSame(s, x) /\ x.dev = s.dev /\ x.ok = s.ok
        /\ x.fresh = s.fresh /\ x.reqbufs = s.reqbufs /\ x.streaming = s.streaming
        /\ x.freshControls = s.freshControls
        /\ ~x.qbuf[q] /\ \A p \in Sides : p # q => x.qbuf[p] = s.qbuf[p]
    BY ScQbufOff
  <2> HIDE DEF x
  <2>3. Handle(x) /\ x.fault # <<"DQBUF", q>> /\ x.ok
    BY <1>2, <2>2 DEF ScShape, ScHandle, ScIsFair
  <2>4. CASE ~s.dev[q].on
    <3>1. Undone(x, t) /\ t.refused = x.refused
      BY <2>1, <2>2, <2>3, <2>4, DequeueFacts
    <3>2. /\ ScShape(t) /\ ScSame(x, t) /\ t.dev = x.dev /\ ~t.ok
          /\ t.fresh = x.fresh /\ t.reqbufs = x.reqbufs /\ t.qbuf = x.qbuf /\ t.streaming = x.streaming
          /\ t.freshControls = x.freshControls
      BY <2>2, <3>1, ScUndone
    <3>3. ScOnly(s, t, q) /\ SameQueue(s, t, q)
      BY <2>2, <3>2 DEF ScOnly, ScSame, ScSideSame, SameQueue
    <3>4. ScSide(t, q)
      BY <2>2, <2>3, <3>2 DEF ScSide, ScSame
    <3> QED BY <1>2, <2>2, <2>4, <3>2, <3>3, <3>4 DEF t
  <2>5. CASE s.dev[q].on
    <3>1. /\ Done(x, t) /\ t.dev.job = x.dev.job /\ t.dev.controls = x.dev.controls
          /\ SameQueue(x, t, q)
          /\ t.dev[q].held = "no" /\ \A p \in Sides : p # q => t.dev[p] = x.dev[p]
      <4>1. x.dev[q].on /\ x.dev[q].held = "done"
        BY <1>2, <2>2, <2>3, <2>5 DEF ScSide
      <4> QED BY <2>1, <2>2, <2>3, <4>1, DequeueFacts
    <3>2. /\ ScShape(t) /\ ScSame(x, t) /\ t.ok
          /\ t.fresh = x.fresh /\ t.reqbufs = x.reqbufs /\ t.qbuf = x.qbuf /\ t.streaming = x.streaming
          /\ t.freshControls = x.freshControls
      BY <2>2, <3>1, ScDone
    <3>3. ScOnly(s, t, q) /\ SameQueue(s, t, q)
      BY <2>2, <3>1, <3>2 DEF ScOnly, ScSame, ScSideSame, SameQueue
    <3>4. ScSide(t, q)
      BY <2>2, <2>3, <3>1, <3>2 DEF ScSide, ScSame, SameQueue
    <3> QED BY <1>2, <2>2, <2>5, <3>1, <3>2, <3>3, <3>4 DEF t
  <2>6. s.dev[q].on \/ ~s.dev[q].on
    OBVIOUS
  <2> QED BY <2>4, <2>5, <2>6
<1> QED BY <1>1, <1>2

\* DQBuf of both frames.
LEMMA ScDequeues ==
  ASSUME NEW s, NEW q \in Sides, ScBase(s)
  PROVE  LET t == ScDQBuf(s, q) IN
         /\ ScBase(t) /\ ScOnly(s, t, q) /\ t.dev.controls = s.dev.controls
         /\ t.freshControls = s.freshControls /\ t.fresh = s.fresh
         /\ t.streaming = s.streaming /\ t.reqbufs = s.reqbufs
         /\ s.ok => ~t.qbuf[q]
         /\ ScSettled(s) => ScSettled(t) /\ t.ok = s.ok
<1> DEFINE t == ScDQBuf(s, q)
<1>1. ScShape(s) /\ ScSide(s, q)
  BY DEF ScBase
<1>2. /\ ScShape(t) /\ ScSide(t, q) /\ ScOnly(s, t, q) /\ t.dev.controls = s.dev.controls
      /\ t.freshControls = s.freshControls /\ t.fresh = s.fresh
      /\ t.streaming = s.streaming /\ t.reqbufs = s.reqbufs
      /\ ~s.ok \/ ~s.qbuf[q] => t = s
      /\ s.ok => ~t.qbuf[q]
      /\ s.ok /\ s.qbuf[q] /\ s.dev[q].on => t.ok /\ t.dev[q].held = "no"
  BY <1>1, ScDequeuesOne
<1> HIDE DEF t
<1>3. ScBase(t)
  BY <1>2, ScOnlyBase
<1>4. ASSUME ScSettled(s) PROVE ScSettled(t) /\ t.ok = s.ok
  <2>1. CASE ~s.ok \/ ~s.qbuf[q]
    BY <1>2, <1>4, <2>1
  <2>2. CASE s.ok /\ s.qbuf[q]
    <3>1. s.dev[q].on
      BY <1>1, <1>4, <2>2 DEF ScSide, ScSettled
    <3>2. t.ok /\ t.dev[q].held = "no" /\ ~t.qbuf[q]
      BY <1>2, <2>2, <3>1
    <3>3. \A p \in Sides : p # q => t.dev[p] = s.dev[p] /\ t.qbuf[p] = s.qbuf[p]
      BY <1>2 DEF ScOnly, ScSideSame
    <3>4. s.ok = TRUE /\ t.ok = TRUE
      BY <1>1, <1>2, <2>2, <3>2 DEF ScShape, ScHandle, Handle
    <3>5. ScSettled(t)
      BY <1>2, <1>4, <3>2, <3>3 DEF ScSettled
    <3> QED BY <3>4, <3>5
  <2> QED BY <2>1, <2>2
<1> QED BY <1>2, <1>3, <1>4 DEF t

(* ResetDevice: whatever of it fails, the side counts as stopped and       *)
(* without a buffer, and is stopped.                                       *)
LEMMA ScResets ==
  ASSUME NEW s, NEW q \in Sides, ScBase(s), s.ok
  PROVE  LET t == ScReset(s, q) IN
         /\ ScBase(t) /\ t.ok /\ ScOnly(s, t, q) /\ t.dev.controls = s.dev.controls
         /\ t.freshControls = s.freshControls /\ t.fresh = s.fresh
         /\ ~t.streaming[q] /\ ~t.reqbufs[q] /\ ~t.qbuf[q]
<1> DEFINE d == ScDQBuf(s, q)
           taken == [d EXCEPT !.ok = TRUE]
           so == STREAMOFF(taken, q)
           off == IF s.streaming[q] THEN [so EXCEPT !.ok = TRUE] ELSE taken
           fb == FREEBUFS(off, q)
           freed == IF s.reqbufs[q] THEN [fb EXCEPT !.ok = TRUE] ELSE off
           t == ScOff(freed, q)
           Keeps(u) == /\ ScShape(u) /\ u.ok /\ ScOnly(s, u, q) /\ u.dev.controls = s.dev.controls
                       /\ u.freshControls = s.freshControls /\ u.fresh = s.fresh /\ ~u.qbuf[q]
                       /\ ~u.fresh[q] => u.dev[q].format = u.image.format
<1>1. ScReset(s, q) = t
  BY DEF ScReset, ScOff
<1>2. /\ ScBase(d) /\ ScOnly(s, d, q) /\ d.dev.controls = s.dev.controls
      /\ d.freshControls = s.freshControls /\ d.fresh = s.fresh
      /\ d.streaming = s.streaming /\ d.reqbufs = s.reqbufs /\ ~d.qbuf[q]
  BY ScDequeues
<1> HIDE DEF d
<1>3. /\ ScShape(taken) /\ ScSame(d, taken) /\ taken.dev = d.dev /\ taken.ok
      /\ taken.fresh = d.fresh /\ taken.reqbufs = d.reqbufs /\ taken.qbuf = d.qbuf
      /\ taken.streaming = d.streaming /\ taken.freshControls = d.freshControls
  BY <1>2, ScOkFacts DEF ScBase
<1> HIDE DEF taken
<1>4. Keeps(taken) /\ (taken.dev[q].on <=> s.streaming[q])
  BY <1>2, <1>3 DEF ScBase, ScSide, ScOnly, ScSame, ScSideSame
<1>5. Keeps(off) /\ ~off.dev[q].on
  <2>1. CASE ~s.streaming[q]
    BY <1>4, <2>1
  <2>2. CASE s.streaming[q]
    <3>1. taken.fault # <<"STREAMOFF", q>> /\ Handle(taken)
      BY <1>3 DEF ScShape, ScIsFair, ScHandle
    <3>2. /\ Done(taken, so) /\ so.dev.job = taken.dev.job /\ so.dev.controls = taken.dev.controls
          /\ \A p \in Sides : p # q => so.dev[p] = taken.dev[p]
          /\ so.dev[q].format = taken.dev[q].format /\ ~so.dev[q].on
      BY <1>3, <3>1, StreamOffFacts
    <3> HIDE DEF so
    <3>3. /\ ScShape(so) /\ ScSame(taken, so)
          /\ so.fresh = taken.fresh /\ so.reqbufs = taken.reqbufs /\ so.qbuf = taken.qbuf
          /\ so.streaming = taken.streaming /\ so.freshControls = taken.freshControls
      BY <1>3, <3>2, ScDone
    <3> DEFINE o == [so EXCEPT !.ok = TRUE]
    <3>4. /\ ScShape(o) /\ ScSame(so, o) /\ o.dev = so.dev /\ o.ok
          /\ o.fresh = so.fresh /\ o.reqbufs = so.reqbufs /\ o.qbuf = so.qbuf
          /\ o.streaming = so.streaming /\ o.freshControls = so.freshControls
      BY <3>3, ScOkFacts
    <3>5. off = o
      BY <2>2
    <3> HIDE DEF o, off
    <3>6. ScOnly(s, o, q)
      BY <1>4, <3>2, <3>3, <3>4 DEF ScOnly, ScSame, ScSideSame
    <3>7. Keeps(o) /\ ~o.dev[q].on
      BY <1>4, <3>2, <3>3, <3>4, <3>6 DEF ScSame
    <3> QED BY <3>5, <3>7
  <2> QED BY <2>1, <2>2
<1> HIDE DEF off
<1>6. Keeps(freed) /\ ~freed.dev[q].on
  <2>1. CASE ~s.reqbufs[q]
    BY <1>5, <2>1
  <2>2. CASE s.reqbufs[q]
    <3>1. Handle(off)
      BY <1>5 DEF ScShape, ScHandle
    <3>2. \/ Undone(off, fb) /\ fb.refused = off.refused
          \/ /\ Done(off, fb) /\ fb.dev.job = off.dev.job /\ fb.dev.controls = off.dev.controls
             /\ \A p \in Sides : p # q => fb.dev[p] = off.dev[p]
             /\ fb.dev[q].format = off.dev[q].format /\ fb.dev[q].on = off.dev[q].on
      BY <1>5, <3>1, FreeFacts
    <3> HIDE DEF fb
    <3>3. /\ ScShape(fb) /\ ScSame(off, fb)
          /\ fb.fresh = off.fresh /\ fb.reqbufs = off.reqbufs /\ fb.qbuf = off.qbuf
          /\ fb.streaming = off.streaming /\ fb.freshControls = off.freshControls
      BY <1>5, <3>2, ScDone, ScUndone
    <3>d. /\ fb.dev.job = off.dev.job /\ fb.dev.controls = off.dev.controls
          /\ \A p \in Sides : p # q => fb.dev[p] = off.dev[p]
          /\ fb.dev[q].format = off.dev[q].format /\ fb.dev[q].on = off.dev[q].on
      BY <3>2 DEF Undone
    <3> DEFINE o == [fb EXCEPT !.ok = TRUE]
    <3>4. /\ ScShape(o) /\ ScSame(fb, o) /\ o.dev = fb.dev /\ o.ok
          /\ o.fresh = fb.fresh /\ o.reqbufs = fb.reqbufs /\ o.qbuf = fb.qbuf
          /\ o.streaming = fb.streaming /\ o.freshControls = fb.freshControls
      BY <3>3, ScOkFacts
    <3>5. freed = o
      BY <2>2
    <3> HIDE DEF o, freed
    <3>6. ScOnly(s, o, q)
      BY <1>5, <3>d, <3>3, <3>4 DEF ScOnly, ScSame, ScSideSame
    <3>7. Keeps(o) /\ ~o.dev[q].on
      BY <1>5, <3>d, <3>3, <3>4, <3>6 DEF ScSame
    <3> QED BY <3>5, <3>7
  <2> QED BY <2>1, <2>2
<1> HIDE DEF freed
<1>7. /\ ScShape(t) /\ ScSame(freed, t) /\ t.dev = freed.dev /\ t.ok = freed.ok
      /\ t.fresh = freed.fresh /\ t.qbuf = freed.qbuf /\ t.freshControls = freed.freshControls
      /\ ~t.streaming[q] /\ \A p \in Sides : p # q => t.streaming[p] = freed.streaming[p]
      /\ ~t.reqbufs[q] /\ \A p \in Sides : p # q => t.reqbufs[p] = freed.reqbufs[p]
  <2>1. ScShape(freed)
    BY <1>6
  <2> QED BY <2>1, ScQueueOff
<1> HIDE DEF t
<1>8. ScOnly(s, t, q)
  BY <1>6, <1>7 DEF ScOnly, ScSame, ScSideSame
<1>9. ScSide(t, q)
  BY <1>6, <1>7 DEF ScSide, ScSame
<1>10. ScBase(t)
  BY <1>7, <1>8, <1>9, ScOnlyBase
<1> QED BY <1>1, <1>6, <1>7, <1>8, <1>10

\* Nothing is requested, queued or streams.
ScClean(s) == \A q \in Sides : ~s.streaming[q] /\ ~s.reqbufs[q] /\ ~s.qbuf[q]

\* ResetDevice of both frames.
LEMMA ScStopsAll ==
  ASSUME NEW s, ScBase(s), s.ok
  PROVE  LET t == ScStopAll(s) IN
         /\ ScBase(t) /\ t.ok /\ ScSame(s, t) /\ t.dev.job = s.dev.job
         /\ t.freshControls = s.freshControls /\ t.fresh = s.fresh /\ ScClean(t)
<1> DEFINE u == ScReset(s, "src")
           t == ScReset(u, "dst")
<1>0. "src" \in Sides /\ "dst" \in Sides
  BY DEF Sides
<1>1. /\ ScBase(u) /\ u.ok /\ ScOnly(s, u, "src")
      /\ u.freshControls = s.freshControls /\ u.fresh = s.fresh
      /\ ~u.streaming["src"] /\ ~u.reqbufs["src"] /\ ~u.qbuf["src"]
  BY <1>0, ScResets
<1> HIDE DEF u
<1>2. /\ ScBase(t) /\ t.ok /\ ScOnly(u, t, "dst")
      /\ t.freshControls = u.freshControls /\ t.fresh = u.fresh
      /\ ~t.streaming["dst"] /\ ~t.reqbufs["dst"] /\ ~t.qbuf["dst"]
  BY <1>0, <1>1, ScResets
<1> HIDE DEF t
<1>3. ~t.streaming["src"] /\ ~t.reqbufs["src"] /\ ~t.qbuf["src"]
  BY <1>0, <1>1, <1>2 DEF ScOnly, ScSideSame
<1>4. ScClean(t)
  BY <1>2, <1>3 DEF ScClean, Sides
<1>5. ScSame(s, t) /\ t.dev.job = s.dev.job
  BY <1>1, <1>2 DEF ScOnly, ScSame
<1> QED BY <1>1, <1>2, <1>4, <1>5 DEF ScStopAll, t, u

\* Queues that hold nothing are settled.
LEMMA ScCleanSettles ==
  ASSUME NEW s, ScClean(s)
  PROVE  ScSettled(s)
<1>1. ~s.streaming["src"] /\ ~s.streaming["dst"]
  BY DEF ScClean, Sides
<1>2. \A q \in Sides : ~s.reqbufs[q] /\ ~s.qbuf[q]
  BY DEF ScClean
<1> QED BY <1>1, <1>2 DEF ScSettled

\* A control that is set leaves the others alone.
LEMMA ScControlSet ==
  ASSUME NEW k, NEW c \in ScControlNames, NEW v, NEW n, Updated(n, k, c, v),
         k = [protection |-> k.protection, rotation |-> k.rotation, csc |-> k.csc]
  PROVE  /\ n = [protection |-> n.protection, rotation |-> n.rotation, csc |-> n.csc]
         /\ n[c] = v /\ \A b \in ScControlNames : b # c => n[b] = k[b]
<1>1. DOMAIN k = ScControlNames
  BY DEF ScControlNames
<1>2. DOMAIN n = ScControlNames /\ n[c] = v /\ \A b \in ScControlNames : b # c => n[b] = k[b]
  BY <1>1 DEF Updated
<1>3. n = [b \in ScControlNames |-> n[b]]
  BY <1>1 DEF Updated
<1>4. n = [protection |-> n.protection, rotation |-> n.rotation, csc |-> n.csc]
  BY <1>2, <1>3 DEF ScControlNames
<1> QED BY <1>2, <1>4

\* SetCtrl: a fresh control is set when the device is stopped.
LEMMA ScSetsOne ==
  ASSUME NEW s, NEW c \in ScControlNames, NEW v, ScBase(s), v = ScWanted(s.image)[c]
  PROVE  LET t == ScControl(s, c, v) IN
         /\ ScBase(t) /\ ScSame(s, t) /\ t.dev.job = s.dev.job /\ t.fresh = s.fresh
         /\ t = s \/ ScClean(t)
         /\ t.ok => s.ok /\ t.freshControls = s.freshControls \ {c}
<1> DEFINE u == ScStopAll(s)
           d == S_CTRL(u, c, v)
           n == [d EXCEPT !.freshControls = @ \ {c}]
           t == ScControl(s, c, v)
<1>1. CASE ~s.ok \/ c \notin s.freshControls
  <2>1. t = s
    BY <1>1 DEF ScControl
  <2>2. ScSame(s, s)
    BY DEF ScSame
  <2>3. s.ok => s.freshControls = s.freshControls \ {c}
    BY <1>1
  <2> HIDE DEF t
  <2> QED BY <2>1, <2>2, <2>3 DEF t
<1>2. CASE s.ok /\ c \in s.freshControls
  <2>1. t = IF d.ok THEN n ELSE d
    BY <1>2 DEF ScControl
  <2>2. /\ ScBase(u) /\ u.ok /\ ScSame(s, u) /\ u.dev.job = s.dev.job
        /\ u.freshControls = s.freshControls /\ u.fresh = s.fresh /\ ScClean(u)
    BY <1>2, ScStopsAll
  <2> HIDE DEF u
  <2>3. Handle(u) /\ ScShape(u) /\ ScHandle(u)
    BY <2>2 DEF ScBase, ScShape, ScHandle
  <2>4. \/ Undone(u, d) /\ d.refused = u.refused
        \/ /\ Done(u, d) /\ d.dev.job = u.dev.job /\ \A p \in Sides : d.dev[p] = u.dev[p]
           /\ Updated(d.dev.controls, u.dev.controls, c, v)
    <3>1. \/ Undone(u, d) /\ (~u.ok => d = u) /\ d.refused = u.refused
             /\ (u.ok => u.fault = <<"S_CTRL", c>>)
          \/ /\ Done(u, d) /\ u.fault # <<"S_CTRL", c>> /\ d.dev.job = u.dev.job
             /\ \A p \in Sides : d.dev[p] = u.dev[p]
             /\ Updated(d.dev.controls, u.dev.controls, c, v)
      BY <2>3, ControlFacts
    <3> QED BY <3>1
  <2> HIDE DEF d
  <2>5. CASE Undone(u, d) /\ d.refused = u.refused
    <3>1. /\ ScShape(d) /\ ScSame(u, d) /\ d.dev = u.dev /\ ~d.ok
          /\ d.fresh = u.fresh /\ d.reqbufs = u.reqbufs /\ d.qbuf = u.qbuf /\ d.streaming = u.streaming
      BY <2>3, <2>5, ScUndone
    <3>2. ScBase(d)
      BY <2>2, <3>1 DEF ScBase, ScSide, ScSame
    <3>3. ScClean(d) /\ ScSame(s, d)
      BY <2>2, <3>1 DEF ScClean, ScSame
    <3>4. t = d
      BY <2>1, <3>1
    <3> HIDE DEF t
    <3> QED BY <2>2, <3>1, <3>2, <3>3, <3>4 DEF t
  <2>6. CASE /\ Done(u, d) /\ d.dev.job = u.dev.job /\ \A p \in Sides : d.dev[p] = u.dev[p]
             /\ Updated(d.dev.controls, u.dev.controls, c, v)
    <3>1. /\ DOMAIN d = ScFields /\ ScSame(u, d)
          /\ d.fresh = u.fresh /\ d.reqbufs = u.reqbufs /\ d.qbuf = u.qbuf /\ d.streaming = u.streaming
          /\ d.freshControls = u.freshControls
      BY <2>3, <2>6, ScRest DEF Done
    <3>2. /\ DOMAIN n = ScFields /\ ScSame(u, n) /\ n.dev = d.dev /\ n.ok = d.ok
          /\ n.refused = d.refused /\ n.hangs = d.hangs
          /\ n.fresh = u.fresh /\ n.reqbufs = u.reqbufs /\ n.qbuf = u.qbuf /\ n.streaming = u.streaming
          /\ n.freshControls = u.freshControls \ {c}
      BY <3>1 DEF ScFields, ScSame
    <3>3. t = n
      BY <2>1, <2>6 DEF Done
    <3> HIDE DEF n, t
    <3>4. Handle(n)
      BY <2>6, <3>2 DEF Done, Handle, ScFields
    <3>5. /\ n.dev.controls = [protection |-> n.dev.controls.protection,
                               rotation |-> n.dev.controls.rotation, csc |-> n.dev.controls.csc]
          /\ n.dev.controls[c] = v
          /\ \A b \in ScControlNames : b # c => n.dev.controls[b] = u.dev.controls[b]
      <4> DEFINE k == u.dev.controls
      <4>1. k = [protection |-> k.protection, rotation |-> k.rotation, csc |-> k.csc]
        BY <2>3 DEF ScHandle
      <4>2. Updated(n.dev.controls, k, c, v)
        BY <2>6, <3>2
      <4> DEFINE m == n.dev.controls
      <4> HIDE DEF k, m
      <4>3. /\ m = [protection |-> m.protection, rotation |-> m.rotation, csc |-> m.csc]
            /\ m[c] = v /\ \A b \in ScControlNames : b # c => m[b] = k[b]
        BY <4>1, <4>2, ScControlSet DEF m
      <4> QED BY <4>3 DEF k, m
    <3>6. ScHandle(n)
      BY <2>3, <3>2, <3>4, <3>5 DEF ScHandle
    <3>7. \A b \in ScControlNames : b \notin n.freshControls => n.dev.controls[b] = ScWanted(n.image)[b]
      <4>1. n.image = s.image
        BY <2>2, <3>2 DEF ScSame
      <4>2. ASSUME NEW b \in ScControlNames, b \notin n.freshControls
            PROVE  n.dev.controls[b] = ScWanted(n.image)[b]
        <5>1. CASE b = c
          BY <3>5, <4>1, <5>1
        <5>2. CASE b # c
          <6>1. b \notin u.freshControls
            BY <3>2, <4>2, <5>2
          <6>2. u.dev.controls[b] = ScWanted(u.image)[b]
            BY <2>3, <6>1 DEF ScShape
          <6> QED BY <2>2, <3>5, <4>1, <5>2, <6>2 DEF ScSame
        <5> QED BY <5>1, <5>2
      <4> QED BY <4>2
    <3>8. ScShape(n)
      BY <2>3, <2>6, <3>2, <3>6, <3>7 DEF ScShape, ScSame, Done
    <3>9. ASSUME NEW q \in Sides PROVE ScSide(n, q)
      <4>1. ScSide(u, q) /\ n.dev[q] = u.dev[q]
        BY <2>2, <2>6, <3>2 DEF ScBase
      <4> QED BY <3>2, <4>1 DEF ScSide, ScSame
    <3>10. ScSame(s, n) /\ ScClean(n) /\ n.dev.job = s.dev.job
      BY <2>2, <2>6, <3>2 DEF ScSame, ScClean
    <3> QED BY <1>2, <2>2, <3>2, <3>3, <3>8, <3>9, <3>10 DEF ScBase, t
  <2> QED BY <2>4, <2>5, <2>6
<1> QED BY <1>1, <1>2

\* SetCtrl of every control.
LEMMA ScSetsControls ==
  ASSUME NEW s, ScBase(s)
  PROVE  LET t == ScControls(s) IN
         /\ ScBase(t) /\ ScSame(s, t) /\ t.dev.job = s.dev.job /\ t.fresh = s.fresh
         /\ ScSettled(s) => ScSettled(t)
         /\ t.ok => s.ok /\ t.freshControls = {}
<1> DEFINE u == ScControl(s, "protection", s.image.drm)
           w == ScControl(u, "rotation", s.image.rotation)
           t == ScControl(w, "csc", s.image.csc)
<1>0. /\ "protection" \in ScControlNames /\ "rotation" \in ScControlNames /\ "csc" \in ScControlNames
      /\ s.image.drm = ScWanted(s.image)["protection"] /\ s.image.csc = ScWanted(s.image)["csc"]
      /\ s.image.rotation = ScWanted(s.image)["rotation"]
  BY DEF ScControlNames, ScWanted
<1>1. /\ ScBase(u) /\ ScSame(s, u) /\ u.dev.job = s.dev.job /\ u.fresh = s.fresh
      /\ u = s \/ ScClean(u)
      /\ u.ok => s.ok /\ u.freshControls = s.freshControls \ {"protection"}
  BY <1>0, ScSetsOne
<1> HIDE DEF u
<1>2. s.image = u.image
  BY <1>1 DEF ScSame
<1>3. /\ ScBase(w) /\ ScSame(u, w) /\ w.dev.job = u.dev.job /\ w.fresh = u.fresh
      /\ w = u \/ ScClean(w)
      /\ w.ok => u.ok /\ w.freshControls = u.freshControls \ {"rotation"}
  BY <1>0, <1>1, <1>2, ScSetsOne
<1> HIDE DEF w
<1>4. s.image = w.image
  BY <1>2, <1>3 DEF ScSame
<1>5. /\ ScBase(t) /\ ScSame(w, t) /\ t.dev.job = w.dev.job /\ t.fresh = w.fresh
      /\ t = w \/ ScClean(t)
      /\ t.ok => w.ok /\ t.freshControls = w.freshControls \ {"csc"}
  BY <1>0, <1>3, <1>4, ScSetsOne
<1> HIDE DEF t
<1>6. ScControls(s) = t
  BY <1>2, <1>4 DEF ScControls, t, u, w
<1>7. ScSettled(s) => ScSettled(t)
  BY <1>1, <1>3, <1>5, ScCleanSettles
<1>8. t.ok => s.ok /\ t.freshControls = {}
  BY <1>1, <1>3, <1>5 DEF ScBase, ScShape, ScHandle, ScControlNames
<1> QED BY <1>1, <1>3, <1>5, <1>6, <1>7, <1>8 DEF ScSame

\* DevSetFormat of a frame.
LEMMA ScSetsFormat ==
  ASSUME NEW s, NEW q \in Sides, ScBase(s)
  PROVE  LET t == ScFormat(s, q) IN
         /\ ScBase(t) /\ ScOnly(s, t, q) /\ t.freshControls = s.freshControls
         /\ ~s.ok \/ ~s.fresh[q] => t = s
         /\ s.ok /\ s.fresh[q] => ~t.streaming[q] /\ ~t.reqbufs[q] /\ ~t.qbuf[q]
         /\ t.ok => s.ok /\ ~t.fresh[q]
<1> DEFINE u == ScReset(s, q)
           d == S_FMT(u, q, s.image.format)
           n == [d EXCEPT !.fresh[q] = FALSE]
           t == ScFormat(s, q)
<1>1. CASE ~s.ok \/ ~s.fresh[q]
  <2>1. t = s
    BY <1>1 DEF ScFormat
  <2>2. ScOnly(s, s, q)
    BY DEF ScOnly, ScSame, ScSideSame
  <2> HIDE DEF t
  <2> QED BY <1>1, <2>1, <2>2 DEF t
<1>2. CASE s.ok /\ s.fresh[q]
  <2>1. t = IF d.ok THEN n ELSE d
    BY <1>2 DEF ScFormat
  <2>2. /\ ScBase(u) /\ u.ok /\ ScOnly(s, u, q)
        /\ u.freshControls = s.freshControls /\ u.fresh = s.fresh
        /\ ~u.streaming[q] /\ ~u.reqbufs[q] /\ ~u.qbuf[q]
    BY <1>2, ScResets
  <2> HIDE DEF u
  <2>3. Handle(u) /\ ScShape(u) /\ ScSide(u, q) /\ ~u.dev[q].on
    BY <2>2 DEF ScBase, ScShape, ScHandle, ScSide
  <2>4. \/ Undone(u, d) /\ d.refused = u.refused
        \/ /\ Done(u, d) /\ d.dev.job = u.dev.job /\ d.dev.controls = u.dev.controls
           /\ \A p \in Sides : p # q => d.dev[p] = u.dev[p]
           /\ d.dev[q].format = s.image.format /\ d.dev[q].held = u.dev[q].held
           /\ d.dev[q].on = u.dev[q].on /\ d.dev[q].allocated = u.dev[q].allocated
    BY <2>3, FormatFacts
  <2> HIDE DEF d
  <2>5. CASE Undone(u, d) /\ d.refused = u.refused
    <3>1. /\ ScShape(d) /\ ScSame(u, d) /\ d.dev = u.dev /\ ~d.ok
          /\ d.fresh = u.fresh /\ d.reqbufs = u.reqbufs /\ d.qbuf = u.qbuf /\ d.streaming = u.streaming
          /\ d.freshControls = u.freshControls
      BY <2>3, <2>5, ScUndone
    <3>2. ScBase(d)
      BY <2>2, <3>1 DEF ScBase, ScSide, ScSame
    <3>3. ScOnly(s, d, q)
      BY <2>2, <3>1 DEF ScOnly, ScSame, ScSideSame
    <3>4. t = d
      BY <2>1, <3>1
    <3> HIDE DEF t
    <3> QED BY <1>2, <2>2, <3>1, <3>2, <3>3, <3>4 DEF t
  <2>6. CASE /\ Done(u, d) /\ d.dev.job = u.dev.job /\ d.dev.controls = u.dev.controls
             /\ \A p \in Sides : p # q => d.dev[p] = u.dev[p]
             /\ d.dev[q].format = s.image.format /\ d.dev[q].held = u.dev[q].held
             /\ d.dev[q].on = u.dev[q].on /\ d.dev[q].allocated = u.dev[q].allocated
    <3>1. /\ ScShape(d) /\ ScSame(u, d) /\ d.ok
          /\ d.fresh = u.fresh /\ d.reqbufs = u.reqbufs /\ d.qbuf = u.qbuf /\ d.streaming = u.streaming
          /\ d.freshControls = u.freshControls
      BY <2>3, <2>6, ScDone
    <3>2. /\ ScShape(n) /\ ScSame(d, n) /\ n.dev = d.dev /\ n.ok = d.ok
          /\ n.reqbufs = d.reqbufs /\ n.qbuf = d.qbuf /\ n.streaming = d.streaming
          /\ n.freshControls = d.freshControls
          /\ ~n.fresh[q] /\ \A p \in Sides : p # q => n.fresh[p] = d.fresh[p]
      <4>1. ScShape(d)
        BY <3>1
      <4> QED BY <4>1, ScFreshOff
    <3>3. t = n
      BY <2>1, <3>1
    <3> HIDE DEF n, t
    <3>4. ScOnly(s, n, q)
      BY <2>2, <2>6, <3>1, <3>2 DEF ScOnly, ScSame, ScSideSame
    <3>5. ScSide(n, q)
      BY <2>2, <2>3, <2>6, <3>1, <3>2, <3>4 DEF ScSide, ScOnly, ScSame
    <3>6. ScBase(n)
      BY <3>2, <3>4, <3>5, ScOnlyBase
    <3> QED BY <1>2, <2>2, <3>1, <3>2, <3>3, <3>4, <3>6 DEF t
  <2> QED BY <2>4, <2>5, <2>6
<1> QED BY <1>1, <1>2 DEF ScBase, ScShape, ScHandle

\* SetFormat of both frames.
LEMMA ScSetsFormats ==
  ASSUME NEW s, ScBase(s), s.ok => ScSettled(s) \/ (s.fresh.src /\ s.fresh.dst)
  PROVE  LET t == ScFormat(ScFormat(s, "src"), "dst") IN
         /\ ScBase(t) /\ ScSame(s, t) /\ t.dev.job = s.dev.job
         /\ t.freshControls = s.freshControls
         /\ t.ok => s.ok /\ ScSettled(t) /\ \A q \in Sides : ~t.fresh[q]
<1> DEFINE u == ScFormat(s, "src")
           t == ScFormat(u, "dst")
<1>0. "src" \in Sides /\ "dst" \in Sides /\ "src" # "dst"
  BY DEF Sides
<1>1. /\ ScBase(u) /\ ScOnly(s, u, "src") /\ u.freshControls = s.freshControls
      /\ ~s.ok \/ ~s.fresh["src"] => u = s
      /\ s.ok /\ s.fresh["src"] => ~u.streaming["src"] /\ ~u.reqbufs["src"] /\ ~u.qbuf["src"]
      /\ u.ok => s.ok /\ ~u.fresh["src"]
  BY <1>0, ScSetsFormat
<1> HIDE DEF u
<1>2. /\ ScBase(t) /\ ScOnly(u, t, "dst") /\ t.freshControls = u.freshControls
      /\ ~u.ok \/ ~u.fresh["dst"] => t = u
      /\ u.ok /\ u.fresh["dst"] => ~t.streaming["dst"] /\ ~t.reqbufs["dst"] /\ ~t.qbuf["dst"]
      /\ t.ok => u.ok /\ ~t.fresh["dst"]
  BY <1>0, <1>1, ScSetsFormat
<1> HIDE DEF t
<1>3. ScSame(s, t) /\ t.dev.job = s.dev.job /\ t.freshControls = s.freshControls
  BY <1>1, <1>2 DEF ScOnly, ScSame
<1>4. ScSideSame(s, u, "dst") /\ ScSideSame(u, t, "src")
  BY <1>0, <1>1, <1>2 DEF ScOnly
<1>5. ASSUME t.ok PROVE s.ok /\ ScSettled(t) /\ \A q \in Sides : ~t.fresh[q]
  <2>1. s.ok /\ u.ok /\ ~t.fresh["src"] /\ ~t.fresh["dst"]
    BY <1>1, <1>2, <1>4, <1>5 DEF ScSideSame
  <2>2. \A q \in Sides : ~t.fresh[q]
    BY <2>1 DEF Sides
  <2>3. CASE s.fresh.src /\ s.fresh.dst
    <3>1. ~t.streaming["src"] /\ ~t.reqbufs["src"] /\ ~t.qbuf["src"]
      BY <1>1, <1>4, <2>1, <2>3 DEF ScSideSame
    <3>2. ~t.streaming["dst"] /\ ~t.reqbufs["dst"] /\ ~t.qbuf["dst"]
      BY <1>2, <1>4, <2>1, <2>3 DEF ScSideSame
    <3>3. ScClean(t)
      BY <3>1, <3>2 DEF ScClean, Sides
    <3> QED BY <2>1, <2>2, <3>3, ScCleanSettles
  <2>4. CASE ScSettled(s)
    <3>1. ScSettled(u)
      <4>1. CASE ~s.fresh["src"]
        BY <1>1, <2>4, <4>1
      <4>2. CASE s.fresh["src"]
        <5>1. ~s.streaming.src /\ ~s.streaming.dst
          BY <1>0, <2>4, <4>2 DEF ScSettled
        <5>2. ~u.streaming["src"] /\ ~u.reqbufs["src"] /\ ~u.qbuf["src"] /\ ~u.streaming["dst"]
          BY <1>1, <1>4, <2>1, <4>2, <5>1 DEF ScSideSame
        <5>3. ~u.qbuf["dst"] /\ (u.reqbufs["dst"] => u.dev["dst"].held = "no")
          BY <1>0, <1>4, <2>4, <5>1 DEF ScSideSame, ScSettled
        <5>4. ASSUME NEW q \in Sides
              PROVE  /\ u.reqbufs[q] /\ u.dev[q].held # "no" => u.qbuf[q]
                     /\ u.qbuf[q] => u.streaming[q]
                     /\ u.fresh[q] => ~u.streaming.src /\ ~u.streaming.dst
          BY <5>2, <5>3 DEF Sides
        <5> QED BY <5>2, <5>4 DEF ScSettled
      <4> QED BY <4>1, <4>2
    <3>2. ScSettled(t)
      <4>1. CASE ~u.fresh["dst"]
        BY <1>2, <3>1, <4>1
      <4>2. CASE u.fresh["dst"]
        <5>1. ~u.streaming.src /\ ~u.streaming.dst
          BY <1>0, <3>1, <4>2 DEF ScSettled
        <5>2. ~t.streaming["dst"] /\ ~t.reqbufs["dst"] /\ ~t.qbuf["dst"] /\ ~t.streaming["src"]
          BY <1>2, <1>4, <2>1, <4>2, <5>1 DEF ScSideSame
        <5>3. ~t.qbuf["src"] /\ (t.reqbufs["src"] => t.dev["src"].held = "no")
          BY <1>0, <1>4, <3>1, <5>1 DEF ScSideSame, ScSettled
        <5>4. ASSUME NEW q \in Sides
              PROVE  /\ t.reqbufs[q] /\ t.dev[q].held # "no" => t.qbuf[q]
                     /\ t.qbuf[q] => t.streaming[q]
                     /\ t.fresh[q] => ~t.streaming.src /\ ~t.streaming.dst
          BY <5>2, <5>3 DEF Sides
        <5> QED BY <5>2, <5>4 DEF ScSettled
      <4> QED BY <4>1, <4>2
    <3> QED BY <2>1, <2>2, <3>2
  <2> QED BY <2>1, <2>3, <2>4
<1> QED BY <1>2, <1>3, <1>5 DEF t, u

\* ReqBufs of a frame.
LEMMA ScRequests ==
  ASSUME NEW s, NEW q \in Sides, ScBase(s), s.ok => ScSettled(s)
  PROVE  LET t == ScReqBufs(s, q) IN
         /\ ScBase(t) /\ ScOnly(s, t, q) /\ t.freshControls = s.freshControls /\ t.fresh = s.fresh
         /\ t.ok => s.ok /\ ScSettled(t) /\ t.reqbufs[q]
<1> DEFINE d == REQBUFS(s, q)
           n == [d EXCEPT !.reqbufs[q] = TRUE]
           t == ScReqBufs(s, q)
<1>1. CASE ~s.ok \/ s.reqbufs[q]
  <2>1. t = s
    BY <1>1 DEF ScReqBufs
  <2>2. ScOnly(s, s, q)
    BY DEF ScOnly, ScSame, ScSideSame
  <2> HIDE DEF t
  <2> QED BY <1>1, <2>1, <2>2 DEF t
<1>2. CASE s.ok /\ ~s.reqbufs[q]
  <2>1. t = IF d.ok THEN n ELSE d
    BY <1>2 DEF ScReqBufs
  <2>3. /\ Handle(s) /\ ScShape(s) /\ ScSide(s, q) /\ ~s.dev[q].on /\ ~s.streaming[q]
        /\ ScSettled(s)
    BY <1>2 DEF ScBase, ScShape, ScHandle, ScSide
  <2>4. \/ Undone(s, d) /\ d.refused = s.refused
        \/ /\ Done(s, d) /\ d.dev.job = s.dev.job /\ d.dev.controls = s.dev.controls
           /\ \A p \in Sides : p # q => d.dev[p] = s.dev[p]
           /\ d.dev[q].format = s.dev[q].format /\ d.dev[q].held = "no"
           /\ d.dev[q].on = s.dev[q].on /\ d.dev[q].allocated
    BY <2>3, RequestFacts
  <2> HIDE DEF d
  <2>5. CASE Undone(s, d) /\ d.refused = s.refused
    <3>1. /\ ScShape(d) /\ ScSame(s, d) /\ d.dev = s.dev /\ ~d.ok
          /\ d.fresh = s.fresh /\ d.reqbufs = s.reqbufs /\ d.qbuf = s.qbuf /\ d.streaming = s.streaming
          /\ d.freshControls = s.freshControls
      BY <2>3, <2>5, ScUndone
    <3>2. ScOnly(s, d, q)
      BY <3>1 DEF ScOnly, ScSame, ScSideSame
    <3>3. ScSide(d, q)
      BY <2>3, <3>1 DEF ScSide, ScSame
    <3>4. t = d
      BY <2>1, <3>1
    <3>5. ScBase(d)
      BY <3>1, <3>2, <3>3, ScOnlyBase
    <3> HIDE DEF t
    <3> QED BY <3>1, <3>2, <3>4, <3>5 DEF t
  <2>6. CASE /\ Done(s, d) /\ d.dev.job = s.dev.job /\ d.dev.controls = s.dev.controls
             /\ \A p \in Sides : p # q => d.dev[p] = s.dev[p]
             /\ d.dev[q].format = s.dev[q].format /\ d.dev[q].held = "no"
             /\ d.dev[q].on = s.dev[q].on /\ d.dev[q].allocated
    <3>1. /\ ScShape(d) /\ ScSame(s, d) /\ d.ok
          /\ d.fresh = s.fresh /\ d.reqbufs = s.reqbufs /\ d.qbuf = s.qbuf /\ d.streaming = s.streaming
          /\ d.freshControls = s.freshControls
      BY <2>3, <2>6, ScDone
    <3>2. /\ ScShape(n) /\ ScSame(d, n) /\ n.dev = d.dev /\ n.ok = d.ok
          /\ n.fresh = d.fresh /\ n.qbuf = d.qbuf /\ n.streaming = d.streaming
          /\ n.freshControls = d.freshControls
          /\ n.reqbufs[q] /\ \A p \in Sides : p # q => n.reqbufs[p] = d.reqbufs[p]
      <4>1. ScShape(d)
        BY <3>1
      <4> QED BY <4>1, ScReqbufsOn
    <3>3. t = n
      BY <2>1, <3>1
    <3> HIDE DEF n, t
    <3>4. ScOnly(s, n, q)
      BY <2>6, <3>1, <3>2 DEF ScOnly, ScSame, ScSideSame
    <3>5. ScSide(n, q)
      BY <2>3, <2>6, <3>1, <3>2 DEF ScSide, ScSame
    <3>6. ScBase(n)
      BY <3>2, <3>4, <3>5, ScOnlyBase
    <3>7. ScSettled(n)
      <4>1. ASSUME NEW p \in Sides
            PROVE  /\ n.reqbufs[p] /\ n.dev[p].held # "no" => n.qbuf[p]
                   /\ n.qbuf[p] => n.streaming[p]
                   /\ n.fresh[p] => ~n.streaming.src /\ ~n.streaming.dst
        <5>1. /\ n.qbuf[p] => n.streaming[p]
              /\ n.fresh[p] => ~n.streaming.src /\ ~n.streaming.dst
          BY <2>3, <3>1, <3>2 DEF ScSettled
        <5>2. CASE p = q
          BY <2>6, <3>2, <5>1, <5>2
        <5>3. CASE p # q
          BY <2>3, <2>6, <3>1, <3>2, <5>1, <5>3 DEF ScSettled
        <5> QED BY <5>2, <5>3
      <4> QED BY <2>3, <3>1, <3>2, <4>1 DEF ScSettled
    <3> QED BY <1>2, <3>1, <3>2, <3>3, <3>4, <3>6, <3>7 DEF t
  <2> QED BY <2>4, <2>5, <2>6
<1> QED BY <1>1, <1>2 DEF ScBase, ScShape, ScHandle

\* Everything is set and both sides have a buffer.
ScReady(s) ==
  /\ ScBase(s) /\ ScSettled(s) /\ s.freshControls = {}
  /\ \A q \in Sides : ~s.fresh[q] /\ s.reqbufs[q]

\* What comes before the buffers of a run.
LEMMA ScPrepares ==
  ASSUME NEW s, ScBase(s), ScSettled(s) \/ (s.fresh.src /\ s.fresh.dst)
  PROVE  LET t == ScPrepared(s) IN
         ScBase(t) /\ ScSame(s, t) /\ t.dev.job = s.dev.job /\ (t.ok => ScReady(t))
<1> DEFINE c == ScControls(s)
           f == ScFormat(ScFormat(c, "src"), "dst")
           r == ScReqBufs(f, "src")
           t == ScReqBufs(r, "dst")
<1>0. "src" \in Sides /\ "dst" \in Sides /\ "src" # "dst"
  BY DEF Sides
<1>1. /\ ScBase(c) /\ ScSame(s, c) /\ c.dev.job = s.dev.job /\ c.fresh = s.fresh
      /\ ScSettled(s) => ScSettled(c)
      /\ c.ok => s.ok /\ c.freshControls = {}
  BY ScSetsControls
<1> HIDE DEF c
<1>2. /\ ScBase(f) /\ ScSame(c, f) /\ f.dev.job = c.dev.job
      /\ f.freshControls = c.freshControls
      /\ f.ok => c.ok /\ ScSettled(f) /\ \A q \in Sides : ~f.fresh[q]
  BY <1>1, ScSetsFormats
<1> HIDE DEF f
<1>3. /\ ScBase(r) /\ ScOnly(f, r, "src") /\ r.freshControls = f.freshControls /\ r.fresh = f.fresh
      /\ r.ok => f.ok /\ ScSettled(r) /\ r.reqbufs["src"]
  BY <1>0, <1>2, ScRequests
<1> HIDE DEF r
<1>4. /\ ScBase(t) /\ ScOnly(r, t, "dst") /\ t.freshControls = r.freshControls /\ t.fresh = r.fresh
      /\ t.ok => r.ok /\ ScSettled(t) /\ t.reqbufs["dst"]
  BY <1>0, <1>3, ScRequests
<1> HIDE DEF t
<1>5. ScSame(s, t) /\ t.dev.job = s.dev.job
  BY <1>1, <1>2, <1>3, <1>4 DEF ScOnly, ScSame
<1>6. ASSUME t.ok PROVE ScReady(t)
  <2>1. t.reqbufs["src"] /\ t.reqbufs["dst"]
    BY <1>0, <1>3, <1>4, <1>6 DEF ScOnly, ScSideSame
  <2>2. \A q \in Sides : t.reqbufs[q]
    BY <2>1 DEF Sides
  <2>3. \A q \in Sides : ~t.fresh[q]
    BY <1>2, <1>3, <1>4, <1>6
  <2> QED BY <1>1, <1>2, <1>3, <1>4, <1>6, <2>2, <2>3 DEF ScReady
<1>7. ScPrepared(s) = t
  BY DEF ScPrepared, t, r, f, c
<1> QED BY <1>4, <1>5, <1>6, <1>7

\* QBuf of a frame: its buffer is taken back first, and goes to the driver.
LEMMA ScEnqueues ==
  ASSUME NEW s, NEW q \in Sides, NEW p \in Sides, p # q, ScShape(s), ScSide(s, q), s.ok, s.reqbufs[q],
         s.qbuf[q] => s.streaming[q], s.dev[q].held # "no" => s.qbuf[q]
  PROVE  LET t == ScQBuf(s, q)
             runs == s.dev[q].on /\ s.dev[p].on /\ s.dev[p].held = "queued"
         IN
         /\ ScShape(t) /\ ScSame(s, t) /\ t.fresh = s.fresh /\ t.reqbufs = s.reqbufs
         /\ t.streaming = s.streaming /\ t.freshControls = s.freshControls
         /\ t.dev.controls = s.dev.controls
         /\ t.qbuf[p] = s.qbuf[p] /\ SameQueue(s, t, p) /\ SameQueue(s, t, q)
         /\ \/ ~t.ok /\ ~t.qbuf[q] /\ t.dev[p] = s.dev[p] /\ t.dev.job = s.dev.job
            \/ /\ t.ok /\ t.qbuf[q]
               /\ runs => /\ t.dev[q].held = "done" /\ t.dev[p].held = "done"
                          /\ t.dev.job = JobOf(s.dev)
               /\ ~runs => /\ t.dev[q].held = "queued" /\ t.dev[p].held = s.dev[p].held
                           /\ t.dev.job = s.dev.job
<1> DEFINE d == ScDQBuf(s, q)
           e == QBUF(d, q)
           n == [e EXCEPT !.qbuf[q] = TRUE]
           t == ScQBuf(s, q)
           runs == s.dev[q].on /\ s.dev[p].on /\ s.dev[p].held = "queued"
<1>1. t = IF e.ok THEN n ELSE e
  BY DEF ScQBuf
<1>2. /\ ScShape(d) /\ ScSide(d, q) /\ ScOnly(s, d, q) /\ d.dev.controls = s.dev.controls
      /\ d.freshControls = s.freshControls /\ d.fresh = s.fresh
      /\ d.streaming = s.streaming /\ d.reqbufs = s.reqbufs
      /\ SameQueue(s, d, q)
      /\ ~s.ok \/ ~s.qbuf[q] => d = s
      /\ s.ok => ~d.qbuf[q]
      /\ s.ok /\ s.qbuf[q] /\ s.dev[q].on => d.ok /\ d.dev[q].held = "no"
  BY ScDequeuesOne
<1> HIDE DEF d
<1>3. d.ok /\ d.dev[q].held = "no" /\ ~d.qbuf[q]
  BY <1>2 DEF ScSide
<1>4. /\ ScSame(s, d) /\ d.dev.job = s.dev.job /\ d.dev[p] = s.dev[p] /\ d.qbuf[p] = s.qbuf[p]
  BY <1>2 DEF ScOnly, ScSideSame
<1>5. Handle(d) /\ d.dev[q].allocated
  BY <1>2 DEF ScShape, ScHandle, ScSide
<1>6. JobOf(d.dev) = JobOf(s.dev)
  <2>1. \A r \in Sides : d.dev[r].format = s.dev[r].format
    <3>1. \A r \in Sides : r = p \/ r = q
      BY DEF Sides
    <3> QED BY <1>2, <1>4, <3>1 DEF SameQueue
  <2> QED BY <1>2, <2>1 DEF JobOf, Sides
<1> DEFINE ran == \A r \in Sides : d.dev[r].on /\ (r = q \/ d.dev[r].held = "queued")
<1>7. ran <=> runs
  <2>1. \A r \in Sides : r = p \/ r = q
    BY DEF Sides
  <2>2. d.dev[q].on = s.dev[q].on
    BY <1>2 DEF SameQueue
  <2> QED BY <1>4, <2>1, <2>2
<1>8. \/ /\ Undone(d, e) /\ (~d.ok => e = d)
         /\ d.ok => d.fault = <<"QBUF", q>> \/ ~(d.dev[q].allocated /\ d.dev[q].held = "no")
         /\ e.refused = d.refused \/ ~(d.dev[q].allocated /\ d.dev[q].held = "no")
      \/ /\ Done(d, e) /\ d.fault # <<"QBUF", q>> /\ d.dev[q].allocated /\ d.dev[q].held = "no"
         /\ e.dev.controls = d.dev.controls
         /\ \A r \in Sides : SameQueue(d, e, r)
         /\ ran => (\A r \in Sides : e.dev[r].held = "done") /\ e.dev.job = JobOf(d.dev)
         /\ ~ran => /\ e.dev[q].held = "queued" /\ e.dev.job = d.dev.job
                    /\ \A r \in Sides : r # q => e.dev[r].held = d.dev[r].held
  BY <1>5, EnqueueFacts
<1> HIDE DEF e, ran, runs
<1>9. CASE Undone(d, e) /\ e.refused = d.refused
  <2>1. /\ ScShape(e) /\ ScSame(d, e) /\ e.dev = d.dev /\ ~e.ok
        /\ e.fresh = d.fresh /\ e.reqbufs = d.reqbufs /\ e.qbuf = d.qbuf /\ e.streaming = d.streaming
        /\ e.freshControls = d.freshControls
    BY <1>2, <1>9, ScUndone
  <2>2. t = e
    BY <1>1, <2>1
  <2> HIDE DEF t
  <2>3. SameQueue(s, e, p) /\ SameQueue(s, e, q) /\ ScSame(s, e)
    BY <1>2, <1>4, <2>1 DEF SameQueue, ScSame
  <2> QED BY <1>2, <1>3, <1>4, <2>1, <2>2, <2>3 DEF t
<1>10. CASE /\ Done(d, e) /\ e.dev.controls = d.dev.controls
            /\ \A r \in Sides : SameQueue(d, e, r)
            /\ ran => (\A r \in Sides : e.dev[r].held = "done") /\ e.dev.job = JobOf(d.dev)
            /\ ~ran => /\ e.dev[q].held = "queued" /\ e.dev.job = d.dev.job
                       /\ \A r \in Sides : r # q => e.dev[r].held = d.dev[r].held
  <2>1. /\ ScShape(e) /\ ScSame(d, e) /\ e.ok
        /\ e.fresh = d.fresh /\ e.reqbufs = d.reqbufs /\ e.qbuf = d.qbuf /\ e.streaming = d.streaming
        /\ e.freshControls = d.freshControls
    BY <1>2, <1>10, ScDone
  <2>2. /\ ScShape(n) /\ ScSame(e, n) /\ n.dev = e.dev /\ n.ok = e.ok
        /\ n.fresh = e.fresh /\ n.reqbufs = e.reqbufs /\ n.streaming = e.streaming
        /\ n.freshControls = e.freshControls
        /\ n.qbuf[q] /\ \A r \in Sides : r # q => n.qbuf[r] = e.qbuf[r]
    <3>1. ScShape(e)
      BY <2>1
    <3> QED BY <3>1, ScQbufOn
  <2>3. t = n
    BY <1>1, <2>1
  <2> HIDE DEF n, t
  <2>4. SameQueue(s, n, p) /\ SameQueue(s, n, q) /\ ScSame(s, n) /\ n.qbuf[p] = s.qbuf[p]
    BY <1>2, <1>4, <1>10, <2>1, <2>2 DEF SameQueue, ScSame
  <2>5. runs => n.dev[q].held = "done" /\ n.dev[p].held = "done" /\ n.dev.job = JobOf(s.dev)
    BY <1>6, <1>7, <1>10, <2>2
  <2>6. ~runs => /\ n.dev[q].held = "queued" /\ n.dev[p].held = s.dev[p].held
                 /\ n.dev.job = s.dev.job
    BY <1>4, <1>7, <1>10, <2>2
  <2> QED BY <1>2, <1>10, <2>1, <2>2, <2>3, <2>4, <2>5, <2>6 DEF t, runs
<1> QED BY <1>3, <1>5, <1>8, <1>9, <1>10

\* The job that would be done now is the one that is configured.
LEMMA ScOrders ==
  ASSUME NEW s, ScReady(s)
  PROVE  ScJobFits(JobOf(s.dev), s.image)
<1>1. \A q \in Sides : s.dev[q].format = s.image.format
  BY DEF ScReady, ScBase, ScSide
<1>2. \A c \in ScControlNames : s.dev.controls[c] = ScWanted(s.image)[c]
  BY DEF ScReady, ScBase, ScShape
<1>3. /\ s.dev.controls.protection = s.image.drm /\ s.dev.controls.rotation = s.image.rotation
      /\ s.dev.controls.csc = s.image.csc
  BY <1>2 DEF ScControlNames, ScWanted
<1>4. s.dev.controls = [protection |-> s.dev.controls.protection,
                        rotation |-> s.dev.controls.rotation, csc |-> s.dev.controls.csc]
  BY DEF ScReady, ScBase, ScShape, ScHandle
<1>5. s.dev.controls = ScWanted(s.image)
  BY <1>3, <1>4 DEF ScWanted
<1> QED BY <1>1, <1>5 DEF ScJobFits, JobOf, Sides

(* Both buffers are queued, or none counts as queued.                      *)
LEMMA ScEnqueuesAll ==
  ASSUME NEW s, ScReady(s), s.ok
  PROVE  LET t == ScQBufs(s) IN
         /\ ScShape(t) /\ ScSame(s, t) /\ t.fresh = s.fresh /\ t.reqbufs = s.reqbufs
         /\ t.streaming = s.streaming /\ t.freshControls = s.freshControls
         /\ t.dev.controls = s.dev.controls
         /\ \A q \in Sides : SameQueue(s, t, q)
         /\ \/ ~t.ok /\ ScBase(t) /\ t.dev.job = s.dev.job
            \/ /\ t.ok /\ \A q \in Sides : t.qbuf[q]
               /\ s.streaming.src => /\ \A q \in Sides : t.dev[q].held = "done"
                                     /\ t.dev.job = JobOf(s.dev)
               /\ ~s.streaming.src => /\ \A q \in Sides : t.dev[q].held = "queued"
                                      /\ t.dev.job = s.dev.job
<1> DEFINE b == ScQBuf(s, "src")
           c == ScQBuf(b, "dst")
           n == [c EXCEPT !.qbuf["src"] = FALSE]
           t == ScQBufs(s)
<1>0. "src" \in Sides /\ "dst" \in Sides /\ "src" # "dst"
  BY DEF Sides
<1>1. t = IF b.ok /\ ~c.ok THEN n ELSE c
  BY DEF ScQBufs
<1>2. /\ ScShape(s) /\ ScSide(s, "src") /\ ScSide(s, "dst") /\ ScSettled(s)
      /\ s.reqbufs["src"] /\ s.reqbufs["dst"]
  BY <1>0 DEF ScReady, ScBase
<1>3. /\ s.qbuf["src"] => s.streaming["src"]
      /\ s.dev["src"].held # "no" => s.qbuf["src"]
      /\ s.qbuf["dst"] => s.streaming["dst"]
      /\ s.dev["dst"].held # "no" => s.qbuf["dst"]
      /\ s.streaming["src"] <=> s.streaming["dst"]
  BY <1>0, <1>2 DEF ScSettled
<1>4. ~(s.dev["src"].on /\ s.dev["dst"].on /\ s.dev["dst"].held = "queued")
  BY <1>2, <1>3 DEF ScSide
<1>5. /\ ScShape(b) /\ ScSame(s, b) /\ b.fresh = s.fresh /\ b.reqbufs = s.reqbufs
      /\ b.streaming = s.streaming /\ b.freshControls = s.freshControls
      /\ b.dev.controls = s.dev.controls
      /\ b.qbuf["dst"] = s.qbuf["dst"] /\ SameQueue(s, b, "dst") /\ SameQueue(s, b, "src")
      /\ \/ ~b.ok /\ ~b.qbuf["src"] /\ b.dev["dst"] = s.dev["dst"] /\ b.dev.job = s.dev.job
         \/ /\ b.ok /\ b.qbuf["src"] /\ b.dev["src"].held = "queued"
            /\ b.dev["dst"].held = s.dev["dst"].held /\ b.dev.job = s.dev.job
  BY <1>0, <1>2, <1>3, <1>4, ScEnqueues
<1> HIDE DEF b
<1>6. CASE ~b.ok
  <2>1. c = b
    BY <1>6 DEF ScQBuf
  <2>2. t = c
    BY <1>1, <1>6
  <2> HIDE DEF c, t
  <2>3. ~b.qbuf["src"] /\ b.dev["dst"] = s.dev["dst"] /\ b.dev.job = s.dev.job
    BY <1>5, <1>6
  <2>4. ScSide(b, "src")
    BY <1>2, <1>5, <2>3 DEF ScSide, ScSame, SameQueue
  <2>5. ScSide(b, "dst")
    BY <1>2, <1>5, <2>3 DEF ScSide, ScSame
  <2>6. ScBase(b) /\ \A q \in Sides : SameQueue(s, b, q)
    BY <1>5, <2>4, <2>5 DEF ScBase, Sides
  <2> QED BY <1>5, <1>6, <2>1, <2>2, <2>3, <2>6 DEF t
<1>7. CASE b.ok
  <2>1. /\ b.qbuf["src"] /\ b.dev["src"].held = "queued"
        /\ b.dev["dst"].held = s.dev["dst"].held /\ b.dev.job = s.dev.job
    BY <1>5, <1>7
  <2>2. ScSide(b, "dst")
    BY <1>2, <1>5, <2>1 DEF ScSide, ScSame, SameQueue
  <2>3. /\ b.qbuf["dst"] => b.streaming["dst"]
        /\ b.dev["dst"].held # "no" => b.qbuf["dst"]
        /\ b.reqbufs["dst"]
    BY <1>2, <1>3, <1>5, <2>1
  <2> DEFINE runs == b.dev["dst"].on /\ b.dev["src"].on /\ b.dev["src"].held = "queued"
  <2>4. /\ ScShape(c) /\ ScSame(b, c) /\ c.fresh = b.fresh /\ c.reqbufs = b.reqbufs
        /\ c.streaming = b.streaming /\ c.freshControls = b.freshControls
        /\ c.dev.controls = b.dev.controls
        /\ c.qbuf["src"] = b.qbuf["src"] /\ SameQueue(b, c, "src") /\ SameQueue(b, c, "dst")
        /\ \/ ~c.ok /\ ~c.qbuf["dst"] /\ c.dev["src"] = b.dev["src"] /\ c.dev.job = b.dev.job
           \/ /\ c.ok /\ c.qbuf["dst"]
              /\ runs => /\ c.dev["dst"].held = "done" /\ c.dev["src"].held = "done"
                         /\ c.dev.job = JobOf(b.dev)
              /\ ~runs => /\ c.dev["dst"].held = "queued" /\ c.dev["src"].held = b.dev["src"].held
                          /\ c.dev.job = b.dev.job
    BY <1>0, <1>5, <1>7, <2>2, <2>3, ScEnqueues
  <2>5. runs <=> s.streaming["src"]
    BY <1>2, <1>3, <1>5, <2>1 DEF ScSide, SameQueue
  <2>6. JobOf(b.dev) = JobOf(s.dev)
    BY <1>5 DEF JobOf, SameQueue
  <2> HIDE DEF c, runs
  <2>7. SameQueue(s, c, "src") /\ SameQueue(s, c, "dst") /\ ScSame(s, c)
    BY <1>5, <2>4 DEF SameQueue, ScSame
  <2>8. CASE c.ok
    <3>1. t = c
      BY <1>1, <2>8
    <3> HIDE DEF t
    <3>2. \A q \in Sides : c.qbuf[q] /\ SameQueue(s, c, q)
      BY <2>1, <2>4, <2>7, <2>8 DEF Sides
    <3>3. s.streaming.src => /\ \A q \in Sides : c.dev[q].held = "done"
                             /\ c.dev.job = JobOf(s.dev)
      BY <2>4, <2>5, <2>6, <2>8 DEF Sides
    <3>4. ~s.streaming.src => /\ \A q \in Sides : c.dev[q].held = "queued"
                              /\ c.dev.job = s.dev.job
      BY <2>1, <2>4, <2>5, <2>8 DEF Sides
    <3> QED BY <1>5, <2>4, <2>7, <2>8, <3>1, <3>2, <3>3, <3>4 DEF t
  <2>9. CASE ~c.ok
    <3>1. t = n
      BY <1>1, <1>7, <2>9
    <3>2. /\ ScShape(n) /\ ScSame(c, n) /\ n.dev = c.dev /\ n.ok = c.ok
          /\ n.fresh = c.fresh /\ n.reqbufs = c.reqbufs /\ n.streaming = c.streaming
          /\ n.freshControls = c.freshControls
          /\ ~n.qbuf["src"] /\ \A r \in Sides : r # "src" => n.qbuf[r] = c.qbuf[r]
      <4>1. PICK side : side = "src"
        OBVIOUS
      <4>2. ScShape(c) /\ side \in Sides
        BY <1>0, <2>4, <4>1
      <4>3. n = [c EXCEPT !.qbuf[side] = FALSE]
        BY <4>1
      <4>4. /\ ScShape(n) /\ ScSame(c, n) /\ n.dev = c.dev /\ n.ok = c.ok
            /\ n.fresh = c.fresh /\ n.reqbufs = c.reqbufs /\ n.streaming = c.streaming
            /\ n.freshControls = c.freshControls
            /\ ~n.qbuf[side] /\ \A r \in Sides : r # side => n.qbuf[r] = c.qbuf[r]
        BY <4>1, <4>2, ScQbufOff
      <4> QED BY <4>1, <4>4
    <3> HIDE DEF n, t
    <3>3. ~n.qbuf["dst"] /\ n.dev["src"] = b.dev["src"] /\ n.dev.job = s.dev.job
      BY <1>0, <2>1, <2>4, <2>9, <3>2
    <3>4. ScSide(n, "src")
      BY <1>2, <1>5, <2>4, <2>7, <3>2, <3>3 DEF ScSide, ScSame, SameQueue
    <3>5. ScSide(n, "dst")
      BY <1>2, <1>5, <2>4, <2>7, <3>2, <3>3 DEF ScSide, ScSame, SameQueue
    <3>6. ScBase(n)
      BY <3>2, <3>4, <3>5 DEF ScBase, Sides
    <3>7. ScSame(s, n) /\ \A q \in Sides : SameQueue(s, n, q)
      BY <2>7, <3>2 DEF ScSame, SameQueue, Sides
    <3> QED BY <1>5, <2>4, <2>9, <3>1, <3>2, <3>3, <3>6, <3>7 DEF t
  <2> QED BY <2>8, <2>9
<1> QED BY <1>6, <1>7

\* Both queues start, or the destination does not because the source did not.
LEMMA ScStarts ==
  ASSUME NEW s, NEW h, ScShape(s), s.ok,
         \A q \in Sides : /\ s.reqbufs[q] /\ ~s.streaming[q]
                          /\ s.dev[q].allocated /\ ~s.dev[q].on /\ s.dev[q].held = h
  PROVE  LET t == ScStreamOns(s) IN
         /\ ScShape(t) /\ ScSame(s, t) /\ t.fresh = s.fresh /\ t.reqbufs = s.reqbufs
         /\ t.qbuf = s.qbuf /\ t.freshControls = s.freshControls /\ t.dev.controls = s.dev.controls
         /\ \/ ~t.ok /\ t.dev = s.dev /\ t.streaming = s.streaming
            \/ /\ t.ok
               /\ \A q \in Sides : /\ t.streaming[q] /\ t.dev[q].on /\ t.dev[q].allocated
                                   /\ t.dev[q].format = s.dev[q].format
               /\ h = "queued" => /\ \A q \in Sides : t.dev[q].held = "done"
                                  /\ t.dev.job = JobOf(s.dev)
               /\ h # "queued" => /\ \A q \in Sides : t.dev[q].held = h
                                  /\ t.dev.job = s.dev.job
<1> DEFINE a == STREAMON(s, "src")
           an == [a EXCEPT !.streaming["src"] = TRUE]
           b == ScStreamOn(s, "src")
           c == STREAMON(b, "dst")
           cn == [c EXCEPT !.streaming["dst"] = TRUE]
           t == ScStreamOns(s)
<1>0. "src" \in Sides /\ "dst" \in Sides /\ "src" # "dst" /\ \A q \in Sides : q = "src" \/ q = "dst"
  BY DEF Sides
<1>s. PICK src : src = "src"
  OBVIOUS
<1>d. PICK dst : dst = "dst"
  OBVIOUS
<1>1. Handle(s) /\ src \in Sides /\ s.dev[src].allocated
  BY <1>0, <1>s DEF ScShape, ScHandle
<1>2. b = IF a.ok THEN an ELSE a
  BY <1>0 DEF ScStreamOn
<1>3. t = ScStreamOn(b, "dst")
  BY DEF ScStreamOns
<1> HIDE DEF t
<1>4. \/ Undone(s, a) /\ a.refused = s.refused
      \/ /\ Done(s, a) /\ a.dev.controls = s.dev.controls
         /\ a.dev["src"].on /\ a.dev["src"].allocated /\ a.dev["src"].format = s.dev["src"].format
         /\ SameQueue(s, a, "dst")
         /\ (\A p \in Sides : a.dev[p].held = s.dev[p].held) /\ a.dev.job = s.dev.job
  <2> DEFINE runs == \A p \in Sides : (p = src \/ s.dev[p].on) /\ s.dev[p].held = "queued"
  <2>1. a = STREAMON(s, src)
    BY <1>s
  <2> HIDE DEF a
  <2>2. \/ /\ Undone(s, a) /\ (~s.ok => a = s)
           /\ s.ok => s.fault = <<"STREAMON", src>> \/ ~s.dev[src].allocated
           /\ a.refused = s.refused \/ ~s.dev[src].allocated
        \/ /\ Done(s, a) /\ s.fault # <<"STREAMON", src>> /\ s.dev[src].allocated
           /\ a.dev.controls = s.dev.controls
           /\ a.dev[src].on /\ a.dev[src].allocated /\ a.dev[src].format = s.dev[src].format
           /\ \A p \in Sides : p # src => SameQueue(s, a, p)
           /\ runs => (\A p \in Sides : a.dev[p].held = "done") /\ a.dev.job = JobOf(s.dev)
           /\ ~runs => (\A p \in Sides : a.dev[p].held = s.dev[p].held) /\ a.dev.job = s.dev.job
    BY <1>1, <2>1, StreamOnFacts
  <2>3. ~runs
    BY <1>0, <1>s
  <2> HIDE DEF runs
  <2> QED BY <1>0, <1>1, <1>s, <2>2, <2>3
<1> HIDE DEF a
<1>5. CASE Undone(s, a) /\ a.refused = s.refused
  <2>1. /\ ScShape(a) /\ ScSame(s, a) /\ a.dev = s.dev /\ ~a.ok
        /\ a.fresh = s.fresh /\ a.reqbufs = s.reqbufs /\ a.qbuf = s.qbuf /\ a.streaming = s.streaming
        /\ a.freshControls = s.freshControls
    BY <1>5, ScUndone
  <2>2. b = a
    BY <1>2, <2>1
  <2> HIDE DEF b
  <2>3. t = a
    BY <1>3, <2>1, <2>2 DEF ScStreamOn
  <2> QED BY <2>1, <2>3 DEF t
<1>6. CASE /\ Done(s, a) /\ a.dev.controls = s.dev.controls
           /\ a.dev["src"].on /\ a.dev["src"].allocated /\ a.dev["src"].format = s.dev["src"].format
           /\ SameQueue(s, a, "dst")
           /\ (\A p \in Sides : a.dev[p].held = s.dev[p].held) /\ a.dev.job = s.dev.job
  <2>1. /\ ScShape(a) /\ ScSame(s, a) /\ a.ok
        /\ a.fresh = s.fresh /\ a.reqbufs = s.reqbufs /\ a.qbuf = s.qbuf /\ a.streaming = s.streaming
        /\ a.freshControls = s.freshControls
    BY <1>6, ScDone
  <2>2. /\ ScShape(an) /\ ScSame(a, an) /\ an.dev = a.dev /\ an.ok = a.ok
        /\ an.fresh = a.fresh /\ an.reqbufs = a.reqbufs /\ an.qbuf = a.qbuf
        /\ an.freshControls = a.freshControls
        /\ an.streaming["src"] /\ \A p \in Sides : p # "src" => an.streaming[p] = a.streaming[p]
    <3>1. ScShape(a) /\ an = [a EXCEPT !.streaming[src] = TRUE]
      BY <1>s, <2>1
    <3>2. /\ ScShape(an) /\ ScSame(a, an) /\ an.dev = a.dev /\ an.ok = a.ok
          /\ an.fresh = a.fresh /\ an.reqbufs = a.reqbufs /\ an.qbuf = a.qbuf
          /\ an.freshControls = a.freshControls
          /\ an.streaming[src] /\ \A p \in Sides : p # src => an.streaming[p] = a.streaming[p]
      BY <1>1, <1>s, <3>1, ScStreamingOn
    <3> QED BY <1>s, <3>2
  <2>3. b = an
    BY <1>2, <2>1
  <2> HIDE DEF an, b
  <2>4. /\ ScShape(b) /\ ScSame(s, b) /\ b.ok = a.ok /\ b.dev = a.dev
        /\ b.fresh = s.fresh /\ b.reqbufs = s.reqbufs /\ b.qbuf = s.qbuf
        /\ b.freshControls = s.freshControls
        /\ b.streaming["src"] /\ ~b.streaming["dst"]
    BY <1>0, <2>1, <2>2, <2>3 DEF ScSame
  <2>5. Handle(b) /\ b.ok /\ b.dev["dst"].allocated /\ b.fault # <<"STREAMON", "dst">>
    BY <1>0, <1>6, <2>1, <2>4 DEF ScShape, ScHandle, ScIsFair, SameQueue
  <2>6. /\ Done(b, c) /\ c.dev.controls = b.dev.controls
        /\ c.dev["dst"].on /\ c.dev["dst"].allocated /\ c.dev["dst"].format = b.dev["dst"].format
        /\ SameQueue(b, c, "src")
        /\ h = "queued" => (\A p \in Sides : c.dev[p].held = "done") /\ c.dev.job = JobOf(b.dev)
        /\ h # "queued" => (\A p \in Sides : c.dev[p].held = b.dev[p].held) /\ c.dev.job = b.dev.job
    <3> DEFINE runs == \A p \in Sides : (p = dst \/ b.dev[p].on) /\ b.dev[p].held = "queued"
    <3>1. c = STREAMON(b, dst) /\ dst \in Sides
      BY <1>0, <1>d
    <3> HIDE DEF c
    <3>2. \/ /\ Undone(b, c) /\ (~b.ok => c = b)
             /\ b.ok => b.fault = <<"STREAMON", dst>> \/ ~b.dev[dst].allocated
             /\ c.refused = b.refused \/ ~b.dev[dst].allocated
          \/ /\ Done(b, c) /\ b.fault # <<"STREAMON", dst>> /\ b.dev[dst].allocated
             /\ c.dev.controls = b.dev.controls
             /\ c.dev[dst].on /\ c.dev[dst].allocated /\ c.dev[dst].format = b.dev[dst].format
             /\ \A p \in Sides : p # dst => SameQueue(b, c, p)
             /\ runs => (\A p \in Sides : c.dev[p].held = "done") /\ c.dev.job = JobOf(b.dev)
             /\ ~runs => (\A p \in Sides : c.dev[p].held = b.dev[p].held) /\ c.dev.job = b.dev.job
      BY <2>5, <3>1, StreamOnFacts
    <3>3. runs <=> h = "queued"
      BY <1>0, <1>d, <1>6, <2>4
    <3> HIDE DEF runs
    <3>4. ~(b.fault = <<"STREAMON", dst>> \/ ~b.dev[dst].allocated)
      BY <1>d, <2>5
    <3> QED BY <1>0, <1>d, <2>5, <3>2, <3>3, <3>4
  <2> HIDE DEF c
  <2>7. /\ ScShape(c) /\ ScSame(b, c) /\ c.ok
        /\ c.fresh = b.fresh /\ c.reqbufs = b.reqbufs /\ c.qbuf = b.qbuf /\ c.streaming = b.streaming
        /\ c.freshControls = b.freshControls
    BY <2>4, <2>6, ScDone
  <2>8. /\ ScShape(cn) /\ ScSame(c, cn) /\ cn.dev = c.dev /\ cn.ok = c.ok
        /\ cn.fresh = c.fresh /\ cn.reqbufs = c.reqbufs /\ cn.qbuf = c.qbuf
        /\ cn.freshControls = c.freshControls
        /\ cn.streaming["dst"] /\ \A p \in Sides : p # "dst" => cn.streaming[p] = c.streaming[p]
    <3>1. ScShape(c) /\ cn = [c EXCEPT !.streaming[dst] = TRUE] /\ dst \in Sides
      BY <1>0, <1>d, <2>7
    <3>2. /\ ScShape(cn) /\ ScSame(c, cn) /\ cn.dev = c.dev /\ cn.ok = c.ok
          /\ cn.fresh = c.fresh /\ cn.reqbufs = c.reqbufs /\ cn.qbuf = c.qbuf
          /\ cn.freshControls = c.freshControls
          /\ cn.streaming[dst] /\ \A p \in Sides : p # dst => cn.streaming[p] = c.streaming[p]
      BY <1>d, <3>1, ScStreamingOn
    <3> QED BY <1>d, <3>2
  <2>9. t = cn
    <3>1. b.reqbufs["dst"] /\ b.ok
      BY <1>0, <2>4, <2>5
    <3> QED BY <1>3, <2>4, <2>7, <3>1 DEF ScStreamOn, c
  <2> HIDE DEF cn
  <2>10. JobOf(b.dev) = JobOf(s.dev)
    BY <1>6, <2>4 DEF JobOf, SameQueue
  <2>11. ASSUME NEW q \in Sides
         PROVE  /\ cn.streaming[q] /\ cn.dev[q].on /\ cn.dev[q].allocated
                /\ cn.dev[q].format = s.dev[q].format
    <3>1. CASE q = "src"
      BY <1>0, <1>6, <2>4, <2>6, <2>7, <2>8, <3>1 DEF SameQueue
    <3>2. CASE q = "dst"
      BY <1>0, <1>6, <2>4, <2>6, <2>7, <2>8, <3>2 DEF SameQueue
    <3> QED BY <1>0, <3>1, <3>2
  <2>12. h = "queued" => /\ \A q \in Sides : cn.dev[q].held = "done"
                         /\ cn.dev.job = JobOf(s.dev)
    BY <2>6, <2>8, <2>10
  <2>13. h # "queued" => /\ \A q \in Sides : cn.dev[q].held = h
                         /\ cn.dev.job = s.dev.job
    BY <1>6, <2>4, <2>6, <2>8
  <2>14. ScSame(s, cn) /\ cn.ok /\ cn.dev.controls = s.dev.controls
    BY <1>6, <2>4, <2>6, <2>7, <2>8 DEF ScSame
  <2> QED BY <2>4, <2>7, <2>8, <2>9, <2>11, <2>12, <2>13, <2>14 DEF t
<1> QED BY <1>4, <1>5, <1>6

\* Two handles that differ in the outcome and the books of the call at most.
ScAlike(s, t) ==
  /\ Handle(t) /\ DOMAIN t = ScFields /\ t.refused = s.refused /\ t.hangs = s.hangs
  /\ t.dev = s.dev /\ t.image = s.image /\ t.fresh = s.fresh /\ t.reqbufs = s.reqbufs
  /\ t.qbuf = s.qbuf /\ t.streaming = s.streaming /\ t.freshControls = s.freshControls

\* Handles that differ in the books of a call only.
LEMMA ScAlikeBase ==
  ASSUME NEW s, NEW t, ScBase(s), ScAlike(s, t), ScIsFair(t.fault)
  PROVE  /\ ScBase(t) /\ (ScSettled(s) => ScSettled(t))
         /\ ScSettled(s) \/ (s.fresh.src /\ s.fresh.dst) => ScSettled(t) \/ (t.fresh.src /\ t.fresh.dst)
<1>1. ScHandle(t)
  BY DEF ScAlike, ScBase, ScShape, ScHandle
<1>2. ScShape(t)
  BY <1>1 DEF ScAlike, ScBase, ScShape
<1>3. \A q \in Sides : ScSide(t, q)
  BY DEF ScAlike, ScBase, ScSide
<1>4. ScSettled(s) => ScSettled(t)
  BY DEF ScAlike, ScSettled
<1> QED BY <1>2, <1>3, <1>4 DEF ScBase, ScAlike

LEMMA ScNoFaultIsFair == ScIsFair(NoFault)
BY NoFaultFacts DEF ScIsFair

\* The steps of a call that make no ioctl.
LEMMA ScCalls ==
  ASSUME NEW s, ScBase(s)
  PROVE  /\ \A fault : ScIsFair(fault) =>
              /\ ScAlike(s, Called(s, fault)) /\ ScBase(Called(s, fault)) /\ Called(s, fault).ok
              /\ Called(s, fault).jobFor = s.jobFor /\ Called(s, fault).broken = s.broken
         /\ ScAlike(s, Returned(s)) /\ ScBase(Returned(s)) /\ Returned(s).ok = s.ok
         /\ Returned(s).jobFor = s.jobFor /\ Returned(s).broken = s.broken
         /\ ScAlike(s, Tidied(s)) /\ ScBase(Tidied(s)) /\ Tidied(s).ok
         /\ Tidied(s).jobFor = s.jobFor /\ Tidied(s).broken = s.broken
         /\ ScAlike(s, Failed(s)) /\ ScBase(Failed(s))
         /\ Failed(s).jobFor = s.jobFor /\ Failed(s).broken = s.broken
<1>1. Handle(s) /\ DOMAIN s = ScFields /\ ScIsFair(s.fault) /\ ScHandle(s)
  BY DEF ScBase, ScShape, ScHandle
<1>f. /\ "dev" \in ScFields /\ "image" \in ScFields /\ "fresh" \in ScFields /\ "reqbufs" \in ScFields
      /\ "qbuf" \in ScFields /\ "streaming" \in ScFields /\ "freshControls" \in ScFields
      /\ "jobFor" \in ScFields /\ "broken" \in ScFields
  BY DEF ScFields
<1>2. ASSUME NEW fault, ScIsFair(fault)
      PROVE  /\ ScAlike(s, Called(s, fault)) /\ ScBase(Called(s, fault)) /\ Called(s, fault).ok
             /\ Called(s, fault).jobFor = s.jobFor /\ Called(s, fault).broken = s.broken
  <2> DEFINE t == Called(s, fault)
  <2>1. Kept(s, t) /\ t.ok /\ t.fault = fault /\ DOMAIN t = DOMAIN s
    BY <1>1, CallFacts
  <2>2. \A f \in DOMAIN s : f \notin {"ok", "fault"} => t[f] = s[f]
    BY <1>1, CallFacts
  <2> HIDE DEF t
  <2>3. ScAlike(s, t) /\ t.jobFor = s.jobFor /\ t.broken = s.broken
    BY <1>1, <1>f, <2>1, <2>2 DEF ScAlike, Kept
  <2>4. ScBase(t)
    BY <1>2, <2>1, <2>3, ScAlikeBase
  <2> QED BY <2>1, <2>3, <2>4 DEF t
<1>3. /\ ScAlike(s, Returned(s)) /\ ScBase(Returned(s)) /\ Returned(s).ok = s.ok
      /\ Returned(s).jobFor = s.jobFor /\ Returned(s).broken = s.broken
  <2> DEFINE t == Returned(s)
  <2>1. Kept(s, t) /\ t.ok = s.ok /\ t.fault = NoFault /\ DOMAIN t = DOMAIN s
    BY <1>1, CallFacts DEF Returned, ScFields
  <2>2. \A f \in DOMAIN s : f \notin {"ok", "fault"} => t[f] = s[f]
    BY <1>1, CallFacts
  <2> HIDE DEF t
  <2>3. ScAlike(s, t) /\ t.jobFor = s.jobFor /\ t.broken = s.broken
    BY <1>1, <1>f, <2>1, <2>2 DEF ScAlike, Kept
  <2>4. ScBase(t)
    BY <2>1, <2>3, ScAlikeBase, ScNoFaultIsFair
  <2> QED BY <2>1, <2>3, <2>4 DEF t
<1>4. /\ ScAlike(s, Tidied(s)) /\ ScBase(Tidied(s)) /\ Tidied(s).ok
      /\ Tidied(s).jobFor = s.jobFor /\ Tidied(s).broken = s.broken
  <2> DEFINE t == Tidied(s)
  <2>1. Kept(s, t) /\ t.ok /\ t.fault = NoFault /\ DOMAIN t = DOMAIN s
    BY <1>1, CallFacts
  <2>2. \A f \in DOMAIN s : f \notin {"ok", "fault"} => t[f] = s[f]
    BY <1>1, CallFacts
  <2> HIDE DEF t
  <2>3. ScAlike(s, t) /\ t.jobFor = s.jobFor /\ t.broken = s.broken
    BY <1>1, <1>f, <2>1, <2>2 DEF ScAlike, Kept
  <2>4. ScBase(t)
    BY <2>1, <2>3, ScAlikeBase, ScNoFaultIsFair
  <2> QED BY <2>1, <2>3, <2>4 DEF t
<1>5. /\ ScAlike(s, Failed(s)) /\ ScBase(Failed(s))
      /\ Failed(s).jobFor = s.jobFor /\ Failed(s).broken = s.broken
  <2> DEFINE t == Failed(s)
  <2>1. Kept(s, t) /\ Rest(s, t)
    BY <1>1, CallFacts
  <2> HIDE DEF t
  <2>2. /\ DOMAIN t = ScFields /\ ScSame(s, t)
        /\ t.fresh = s.fresh /\ t.reqbufs = s.reqbufs /\ t.qbuf = s.qbuf /\ t.streaming = s.streaming
        /\ t.freshControls = s.freshControls
    BY <1>1, <2>1, ScRest
  <2>3. ScAlike(s, t) /\ t.jobFor = s.jobFor /\ t.broken = s.broken /\ t.fault = s.fault
    BY <2>1, <2>2 DEF ScAlike, Kept, ScSame
  <2>4. ScBase(t)
    BY <1>1, <2>3, ScAlikeBase
  <2> QED BY <2>3, <2>4 DEF t
<1> QED BY <1>2, <1>3, <1>4, <1>5

\* The books of a call that succeeded, or did not.
LEMMA ScBooks ==
  ASSUME NEW s, ScBase(s)
  PROVE  /\ LET t == [s EXCEPT !.jobFor = s.image] IN
            ScAlike(s, t) /\ ScBase(t) /\ t.jobFor = s.image /\ t.broken = s.broken /\ t.ok = s.ok
         /\ LET t == [s EXCEPT !.broken = TRUE] IN
            ScAlike(s, t) /\ ScBase(t) /\ t.jobFor = s.jobFor /\ t.broken = TRUE
         /\ LET t == [s EXCEPT !.broken = FALSE] IN
            ScAlike(s, t) /\ ScBase(t) /\ t.jobFor = s.jobFor /\ t.broken = FALSE
<1>1. Handle(s) /\ DOMAIN s = ScFields /\ ScIsFair(s.fault)
  BY DEF ScBase, ScShape, ScHandle
<1>2. LET t == [s EXCEPT !.jobFor = s.image] IN
      ScAlike(s, t) /\ ScBase(t) /\ t.jobFor = s.image /\ t.broken = s.broken /\ t.ok = s.ok
  <2> DEFINE t == [s EXCEPT !.jobFor = s.image]
  <2>1. /\ DOMAIN t = ScFields /\ t.refused = s.refused /\ t.hangs = s.hangs /\ t.ok = s.ok
        /\ t.dev = s.dev /\ t.image = s.image /\ t.fresh = s.fresh /\ t.reqbufs = s.reqbufs
        /\ t.qbuf = s.qbuf /\ t.streaming = s.streaming /\ t.freshControls = s.freshControls
        /\ t.jobFor = s.image /\ t.broken = s.broken /\ t.fault = s.fault
    BY <1>1 DEF ScFields
  <2> HIDE DEF t
  <2>2. Handle(t)
    BY <1>1, <2>1 DEF Handle, ScFields
  <2>3. ScAlike(s, t)
    BY <2>1, <2>2 DEF ScAlike
  <2>4. ScBase(t)
    BY <1>1, <2>1, <2>3, ScAlikeBase
  <2> QED BY <2>1, <2>3, <2>4 DEF t
<1>3. LET t == [s EXCEPT !.broken = TRUE] IN
      ScAlike(s, t) /\ ScBase(t) /\ t.jobFor = s.jobFor /\ t.broken = TRUE
  <2> DEFINE t == [s EXCEPT !.broken = TRUE]
  <2>1. /\ DOMAIN t = ScFields /\ t.refused = s.refused /\ t.hangs = s.hangs /\ t.ok = s.ok
        /\ t.dev = s.dev /\ t.image = s.image /\ t.fresh = s.fresh /\ t.reqbufs = s.reqbufs
        /\ t.qbuf = s.qbuf /\ t.streaming = s.streaming /\ t.freshControls = s.freshControls
        /\ t.jobFor = s.jobFor /\ t.broken = TRUE /\ t.fault = s.fault
    BY <1>1 DEF ScFields
  <2> HIDE DEF t
  <2>2. Handle(t)
    BY <1>1, <2>1 DEF Handle, ScFields
  <2>3. ScAlike(s, t)
    BY <2>1, <2>2 DEF ScAlike
  <2>4. ScBase(t)
    BY <1>1, <2>1, <2>3, ScAlikeBase
  <2> QED BY <2>1, <2>3, <2>4 DEF t
<1>4. LET t == [s EXCEPT !.broken = FALSE] IN
      ScAlike(s, t) /\ ScBase(t) /\ t.jobFor = s.jobFor /\ t.broken = FALSE
  <2> DEFINE t == [s EXCEPT !.broken = FALSE]
  <2>1. /\ DOMAIN t = ScFields /\ t.refused = s.refused /\ t.hangs = s.hangs /\ t.ok = s.ok
        /\ t.dev = s.dev /\ t.image = s.image /\ t.fresh = s.fresh /\ t.reqbufs = s.reqbufs
        /\ t.qbuf = s.qbuf /\ t.streaming = s.streaming /\ t.freshControls = s.freshControls
        /\ t.jobFor = s.jobFor /\ t.broken = FALSE /\ t.fault = s.fault
    BY <1>1 DEF ScFields
  <2> HIDE DEF t
  <2>2. Handle(t)
    BY <1>1, <2>1 DEF Handle, ScFields
  <2>3. ScAlike(s, t)
    BY <2>1, <2>2 DEF ScAlike
  <2>4. ScBase(t)
    BY <1>1, <2>1, <2>3, ScAlikeBase
  <2> QED BY <2>1, <2>3, <2>4 DEF t
<1> QED BY <1>2, <1>3, <1>4

-----------------------------------------------------------------------------
(* The calls of the scaler.                                                *)

\* The state that a run of both kinds begins in.
ScBegun(s) ==
  /\ ScBase(s) /\ s.ok /\ ScJobKept(s)
  /\ ScSettled(s) \/ (s.fresh.src /\ s.fresh.dst)

\* What a run leaves: a job as ordered, or the job of before.
ScRan(s, t) ==
  /\ ScBase(t) /\ ScSame(s, t)
  /\ t.ok => ScSettled(t) /\ ScJobFits(t.dev.job, t.image)
  /\ ~t.ok => t.dev.job = s.dev.job

\* Nothing happens after a failure.
LEMMA ScAfterFailure ==
  ASSUME NEW s, ~s.ok
  PROVE  ScQBufs(s) = s /\ ScStreamOns(s) = s
BY DEF ScQBufs, ScQBuf, ScStreamOns, ScStreamOn

\* A handle that is ready, side by side.
LEMMA ScReadySides ==
  ASSUME NEW s, ScReady(s)
  PROVE  /\ ScShape(s)
         /\ \A q \in Sides : /\ ScSide(s, q) /\ s.reqbufs[q] /\ s.dev[q].allocated /\ ~s.fresh[q]
                             /\ s.dev[q].format = s.image.format
                             /\ s.streaming[q] <=> s.streaming["src"]
                             /\ s.dev[q].on <=> s.streaming["src"]
                             /\ ~s.streaming["src"] => ~s.qbuf[q] /\ s.dev[q].held = "no"
<1>1. ScShape(s) /\ ScSettled(s) /\ \A q \in Sides : ScSide(s, q) /\ s.reqbufs[q] /\ ~s.fresh[q]
  BY DEF ScReady, ScBase
<1>2. ASSUME NEW q \in Sides
      PROVE  /\ s.dev[q].allocated /\ s.dev[q].format = s.image.format
             /\ s.streaming[q] <=> s.streaming["src"]
             /\ s.dev[q].on <=> s.streaming[q]
             /\ ~s.streaming["src"] => ~s.qbuf[q] /\ s.dev[q].held = "no"
  <2>1. /\ s.dev[q].allocated /\ s.dev[q].format = s.image.format
        /\ s.dev[q].on <=> s.streaming[q]
    BY <1>1 DEF ScSide
  <2>2. s.streaming[q] <=> s.streaming["src"]
    BY <1>1 DEF ScSettled, Sides
  <2>3. ~s.streaming[q] => ~s.qbuf[q] /\ s.dev[q].held = "no"
    BY <1>1 DEF ScSettled
  <2> QED BY <2>1, <2>2, <2>3
<1> QED BY <1>1, <1>2

\* exynos_sc_run_exclusive queues the buffers, then starts the queues.
LEMMA ScRunsQueuedFirst ==
  ASSUME NEW s, ScBegun(s)
  PROVE  ScRan(s, ScStreamOns(ScQBufs(ScPrepared(s))))
<1> DEFINE r == ScPrepared(s)
           b == ScQBufs(r)
           t == ScStreamOns(b)
<1>1. ScBase(r) /\ ScSame(s, r) /\ r.dev.job = s.dev.job /\ (r.ok => ScReady(r))
  BY ScPrepares DEF ScBegun
<1> HIDE DEF r
<1>2. CASE ~r.ok
  <2>1. b = r /\ t = r
    BY <1>2, ScAfterFailure
  <2> QED BY <1>1, <1>2, <2>1 DEF ScRan, r
<1>3. CASE r.ok
  <2>1. ScReady(r)
    BY <1>1, <1>3
  <2>2. /\ ScShape(b) /\ ScSame(r, b) /\ b.fresh = r.fresh /\ b.reqbufs = r.reqbufs
        /\ b.streaming = r.streaming /\ b.freshControls = r.freshControls
        /\ b.dev.controls = r.dev.controls
        /\ \A q \in Sides : SameQueue(r, b, q)
        /\ \/ ~b.ok /\ ScBase(b) /\ b.dev.job = r.dev.job
           \/ /\ b.ok /\ \A q \in Sides : b.qbuf[q]
              /\ r.streaming.src => /\ \A q \in Sides : b.dev[q].held = "done"
                                    /\ b.dev.job = JobOf(r.dev)
              /\ ~r.streaming.src => /\ \A q \in Sides : b.dev[q].held = "queued"
                                     /\ b.dev.job = r.dev.job
    BY <1>3, <2>1, ScEnqueuesAll
  <2> HIDE DEF b
  <2>3. ScSame(s, b)
    BY <1>1, <2>2 DEF ScSame
  <2>4. CASE ~b.ok
    <3>1. t = b
      BY <2>4, ScAfterFailure
    <3> HIDE DEF t
    <3> QED BY <1>1, <2>2, <2>3, <2>4, <3>1 DEF ScRan, b, r, t
  <2>5. /\ ScShape(r)
        /\ \A q \in Sides : /\ ScSide(r, q) /\ r.reqbufs[q] /\ r.dev[q].allocated /\ ~r.fresh[q]
                            /\ r.dev[q].format = r.image.format
                            /\ r.streaming[q] <=> r.streaming["src"]
                            /\ r.dev[q].on <=> r.streaming["src"]
    BY <2>1, ScReadySides
  <2>6. CASE b.ok /\ r.streaming["src"]
    <3>1. b.streaming["src"] /\ b.streaming["dst"]
      BY <2>2, <2>5, <2>6 DEF Sides
    <3>2. t = b
      BY <2>6, <3>1 DEF ScStreamOns, ScStreamOn
    <3>3. /\ \A q \in Sides : b.dev[q].held = "done" /\ b.qbuf[q]
          /\ b.dev.job = JobOf(r.dev)
      BY <2>2, <2>6
    <3>4. ASSUME NEW q \in Sides PROVE ScSide(b, q)
      BY <2>2, <2>5, <3>3 DEF ScSide, SameQueue, ScSame
    <3>5. ScSettled(b)
      BY <2>2, <2>5, <3>1, <3>3 DEF ScSettled, Sides
    <3>6. ScJobFits(b.dev.job, b.image)
      BY <2>1, <2>2, <3>3, ScOrders DEF ScSame
    <3> HIDE DEF t
    <3> QED BY <2>2, <2>3, <2>6, <3>2, <3>4, <3>5, <3>6 DEF ScRan, ScBase, b, r, t
  <2>7. CASE b.ok /\ ~r.streaming["src"]
    <3>1. \A q \in Sides : /\ b.reqbufs[q] /\ ~b.streaming[q] /\ b.qbuf[q]
                           /\ b.dev[q].allocated /\ ~b.dev[q].on /\ b.dev[q].held = "queued"
      BY <2>2, <2>5, <2>7 DEF SameQueue
    <3>2. PICK h : h = "queued"
      OBVIOUS
    <3>3. \A q \in Sides : /\ b.reqbufs[q] /\ ~b.streaming[q]
                           /\ b.dev[q].allocated /\ ~b.dev[q].on /\ b.dev[q].held = h
      BY <3>1, <3>2
    <3>4. /\ ScShape(t) /\ ScSame(b, t) /\ t.fresh = b.fresh /\ t.reqbufs = b.reqbufs
          /\ t.qbuf = b.qbuf /\ t.freshControls = b.freshControls /\ t.dev.controls = b.dev.controls
          /\ \/ ~t.ok /\ t.dev = b.dev /\ t.streaming = b.streaming
             \/ /\ t.ok
                /\ \A q \in Sides : /\ t.streaming[q] /\ t.dev[q].on /\ t.dev[q].allocated
                                    /\ t.dev[q].format = b.dev[q].format
                /\ h = "queued" => /\ \A q \in Sides : t.dev[q].held = "done"
                                   /\ t.dev.job = JobOf(b.dev)
                /\ h # "queued" => /\ \A q \in Sides : t.dev[q].held = h
                                   /\ t.dev.job = b.dev.job
      BY <2>2, <2>7, <3>3, ScStarts
    <3> HIDE DEF t
    <3>5. ScSame(s, t) /\ b.dev.job = s.dev.job
      BY <1>1, <2>2, <2>3, <2>7, <3>4 DEF ScSame
    <3>6. CASE ~t.ok
      <4>1. ASSUME NEW q \in Sides PROVE ScSide(t, q)
        <5>1. t.dev[q].format = t.image.format
          BY <2>2, <2>5, <3>4, <3>6 DEF SameQueue, ScSame
        <5> QED BY <3>1, <3>4, <3>6, <5>1 DEF ScSide
      <4> QED BY <3>4, <3>5, <3>6, <4>1 DEF ScRan, ScBase, t, b, r
    <3>7. CASE t.ok
      <4>1. ASSUME NEW q \in Sides PROVE ScSide(t, q)
        <5>1. t.dev[q].format = t.image.format
          BY <2>2, <2>5, <3>4, <3>7 DEF SameQueue, ScSame
        <5>2. t.reqbufs[q] /\ t.dev[q].held = "done"
          BY <3>1, <3>2, <3>4, <3>7
        <5> QED BY <3>4, <3>7, <5>1, <5>2 DEF ScSide
      <4>2. ScSettled(t)
        <5>1. \A q \in Sides : t.qbuf[q] /\ t.streaming[q] /\ ~t.fresh[q]
          BY <2>2, <2>5, <3>1, <3>4, <3>7
        <5> QED BY <5>1 DEF ScSettled, Sides
      <4>3. JobOf(b.dev) = JobOf(r.dev)
        BY <2>2 DEF JobOf, SameQueue, Sides
      <4>4. ScJobFits(t.dev.job, t.image)
        BY <2>1, <2>2, <3>2, <3>4, <3>7, <4>3, ScOrders DEF ScSame
      <4> QED BY <3>4, <3>5, <3>7, <4>1, <4>2, <4>4 DEF ScRan, ScBase, t, b, r
    <3> QED BY <3>6, <3>7
  <2> QED BY <2>4, <2>6, <2>7
<1> QED BY <1>2, <1>3

\* exynos_sc_convert starts the queues, then queues the buffers.
LEMMA ScStartsReady ==
  ASSUME NEW s, ScReady(s), s.ok
  PROVE  LET t == ScStreamOns(s) IN
         /\ ScBase(t) /\ ScSame(s, t) /\ t.dev.job = s.dev.job
         /\ t.ok => ScReady(t) /\ t.streaming["src"]
<1> DEFINE t == ScStreamOns(s)
<1>1. /\ ScShape(s)
      /\ \A q \in Sides : /\ ScSide(s, q) /\ s.reqbufs[q] /\ s.dev[q].allocated /\ ~s.fresh[q]
                          /\ s.dev[q].format = s.image.format
                          /\ s.streaming[q] <=> s.streaming["src"]
                          /\ s.dev[q].on <=> s.streaming["src"]
                          /\ ~s.streaming["src"] => ~s.qbuf[q] /\ s.dev[q].held = "no"
  BY ScReadySides
<1>2. CASE s.streaming["src"]
  <2>1. s.streaming["src"] /\ s.streaming["dst"]
    BY <1>1, <1>2 DEF Sides
  <2>2. t = s
    BY <2>1 DEF ScStreamOns, ScStreamOn
  <2> HIDE DEF t
  <2> QED BY <1>2, <2>2 DEF ScReady, ScSame, t
<1>3. CASE ~s.streaming["src"]
  <2>1. PICK h : h = "no"
    OBVIOUS
  <2>2. \A q \in Sides : /\ s.reqbufs[q] /\ ~s.streaming[q]
                         /\ s.dev[q].allocated /\ ~s.dev[q].on /\ s.dev[q].held = h
    BY <1>1, <1>3, <2>1
  <2>3. /\ ScShape(t) /\ ScSame(s, t) /\ t.fresh = s.fresh /\ t.reqbufs = s.reqbufs
        /\ t.qbuf = s.qbuf /\ t.freshControls = s.freshControls /\ t.dev.controls = s.dev.controls
        /\ \/ ~t.ok /\ t.dev = s.dev /\ t.streaming = s.streaming
           \/ /\ t.ok
              /\ \A q \in Sides : /\ t.streaming[q] /\ t.dev[q].on /\ t.dev[q].allocated
                                  /\ t.dev[q].format = s.dev[q].format
              /\ h = "queued" => /\ \A q \in Sides : t.dev[q].held = "done"
                                 /\ t.dev.job = JobOf(s.dev)
              /\ h # "queued" => /\ \A q \in Sides : t.dev[q].held = h
                                 /\ t.dev.job = s.dev.job
    <3>1. ScShape(s) /\ s.ok
      BY <1>1
    <3> QED BY <2>2, <3>1, ScStarts
  <2> HIDE DEF t
  <2>4. CASE ~t.ok
    <3>1. ASSUME NEW q \in Sides PROVE ScSide(t, q)
      BY <1>1, <2>3, <2>4 DEF ScSide, ScSame
    <3> QED BY <2>3, <2>4, <3>1 DEF ScBase, t
  <2>5. CASE t.ok
    <3>1. h # "queued"
      BY <2>1
    <3>2. ASSUME NEW q \in Sides
          PROVE  /\ t.streaming[q] /\ t.dev[q].on /\ t.dev[q].allocated /\ t.reqbufs[q]
                 /\ t.dev[q].format = t.image.format /\ ~t.fresh[q] /\ ~t.qbuf[q]
                 /\ t.dev[q].held = "no"
      BY <1>1, <1>3, <2>1, <2>3, <2>5, <3>1 DEF ScSame
    <3>3. \A q \in Sides : ScSide(t, q)
      BY <3>2 DEF ScSide
    <3>4. ScSettled(t)
      BY <3>2 DEF ScSettled, Sides
    <3>5. t.freshControls = {} /\ t.dev.job = s.dev.job
      BY <2>3, <2>5, <3>1 DEF ScReady
    <3>6. t.streaming["src"]
      BY <3>2 DEF Sides
    <3> QED BY <2>3, <3>2, <3>3, <3>4, <3>5, <3>6 DEF ScReady, ScBase, t
  <2> QED BY <2>4, <2>5
<1> QED BY <1>2, <1>3

LEMMA ScRunsStartedFirst ==
  ASSUME NEW s, ScBegun(s)
  PROVE  LET started == ScStreamOns(ScPrepared(s)) IN
         /\ ScRan(s, ScQBufs(started)) /\ ScBase(started) /\ ScSame(s, started)
         /\ ~started.ok => started.dev.job = s.dev.job
<1> DEFINE r == ScPrepared(s)
           a == ScStreamOns(r)
           t == ScQBufs(a)
<1>1. ScBase(r) /\ ScSame(s, r) /\ r.dev.job = s.dev.job /\ (r.ok => ScReady(r))
  BY ScPrepares DEF ScBegun
<1> HIDE DEF r
<1>2. CASE ~r.ok
  <2>1. a = r /\ t = r
    BY <1>2, ScAfterFailure
  <2> QED BY <1>1, <1>2, <2>1 DEF ScRan, r
<1>3. CASE r.ok
  <2>1. ScReady(r)
    BY <1>1, <1>3
  <2>2. /\ ScBase(a) /\ ScSame(r, a) /\ a.dev.job = r.dev.job
        /\ a.ok => ScReady(a) /\ a.streaming["src"]
    BY <1>3, <2>1, ScStartsReady
  <2> HIDE DEF a
  <2>3. ScSame(s, a) /\ a.dev.job = s.dev.job
    BY <1>1, <2>2 DEF ScSame
  <2>4. CASE ~a.ok
    <3>1. t = a
      BY <2>4, ScAfterFailure
    <3> HIDE DEF t
    <3> QED BY <2>2, <2>3, <2>4, <3>1 DEF ScRan, t, a, r
  <2>5. CASE a.ok
    <3>1. ScReady(a) /\ a.streaming["src"]
      BY <2>2, <2>5
    <3>2. /\ ScShape(t) /\ ScSame(a, t) /\ t.fresh = a.fresh /\ t.reqbufs = a.reqbufs
          /\ t.streaming = a.streaming /\ t.freshControls = a.freshControls
          /\ t.dev.controls = a.dev.controls
          /\ \A q \in Sides : SameQueue(a, t, q)
          /\ \/ ~t.ok /\ ScBase(t) /\ t.dev.job = a.dev.job
             \/ /\ t.ok /\ \A q \in Sides : t.qbuf[q]
                /\ a.streaming.src => /\ \A q \in Sides : t.dev[q].held = "done"
                                      /\ t.dev.job = JobOf(a.dev)
                /\ ~a.streaming.src => /\ \A q \in Sides : t.dev[q].held = "queued"
                                       /\ t.dev.job = a.dev.job
      BY <2>5, <3>1, ScEnqueuesAll
    <3> HIDE DEF t
    <3>3. ScSame(s, t)
      BY <2>3, <3>2 DEF ScSame
    <3>4. CASE ~t.ok
      BY <2>2, <2>3, <2>5, <3>2, <3>3, <3>4 DEF ScRan, t, a, r
    <3>5. CASE t.ok
      <4>1. \A q \in Sides : /\ ScSide(a, q) /\ a.reqbufs[q] /\ a.dev[q].allocated /\ ~a.fresh[q]
                             /\ a.dev[q].format = a.image.format
                             /\ a.streaming[q] <=> a.streaming["src"]
                             /\ a.dev[q].on <=> a.streaming["src"]
        BY <3>1, ScReadySides
      <4>2. /\ \A q \in Sides : t.dev[q].held = "done" /\ t.qbuf[q]
            /\ t.dev.job = JobOf(a.dev)
        BY <3>1, <3>2, <3>5
      <4>3. ASSUME NEW q \in Sides PROVE ScSide(t, q)
        BY <3>2, <4>1, <4>2 DEF ScSide, SameQueue, ScSame
      <4>4. ScSettled(t)
        <5>1. \A q \in Sides : t.qbuf[q] /\ t.streaming[q] /\ ~t.fresh[q]
          BY <3>1, <3>2, <4>1, <4>2
        <5> QED BY <5>1 DEF ScSettled, Sides
      <4>5. ScJobFits(t.dev.job, t.image)
        BY <3>1, <3>2, <4>2, ScOrders DEF ScSame
      <4> QED BY <2>2, <2>3, <2>5, <3>2, <3>3, <3>5, <4>3, <4>4, <4>5 DEF ScRan, ScBase, t, a, r
    <3> QED BY <3>4, <3>5
  <2> QED BY <2>4, <2>5
<1> QED BY <1>2, <1>3

\* A client that may run the scaler begins its run well.
LEMMA ScBegins ==
  ASSUME NEW s, NEW fault, ScInv(s), ~s.broken, ScIsFair(fault)
  PROVE  LET t == Called(s, fault) IN ScBegun(t) /\ t.broken = FALSE
<1> DEFINE t == Called(s, fault)
<1>1. ScBase(s) /\ s.broken = FALSE
  BY DEF ScInv
<1>2. ScAlike(s, t) /\ ScBase(t) /\ t.ok /\ t.jobFor = s.jobFor /\ t.broken = s.broken
  BY <1>1, ScCalls
<1> HIDE DEF t
<1>3. ScIsFair(t.fault)
  BY <1>2 DEF ScBase, ScShape
<1>4. ScSettled(t) \/ (t.fresh.src /\ t.fresh.dst)
  BY <1>1, <1>2, <1>3, ScAlikeBase DEF ScInv
<1>5. ScJobKept(t)
  BY <1>2 DEF ScInv, ScJobKept, ScAlike
<1> QED BY <1>1, <1>2, <1>4, <1>5 DEF ScBegun, t

\* The end of a call whose books say what the engine did.
LEMMA ScReturns ==
  ASSUME NEW s, ScBase(s), ScJobKept(s), s.broken \in BOOLEAN,
         ~s.broken => ScSettled(s) \/ (s.fresh.src /\ s.fresh.dst)
  PROVE  ScInv(Returned(s))
<1> DEFINE t == Returned(s)
<1>1. ScAlike(s, t) /\ ScBase(t) /\ t.jobFor = s.jobFor /\ t.broken = s.broken
  BY ScCalls
<1> HIDE DEF t
<1>2. ScIsFair(t.fault)
  BY <1>1 DEF ScBase, ScShape
<1>3. ~t.broken => ScSettled(t) \/ (t.fresh.src /\ t.fresh.dst)
  BY <1>1, <1>2, ScAlikeBase
<1>4. ScJobKept(t)
  BY <1>1 DEF ScJobKept, ScAlike
<1> QED BY <1>1, <1>3, <1>4 DEF ScInv, t

\* The end of a run.
LEMMA ScEnds ==
  ASSUME NEW s, NEW t, ScBegun(s), s.broken = FALSE, ScRan(s, t)
  PROVE  /\ t.ok => /\ ScInv(Returned([t EXCEPT !.jobFor = t.image]))
                    /\ ScBase([t EXCEPT !.jobFor = t.image])
                    /\ ScSettled([t EXCEPT !.jobFor = t.image])
                    /\ ScJobKept([t EXCEPT !.jobFor = t.image])
                    /\ [t EXCEPT !.jobFor = t.image].broken = FALSE
         /\ ~t.ok => ScInv(Returned([t EXCEPT !.broken = TRUE]))
<1> DEFINE g == [t EXCEPT !.jobFor = t.image]
           b == [t EXCEPT !.broken = TRUE]
<1>1. ScBase(t) /\ t.broken = FALSE /\ t.jobFor = s.jobFor
  BY DEF ScRan, ScSame
<1>2. ScAlike(t, g) /\ ScBase(g) /\ g.jobFor = t.image /\ g.broken = t.broken
  BY <1>1, ScBooks
<1>3. ScAlike(t, b) /\ ScBase(b) /\ b.jobFor = t.jobFor /\ b.broken = TRUE
  BY <1>1, ScBooks
<1> HIDE DEF g, b
<1>4. ASSUME t.ok
      PROVE ScInv(Returned(g)) /\ ScBase(g) /\ ScSettled(g) /\ ScJobKept(g) /\ g.broken = FALSE
  <2>1. ScSettled(t) /\ ScJobFits(t.dev.job, t.image)
    BY <1>4 DEF ScRan
  <2>2. ScIsFair(g.fault)
    BY <1>2 DEF ScBase, ScShape
  <2>3. ScSettled(g)
    BY <1>1, <1>2, <2>1, <2>2, ScAlikeBase
  <2>4. ScJobKept(g)
    BY <1>2, <2>1 DEF ScJobKept, ScAlike
  <2>5. g.broken = FALSE
    BY <1>1, <1>2
  <2>6. ScInv(Returned(g))
    BY <1>2, <2>3, <2>4, <2>5, ScReturns
  <2> QED BY <1>2, <2>3, <2>4, <2>5, <2>6
<1>5. ASSUME ~t.ok PROVE ScInv(Returned(b))
  <2>1. ScJobKept(b)
    BY <1>1, <1>3, <1>5 DEF ScRan, ScBegun, ScJobKept, ScAlike
  <2> QED BY <1>3, <2>1, ScReturns
<1> QED BY <1>4, <1>5 DEF g, b

\* A run keeps the invariant.
LEMMA ScRunKeeps ==
  ASSUME NEW fault, ScIsFair(fault), ScInv(scaler), ScRun(fault)
  PROVE  ScInv(scaler')
<1> DEFINE c == Called(scaler, fault)
           t == ScStreamOns(ScQBufs(ScPrepared(c)))
           g == [t EXCEPT !.jobFor = t.image]
           b == [t EXCEPT !.broken = TRUE]
<1>1. ~scaler.broken /\ scaler' = Returned(IF t.ok THEN g ELSE b)
  BY DEF ScRun
<1>2. ScBegun(c) /\ c.broken = FALSE
  BY <1>1, ScBegins
<1> HIDE DEF c
<1>3. ScRan(c, t)
  BY <1>2, ScRunsQueuedFirst
<1> HIDE DEF t
<1>4. (t.ok => ScInv(Returned(g))) /\ (~t.ok => ScInv(Returned(b)))
  BY <1>2, <1>3, ScEnds
<1> HIDE DEF g, b
<1> QED BY <1>1, <1>4

\* A conversion keeps the invariant.
LEMMA ScConvertKeeps ==
  ASSUME NEW fault, ScIsFair(fault), ScInv(scaler), ScConvert(fault)
  PROVE  ScInv(scaler')
<1> DEFINE c == Called(scaler, fault)
           a == ScStreamOns(ScPrepared(c))
           t == ScQBufs(a)
           g == [t EXCEPT !.jobFor = t.image]
           e == [a EXCEPT !.broken = TRUE]
           d == ScDQBuf(g, "src")
           u == Tidied(t)
           k == ScStopAll(u)
<1>1. /\ ~scaler.broken
      /\ scaler' = Returned(IF t.ok THEN ScDQBufs(g) ELSE IF a.ok THEN Failed(k) ELSE e)
  BY DEF ScConvert
<1>2. ScBegun(c) /\ c.broken = FALSE
  BY <1>1, ScBegins
<1> HIDE DEF c
<1>3. ScRan(c, t) /\ ScBase(a) /\ ScSame(c, a) /\ (~a.ok => a.dev.job = c.dev.job)
  BY <1>2, ScRunsStartedFirst
<1>4. ~a.ok => t = a
  BY ScAfterFailure
<1> HIDE DEF a, t
<1>5. CASE t.ok
  <2>1. ScBase(g) /\ ScSettled(g) /\ ScJobKept(g) /\ g.broken = FALSE
    BY <1>2, <1>3, <1>5, ScEnds
  <2> HIDE DEF g
  <2>2. ScBase(d) /\ ScOnly(g, d, "src") /\ ScSettled(d)
    BY <2>1, ScDequeues DEF Sides
  <2> HIDE DEF d
  <2> DEFINE f == ScDQBuf(d, "dst")
  <2>3. ScBase(f) /\ ScOnly(d, f, "dst") /\ ScSettled(f)
    BY <2>2, ScDequeues DEF Sides
  <2>4. ScDQBufs(g) = f
    BY DEF ScDQBufs, d
  <2> HIDE DEF f
  <2>5. ScJobKept(f) /\ f.broken = FALSE
    BY <2>1, <2>2, <2>3 DEF ScOnly, ScSame, ScJobKept
  <2>6. ScInv(Returned(f))
    BY <2>3, <2>5, ScReturns
  <2> QED BY <1>1, <1>5, <2>4, <2>6
<1>6. CASE ~t.ok /\ a.ok
  <2>1. ScBase(t) /\ t.broken = FALSE /\ ScJobKept(t)
    BY <1>2, <1>3, <1>6 DEF ScRan, ScSame, ScBegun, ScJobKept
  <2>2. ScAlike(t, u) /\ ScBase(u) /\ u.ok /\ u.jobFor = t.jobFor /\ u.broken = t.broken
    BY <2>1, ScCalls
  <2> HIDE DEF u
  <2>3. ScBase(k) /\ ScSame(u, k) /\ k.dev.job = u.dev.job /\ ScClean(k)
    BY <2>2, ScStopsAll
  <2> HIDE DEF k
  <2> DEFINE f == Failed(k)
  <2>4. ScAlike(k, f) /\ ScBase(f) /\ f.jobFor = k.jobFor /\ f.broken = k.broken
    BY <2>3, ScCalls
  <2> HIDE DEF f
  <2>5. ScIsFair(f.fault)
    BY <2>4 DEF ScBase, ScShape
  <2>6. ScSettled(f)
    BY <2>3, <2>4, <2>5, ScAlikeBase, ScCleanSettles
  <2>7. ScJobKept(f) /\ f.broken = FALSE
    BY <2>1, <2>2, <2>3, <2>4 DEF ScSame, ScJobKept, ScAlike
  <2>8. ScInv(Returned(f))
    BY <2>4, <2>6, <2>7, ScReturns
  <2> QED BY <1>1, <1>6, <2>8 DEF f
<1>7. CASE ~t.ok /\ ~a.ok
  <2>1. ScInv(Returned([t EXCEPT !.broken = TRUE]))
    BY <1>2, <1>3, <1>7, ScEnds
  <2>2. e = [t EXCEPT !.broken = TRUE]
    BY <1>4, <1>7
  <2> HIDE DEF e
  <2> QED BY <1>1, <1>7, <2>1, <2>2
<1> QED BY <1>5, <1>6, <1>7

\* The wait for a job keeps the invariant.
LEMMA ScWaitKeeps ==
  ASSUME ScInv(scaler), ScWait
  PROVE  ScInv(scaler')
<1> DEFINE c == Called(scaler, NoFault)
           d == ScDQBuf(c, "src")
           f == ScDQBuf(d, "dst")
<1>1. scaler' = Returned(f)
  BY DEF ScWait, ScDQBufs
<1>2. /\ ScAlike(scaler, c) /\ ScBase(c) /\ c.jobFor = scaler.jobFor /\ c.broken = scaler.broken
      /\ ScBase(scaler)
  <2>1. PICK fault : fault = NoFault
    OBVIOUS
  <2>2. ScIsFair(fault) /\ ScBase(scaler)
    BY <2>1, ScNoFaultIsFair DEF ScInv
  <2>3. /\ ScAlike(scaler, Called(scaler, fault)) /\ ScBase(Called(scaler, fault))
        /\ Called(scaler, fault).jobFor = scaler.jobFor
        /\ Called(scaler, fault).broken = scaler.broken
    BY <2>2, ScCalls
  <2> QED BY <2>1, <2>2, <2>3
<1> HIDE DEF c
<1>3. /\ ScBase(d) /\ ScOnly(c, d, "src") /\ d.fresh = c.fresh
      /\ ScSettled(c) => ScSettled(d)
  BY <1>2, ScDequeues DEF Sides
<1> HIDE DEF d
<1>4. /\ ScBase(f) /\ ScOnly(d, f, "dst") /\ f.fresh = d.fresh
      /\ ScSettled(d) => ScSettled(f)
  BY <1>3, ScDequeues DEF Sides
<1> HIDE DEF f
<1>5. ScIsFair(c.fault)
  BY <1>2 DEF ScBase, ScShape
<1>6. ScSettled(scaler) \/ (scaler.fresh.src /\ scaler.fresh.dst)
         => ScSettled(c) \/ (c.fresh.src /\ c.fresh.dst)
  BY <1>2, <1>5, ScAlikeBase
<1>7. ScJobKept(f) /\ f.broken = scaler.broken
  BY <1>2, <1>3, <1>4 DEF ScInv, ScOnly, ScSame, ScJobKept, ScAlike
<1>8. f.broken \in BOOLEAN /\ (~f.broken => ScSettled(f) \/ (f.fresh.src /\ f.fresh.dst))
  BY <1>3, <1>4, <1>6, <1>7 DEF ScInv
<1> QED BY <1>1, <1>4, <1>7, <1>8, ScReturns

\* A stop keeps the invariant.
LEMMA ScStopKeeps ==
  ASSUME ScInv(scaler), ScStop
  PROVE  ScInv(scaler')
<1> DEFINE c == Called(scaler, NoFault)
           k == ScStopAll(c)
           r == Returned(k)
           t == [r EXCEPT !.broken = FALSE]
<1>1. scaler' = t
  BY DEF ScStop
<1>2. /\ ScAlike(scaler, c) /\ ScBase(c) /\ c.ok /\ c.jobFor = scaler.jobFor
      /\ c.broken = scaler.broken /\ ScBase(scaler)
  <2>1. PICK fault : fault = NoFault
    OBVIOUS
  <2>2. ScIsFair(fault) /\ ScBase(scaler)
    BY <2>1, ScNoFaultIsFair DEF ScInv
  <2>3. /\ ScAlike(scaler, Called(scaler, fault)) /\ ScBase(Called(scaler, fault))
        /\ Called(scaler, fault).ok
        /\ Called(scaler, fault).jobFor = scaler.jobFor
        /\ Called(scaler, fault).broken = scaler.broken
    BY <2>2, ScCalls
  <2> QED BY <2>1, <2>2, <2>3
<1> HIDE DEF c
<1>3. ScBase(k) /\ ScSame(c, k) /\ k.dev.job = c.dev.job /\ ScClean(k)
  BY <1>2, ScStopsAll
<1> HIDE DEF k
<1>4. ScAlike(k, r) /\ ScBase(r) /\ r.jobFor = k.jobFor
  BY <1>3, ScCalls
<1> HIDE DEF r
<1>5. ScAlike(r, t) /\ ScBase(t) /\ t.jobFor = r.jobFor /\ t.broken = FALSE
  BY <1>4, ScBooks
<1> HIDE DEF t
<1>6. ScIsFair(r.fault) /\ ScIsFair(t.fault)
  BY <1>4, <1>5 DEF ScBase, ScShape
<1>7. ScSettled(r)
  BY <1>3, <1>4, <1>6, ScAlikeBase, ScCleanSettles
<1>8. ScSettled(t)
  BY <1>4, <1>5, <1>6, <1>7, ScAlikeBase
<1>9. ScJobKept(t)
  BY <1>2, <1>3, <1>4, <1>5 DEF ScInv, ScSame, ScJobKept, ScAlike
<1> QED BY <1>1, <1>5, <1>8, <1>9 DEF ScInv

\* A new image keeps the invariant.
LEMMA ScConfigureKeeps ==
  ASSUME NEW image, ScInv(scaler), ScConfigure(image)
  PROVE  ScInv(scaler')
<1> DEFINE s == scaler
           extra == IF image.drm # scaler.image.drm THEN {"protection"} ELSE {}
           names == s.freshControls \cup {"rotation", "csc"} \cup extra
           t == [s EXCEPT !.image = image, !.fresh = [q \in Sides |-> TRUE],
                          !.freshControls = names, !.broken = FALSE]
<1>1. scaler' = t
  BY DEF ScConfigure
<1>2. ScBase(s) /\ ScShape(s) /\ ScHandle(s) /\ Handle(s) /\ DOMAIN s = ScFields
  BY DEF ScInv, ScBase, ScShape, ScHandle
<1> HIDE DEF s, names
<1>3. /\ DOMAIN t = ScFields /\ t.refused = s.refused /\ t.hangs = s.hangs /\ t.ok = s.ok
      /\ t.dev = s.dev /\ t.image = image /\ t.fresh = [q \in Sides |-> TRUE]
      /\ t.reqbufs = s.reqbufs /\ t.qbuf = s.qbuf /\ t.streaming = s.streaming
      /\ t.freshControls = names /\ t.jobFor = s.jobFor /\ t.broken = FALSE /\ t.fault = s.fault
  BY <1>2 DEF ScFields
<1> HIDE DEF t
<1>4. Handle(t)
  BY <1>2, <1>3 DEF Handle, ScFields
<1>5. names \subseteq ScControlNames /\ t.fresh \in [Sides -> BOOLEAN]
  BY <1>2, <1>3 DEF ScHandle, names, ScControlNames
<1>6. ScHandle(t)
  BY <1>2, <1>3, <1>4, <1>5 DEF ScHandle
<1>7. ASSUME NEW c \in ScControlNames, c \notin t.freshControls
      PROVE  t.dev.controls[c] = ScWanted(t.image)[c]
  <2>1. c = "protection" /\ image.drm = s.image.drm /\ c \notin s.freshControls
    BY <1>3, <1>7 DEF names, ScControlNames, s
  <2>2. s.dev.controls[c] = ScWanted(s.image)[c]
    BY <1>2, <2>1 DEF ScShape
  <2> QED BY <1>3, <2>1, <2>2 DEF ScWanted
<1>8. ScShape(t)
  BY <1>2, <1>3, <1>6, <1>7 DEF ScShape
<1>9. ASSUME NEW q \in Sides PROVE ScSide(t, q)
  BY <1>2, <1>3 DEF ScBase, ScSide
<1>10. ScJobKept(t)
  BY <1>3 DEF ScInv, ScJobKept, s
<1>11. t.fresh.src /\ t.fresh.dst
  BY <1>3 DEF Sides
<1> QED BY <1>1, <1>3, <1>8, <1>9, <1>10, <1>11 DEF ScInv, ScBase

\* The invariant holds of a new handle.
LEMMA ScNewFacts == ScInv(ScNew)
<1> DEFINE s == ScNew
           k == [protection |-> FALSE, rotation |-> 0, csc |-> "none"]
<1>1. /\ DOMAIN s = ScFields /\ s.dev = IdleDevice(k)
      /\ s.fresh = [q \in Sides |-> FALSE] /\ s.reqbufs = [q \in Sides |-> FALSE]
      /\ s.qbuf = [q \in Sides |-> FALSE] /\ s.streaming = [q \in Sides |-> FALSE]
      /\ s.freshControls = {} /\ s.image = ScNoImage /\ s.broken = FALSE
      /\ s.ok = TRUE /\ s.fault = NoFault /\ s.refused = FALSE /\ s.hangs = FALSE
  BY DEF ScNew, ScFields
<1> HIDE DEF s
<1>2. /\ DOMAIN IdleQueue = QueueFields /\ IdleQueue.allocated = FALSE /\ IdleQueue.on = FALSE
      /\ IdleQueue.held = "no" /\ IdleQueue.format = "none"
  BY IdleFacts
<1>3. /\ DOMAIN s.dev = {"src", "dst", "controls", "job"}
      /\ s.dev.controls = k /\ s.dev.job = NoJob /\ \A q \in Sides : s.dev[q] = IdleQueue
  <2>1. PICK controls : controls = k
    OBVIOUS
  <2>2. /\ DOMAIN IdleDevice(controls) = {"src", "dst", "controls", "job"}
        /\ IdleDevice(controls).controls = controls /\ IdleDevice(controls).job = NoJob
        /\ \A q \in Sides : IdleDevice(controls)[q] = IdleQueue
    BY IdleFacts
  <2> QED BY <1>1, <2>1, <2>2
<1>4. Handle(s)
  BY <1>1, <1>2, <1>3 DEF Handle, ScFields, QueueFields
<1>5. ScHandle(s)
  BY <1>1, <1>3, <1>4 DEF ScHandle
<1>6. \A c \in ScControlNames : s.dev.controls[c] = ScWanted(s.image)[c]
  BY <1>1, <1>3 DEF ScWanted, ScNoImage, ScControlNames
<1>7. ScShape(s)
  BY <1>1, <1>5, <1>6, ScNoFaultIsFair DEF ScShape
<1>8. ASSUME NEW q \in Sides PROVE ScSide(s, q)
  <2>1. /\ s.dev[q].on = FALSE /\ s.dev[q].format = "none" /\ s.image.format = "none"
        /\ s.streaming[q] = FALSE /\ s.reqbufs[q] = FALSE /\ s.qbuf[q] = FALSE
    BY <1>1, <1>2, <1>3 DEF ScNoImage
  <2> QED BY <2>1 DEF ScSide
<1>9. ScSettled(s)
  BY <1>1, <1>2, <1>3 DEF ScSettled, Sides
<1> QED BY <1>1, <1>3, <1>7, <1>8, <1>9 DEF ScInv, ScBase, ScJobKept, s

(* The scaler survives the failures of all but these ioctls: the start of  *)
(* its destination's queue, the end of a queue, and a dequeue.             *)
ScFailuresAreSurvived ==
  /\ <<"STREAMON", "dst">> \notin ScFaults
  /\ \A q \in Sides : <<"DQBUF", q>> \notin ScFaults /\ <<"STREAMOFF", q>> \notin ScFaults

\* Every call keeps the invariant of the scaler.
LEMMA ScKeeps ==
  ASSUME ScFailuresAreSurvived, ScInv(scaler), [ScNext]_scaler
  PROVE  ScInv(scaler')
<1>1. \A fault \in ScFaults \cup {NoFault} : ScIsFair(fault)
  BY ScNoFaultIsFair DEF ScFailuresAreSurvived, ScIsFair
<1>2. CASE UNCHANGED scaler
  BY <1>2
<1>3. ASSUME NEW image \in ScImages, ScConfigure(image) PROVE ScInv(scaler')
  BY <1>3, ScConfigureKeeps
<1>4. ASSUME NEW fault \in ScFaults \cup {NoFault}, ScRun(fault) PROVE ScInv(scaler')
  BY <1>1, <1>4, ScRunKeeps
<1>5. ASSUME NEW fault \in ScFaults \cup {NoFault}, ScConvert(fault) PROVE ScInv(scaler')
  BY <1>1, <1>5, ScConvertKeeps
<1>6. CASE ScWait
  BY <1>6, ScWaitKeeps
<1>7. CASE ScStop
  BY <1>7, ScStopKeeps
<1> QED BY <1>2, <1>3, <1>4, <1>5, <1>6, <1>7 DEF ScNext

-----------------------------------------------------------------------------
(* The JPEG library.                                                       *)

\* The ioctls whose failure the library survives.
JpegIsFair(fault) ==
  /\ fault # <<"S_CTRL", "quality">>
  /\ \A q \in Sides : fault # <<"DQBUF", q>> /\ fault # <<"STREAMOFF", q>>

LEMMA JpegNoFaultIsFair == JpegIsFair(NoFault)
BY NoFaultFacts DEF JpegIsFair

JpegShape(s) == Handle(s) /\ ~s.hangs /\ ~s.refused /\ JpegIsFair(s.fault)

LEMMA RestIsTransitive ==
  ASSUME NEW s, NEW t, NEW u, Rest(s, t), Rest(t, u)
  PROVE  Rest(s, u)
BY DEF Rest

\* What every ioctl of the library keeps, made or not.
JpegGoesOn(s, t) == JpegShape(t) /\ Rest(s, t) /\ (t.ok => s.ok)

LEMMA JpegChains ==
  ASSUME NEW s, NEW t, NEW u, JpegGoesOn(s, t), JpegGoesOn(t, u)
  PROVE  JpegGoesOn(s, u)
BY RestIsTransitive DEF JpegGoesOn

\* An ioctl that was not made goes on.
LEMMA JpegUndone ==
  ASSUME NEW s, NEW t, JpegShape(s), Undone(s, t), t.refused = s.refused
  PROVE  JpegGoesOn(s, t) /\ ~t.ok /\ t.dev = s.dev
<1>1. "fault" \in DOMAIN s
  BY DEF JpegShape, Handle
<1>2. t.fault = s.fault
  BY <1>1 DEF Undone, Rest
<1> QED BY <1>2 DEF Undone, JpegShape, JpegGoesOn

\* An ioctl that succeeded goes on.
LEMMA JpegDone ==
  ASSUME NEW s, NEW t, JpegShape(s), Done(s, t)
  PROVE  JpegGoesOn(s, t) /\ t.ok
<1>1. "fault" \in DOMAIN s
  BY DEF JpegShape, Handle
<1>2. t.fault = s.fault
  BY <1>1 DEF Done, Rest
<1> QED BY <1>2 DEF Done, JpegShape, JpegGoesOn

\* A call that already failed makes no ioctl.
LEMMA JpegStands ==
  ASSUME NEW s, JpegShape(s)
  PROVE  JpegGoesOn(s, s)
BY DEF JpegGoesOn, Rest

\* Only the side q of the device changes.
JpegOnly(s, t, q) ==
  /\ t.dev.job = s.dev.job /\ t.dev.controls = s.dev.controls
  /\ \A p \in Sides : p # q => t.dev[p] = s.dev[p]

\* The ioctls of a side that does not stream are never refused.
LEMMA JpegFrees ==
  ASSUME NEW s, NEW q \in Sides, JpegShape(s), s.ok => ~s.dev[q].on
  PROVE  LET t == FREEBUFS(s, q) IN
         /\ JpegGoesOn(s, t) /\ JpegOnly(s, t, q)
         /\ s.ok /\ s.fault = NoFault => t.ok
         /\ ~t.ok => t.dev = s.dev
         /\ t.ok => /\ t.dev[q].format = s.dev[q].format /\ t.dev[q].on = s.dev[q].on
                    /\ t.dev[q].held = "no" /\ ~t.dev[q].allocated
<1> DEFINE t == FREEBUFS(s, q)
<1>1. Handle(s)
  BY DEF JpegShape
<1>2. NoFault # <<"FREEBUFS", q>>
  BY NoFaultFacts
<1>3. CASE ~s.ok
  <2>1. t = s
    BY <1>3 DEF FREEBUFS, Ioctl
  <2> HIDE DEF t
  <2> QED BY <1>3, <2>1, JpegStands DEF JpegOnly, t
<1>4. CASE s.ok
  <2>1. \/ Undone(s, t) /\ t.refused = s.refused /\ s.fault = <<"FREEBUFS", q>>
        \/ /\ Done(s, t) /\ t.dev.job = s.dev.job /\ t.dev.controls = s.dev.controls
           /\ \A p \in Sides : p # q => t.dev[p] = s.dev[p]
           /\ /\ t.dev[q].format = s.dev[q].format /\ t.dev[q].on = s.dev[q].on
              /\ t.dev[q].held = "no" /\ ~t.dev[q].allocated
    BY <1>1, <1>4, FreeFacts
  <2> HIDE DEF t
  <2>2. CASE Undone(s, t) /\ t.refused = s.refused /\ s.fault = <<"FREEBUFS", q>>
    <3>1. JpegGoesOn(s, t) /\ ~t.ok /\ t.dev = s.dev
      BY <2>2, JpegUndone
    <3> QED BY <1>2, <2>2, <3>1 DEF JpegOnly, t
  <2>3. CASE /\ Done(s, t) /\ t.dev.job = s.dev.job /\ t.dev.controls = s.dev.controls
             /\ \A p \in Sides : p # q => t.dev[p] = s.dev[p]
             /\ /\ t.dev[q].format = s.dev[q].format /\ t.dev[q].on = s.dev[q].on
                /\ t.dev[q].held = "no" /\ ~t.dev[q].allocated
    <3>1. JpegGoesOn(s, t) /\ t.ok
      BY <2>3, JpegDone
    <3> QED BY <2>3, <3>1 DEF JpegOnly, t
  <2> QED BY <2>1, <2>2, <2>3
<1> QED BY <1>3, <1>4

\* A buffer for a side that does not stream.
LEMMA JpegRequests ==
  ASSUME NEW s, NEW q \in Sides, JpegShape(s), s.ok => ~s.dev[q].on
  PROVE  LET t == REQBUFS(s, q) IN
         /\ JpegGoesOn(s, t) /\ JpegOnly(s, t, q)
         /\ s.ok /\ s.fault = NoFault => t.ok
         /\ ~t.ok => t.dev = s.dev
         /\ t.ok => /\ t.dev[q].format = s.dev[q].format /\ t.dev[q].on = s.dev[q].on
                    /\ t.dev[q].held = "no" /\ t.dev[q].allocated
<1> DEFINE t == REQBUFS(s, q)
<1>1. Handle(s)
  BY DEF JpegShape
<1>2. NoFault # <<"REQBUFS", q>>
  BY NoFaultFacts
<1>3. CASE ~s.ok
  <2>1. t = s
    BY <1>3 DEF REQBUFS, Ioctl
  <2> HIDE DEF t
  <2> QED BY <1>3, <2>1, JpegStands DEF JpegOnly, t
<1>4. CASE s.ok
  <2>1. \/ Undone(s, t) /\ t.refused = s.refused /\ s.fault = <<"REQBUFS", q>>
        \/ /\ Done(s, t) /\ t.dev.job = s.dev.job /\ t.dev.controls = s.dev.controls
           /\ \A p \in Sides : p # q => t.dev[p] = s.dev[p]
           /\ /\ t.dev[q].format = s.dev[q].format /\ t.dev[q].on = s.dev[q].on
              /\ t.dev[q].held = "no" /\ t.dev[q].allocated
    BY <1>1, <1>4, RequestFacts
  <2> HIDE DEF t
  <2>2. CASE Undone(s, t) /\ t.refused = s.refused /\ s.fault = <<"REQBUFS", q>>
    <3>1. JpegGoesOn(s, t) /\ ~t.ok /\ t.dev = s.dev
      BY <2>2, JpegUndone
    <3> QED BY <1>2, <2>2, <3>1 DEF JpegOnly, t
  <2>3. CASE /\ Done(s, t) /\ t.dev.job = s.dev.job /\ t.dev.controls = s.dev.controls
             /\ \A p \in Sides : p # q => t.dev[p] = s.dev[p]
             /\ /\ t.dev[q].format = s.dev[q].format /\ t.dev[q].on = s.dev[q].on
                /\ t.dev[q].held = "no" /\ t.dev[q].allocated
    <3>1. JpegGoesOn(s, t) /\ t.ok
      BY <2>3, JpegDone
    <3> QED BY <2>3, <3>1 DEF JpegOnly, t
  <2> QED BY <2>1, <2>2, <2>3
<1> QED BY <1>3, <1>4

\* The format of a side that does not stream.
LEMMA JpegFormats ==
  ASSUME NEW s, NEW q \in Sides, NEW format, JpegShape(s), s.ok => ~s.dev[q].on
  PROVE  LET t == S_FMT(s, q, format) IN
         /\ JpegGoesOn(s, t) /\ JpegOnly(s, t, q)
         /\ s.ok /\ s.fault = NoFault => t.ok
         /\ ~t.ok => t.dev = s.dev
         /\ t.ok => /\ t.dev[q].format = format /\ t.dev[q].on = s.dev[q].on
                    /\ t.dev[q].held = s.dev[q].held /\ t.dev[q].allocated = s.dev[q].allocated
<1> DEFINE t == S_FMT(s, q, format)
<1>1. Handle(s)
  BY DEF JpegShape
<1>2. NoFault # <<"S_FMT", q>>
  BY NoFaultFacts
<1>3. CASE ~s.ok
  <2>1. t = s
    BY <1>3 DEF S_FMT, Ioctl
  <2> HIDE DEF t
  <2> QED BY <1>3, <2>1, JpegStands DEF JpegOnly, t
<1>4. CASE s.ok
  <2>1. \/ Undone(s, t) /\ t.refused = s.refused /\ s.fault = <<"S_FMT", q>>
        \/ /\ Done(s, t) /\ t.dev.job = s.dev.job /\ t.dev.controls = s.dev.controls
           /\ \A p \in Sides : p # q => t.dev[p] = s.dev[p]
           /\ /\ t.dev[q].format = format /\ t.dev[q].on = s.dev[q].on
              /\ t.dev[q].held = s.dev[q].held /\ t.dev[q].allocated = s.dev[q].allocated
    BY <1>1, <1>4, FormatFacts
  <2> HIDE DEF t
  <2>2. CASE Undone(s, t) /\ t.refused = s.refused /\ s.fault = <<"S_FMT", q>>
    <3>1. JpegGoesOn(s, t) /\ ~t.ok /\ t.dev = s.dev
      BY <2>2, JpegUndone
    <3> QED BY <1>2, <2>2, <3>1 DEF JpegOnly, t
  <2>3. CASE /\ Done(s, t) /\ t.dev.job = s.dev.job /\ t.dev.controls = s.dev.controls
             /\ \A p \in Sides : p # q => t.dev[p] = s.dev[p]
             /\ /\ t.dev[q].format = format /\ t.dev[q].on = s.dev[q].on
                /\ t.dev[q].held = s.dev[q].held /\ t.dev[q].allocated = s.dev[q].allocated
    <3>1. JpegGoesOn(s, t) /\ t.ok
      BY <2>3, JpegDone
    <3> QED BY <2>3, <3>1 DEF JpegOnly, t
  <2> QED BY <2>1, <2>2, <2>3
<1> QED BY <1>3, <1>4

\* The end of a queue never fails.
LEMMA JpegTurnsOff ==
  ASSUME NEW s, NEW q \in Sides, JpegShape(s)
  PROVE  LET t == STREAMOFF(s, q) IN
         /\ JpegGoesOn(s, t) /\ JpegOnly(s, t, q)
         /\ s.ok => t.ok
         /\ ~t.ok => t.dev = s.dev
         /\ t.ok => /\ t.dev[q].format = s.dev[q].format /\ t.dev[q].held = "no"
                    /\ ~t.dev[q].on /\ t.dev[q].allocated = s.dev[q].allocated
<1> DEFINE t == STREAMOFF(s, q)
<1>1. Handle(s) /\ s.fault # <<"STREAMOFF", q>>
  BY DEF JpegShape, JpegIsFair
<1>3. CASE ~s.ok
  <2>1. t = s
    BY <1>3 DEF STREAMOFF, Ioctl
  <2> HIDE DEF t
  <2> QED BY <1>3, <2>1, JpegStands DEF JpegOnly, t
<1>4. CASE s.ok
  <2>1. /\ Done(s, t) /\ t.dev.job = s.dev.job /\ t.dev.controls = s.dev.controls
        /\ \A p \in Sides : p # q => t.dev[p] = s.dev[p]
        /\ t.dev[q].format = s.dev[q].format /\ t.dev[q].held = "no"
        /\ ~t.dev[q].on /\ t.dev[q].allocated = s.dev[q].allocated
    BY <1>1, <1>4, StreamOffFacts
  <2> HIDE DEF t
  <2>2. JpegGoesOn(s, t) /\ t.ok
    BY <2>1, JpegDone
  <2> QED BY <2>1, <2>2 DEF JpegOnly, t
<1> QED BY <1>3, <1>4

\* A queue that starts without a buffer on both sides gives the engine no job.
LEMMA JpegTurnsOn ==
  ASSUME NEW s, NEW q \in Sides, NEW o \in Sides, JpegShape(s),
         s.ok => s.dev[q].allocated /\ s.dev[o].held = "no"
  PROVE  LET t == STREAMON(s, q) IN
         /\ JpegGoesOn(s, t) /\ t.dev.job = s.dev.job /\ t.dev.controls = s.dev.controls
         /\ s.ok /\ s.fault = NoFault => t.ok
         /\ ~t.ok => t.dev = s.dev
         /\ t.ok => /\ t.dev[q].on /\ t.dev[q].allocated
                    /\ \A p \in Sides : /\ t.dev[p].format = s.dev[p].format
                                        /\ t.dev[p].held = s.dev[p].held
                                        /\ p # q => SameQueue(s, t, p)
<1> DEFINE t == STREAMON(s, q)
           runs == \A p \in Sides : (p = q \/ s.dev[p].on) /\ s.dev[p].held = "queued"
<1>1. Handle(s)
  BY DEF JpegShape
<1>2. NoFault # <<"STREAMON", q>>
  BY NoFaultFacts
<1>3. CASE ~s.ok
  <2>1. t = s
    BY <1>3 DEF STREAMON, Ioctl
  <2> HIDE DEF t
  <2> QED BY <1>3, <2>1, JpegStands DEF t
<1>4. CASE s.ok
  <2>1. \/ /\ Undone(s, t) /\ (~s.ok => t = s)
           /\ s.ok => s.fault = <<"STREAMON", q>> \/ ~s.dev[q].allocated
           /\ t.refused = s.refused \/ ~s.dev[q].allocated
        \/ /\ Done(s, t) /\ s.fault # <<"STREAMON", q>> /\ s.dev[q].allocated
           /\ t.dev.controls = s.dev.controls
           /\ t.dev[q].on /\ t.dev[q].allocated /\ t.dev[q].format = s.dev[q].format
           /\ \A p \in Sides : p # q => SameQueue(s, t, p)
           /\ runs => (\A p \in Sides : t.dev[p].held = "done") /\ t.dev.job = JobOf(s.dev)
           /\ ~runs => (\A p \in Sides : t.dev[p].held = s.dev[p].held) /\ t.dev.job = s.dev.job
    BY <1>1, StreamOnFacts
  <2>2. ~runs
    BY <1>4
  <2> HIDE DEF t, runs
  <2>3. \/ Undone(s, t) /\ t.refused = s.refused /\ s.fault = <<"STREAMON", q>>
        \/ /\ Done(s, t) /\ t.dev.controls = s.dev.controls
           /\ t.dev[q].on /\ t.dev[q].allocated /\ t.dev[q].format = s.dev[q].format
           /\ \A p \in Sides : p # q => SameQueue(s, t, p)
           /\ (\A p \in Sides : t.dev[p].held = s.dev[p].held) /\ t.dev.job = s.dev.job
    BY <1>4, <2>1, <2>2
  <2>4. CASE Undone(s, t) /\ t.refused = s.refused /\ s.fault = <<"STREAMON", q>>
    <3>1. JpegGoesOn(s, t) /\ ~t.ok /\ t.dev = s.dev
      BY <2>4, JpegUndone
    <3> QED BY <1>2, <2>4, <3>1 DEF t
  <2>5. CASE /\ Done(s, t) /\ t.dev.controls = s.dev.controls
             /\ t.dev[q].on /\ t.dev[q].allocated /\ t.dev[q].format = s.dev[q].format
             /\ \A p \in Sides : p # q => SameQueue(s, t, p)
             /\ (\A p \in Sides : t.dev[p].held = s.dev[p].held) /\ t.dev.job = s.dev.job
    <3>1. JpegGoesOn(s, t) /\ t.ok
      BY <2>5, JpegDone
    <3>2. ASSUME NEW p \in Sides PROVE t.dev[p].format = s.dev[p].format
      BY <2>5 DEF SameQueue
    <3> QED BY <2>5, <3>1, <3>2 DEF t
  <2> QED BY <2>3, <2>4, <2>5
<1> QED BY <1>3, <1>4

\* A buffer goes to the driver; the engine works when the other side waits for it.
LEMMA JpegEnqueues ==
  ASSUME NEW s, NEW q \in Sides, NEW o \in Sides, o # q, JpegShape(s),
         s.ok => /\ s.dev[q].allocated /\ s.dev[q].held = "no"
                 /\ s.dev[q].on /\ s.dev[o].on
  PROVE  LET t == QBUF(s, q) IN
         /\ JpegGoesOn(s, t) /\ t.dev.controls = s.dev.controls
         /\ ~t.ok => t.dev = s.dev
         /\ t.ok => /\ SameQueue(s, t, q) /\ SameQueue(s, t, o)
                    /\ s.dev[o].held = "queued" =>
                         /\ t.dev[q].held = "done" /\ t.dev[o].held = "done"
                         /\ t.dev.job = JobOf(s.dev)
                    /\ s.dev[o].held # "queued" =>
                         /\ t.dev[q].held = "queued" /\ t.dev[o].held = s.dev[o].held
                         /\ t.dev.job = s.dev.job
<1> DEFINE t == QBUF(s, q)
           runs == \A p \in Sides : s.dev[p].on /\ (p = q \/ s.dev[p].held = "queued")
<1>1. Handle(s)
  BY DEF JpegShape
<1>2. \A p \in Sides : p = q \/ p = o
  BY DEF Sides
<1>3. CASE ~s.ok
  <2>1. t = s
    BY <1>3 DEF QBUF, Ioctl
  <2> HIDE DEF t
  <2> QED BY <1>3, <2>1, JpegStands DEF t
<1>4. CASE s.ok
  <2>1. \/ /\ Undone(s, t) /\ (~s.ok => t = s)
           /\ s.ok => s.fault = <<"QBUF", q>> \/ ~(s.dev[q].allocated /\ s.dev[q].held = "no")
           /\ t.refused = s.refused \/ ~(s.dev[q].allocated /\ s.dev[q].held = "no")
        \/ /\ Done(s, t) /\ s.fault # <<"QBUF", q>> /\ s.dev[q].allocated /\ s.dev[q].held = "no"
           /\ t.dev.controls = s.dev.controls
           /\ \A p \in Sides : SameQueue(s, t, p)
           /\ runs => (\A p \in Sides : t.dev[p].held = "done") /\ t.dev.job = JobOf(s.dev)
           /\ ~runs => /\ t.dev[q].held = "queued" /\ t.dev.job = s.dev.job
                      /\ \A p \in Sides : p # q => t.dev[p].held = s.dev[p].held
    BY <1>1, EnqueueFacts
  <2>2. runs <=> s.dev[o].held = "queued"
    BY <1>2, <1>4
  <2> HIDE DEF t, runs
  <2>3. CASE Undone(s, t) /\ t.refused = s.refused
    <3>1. JpegGoesOn(s, t) /\ ~t.ok /\ t.dev = s.dev
      BY <2>3, JpegUndone
    <3> QED BY <3>1 DEF t
  <2>4. CASE /\ Done(s, t) /\ t.dev.controls = s.dev.controls
             /\ \A p \in Sides : SameQueue(s, t, p)
             /\ runs => (\A p \in Sides : t.dev[p].held = "done") /\ t.dev.job = JobOf(s.dev)
             /\ ~runs => /\ t.dev[q].held = "queued" /\ t.dev.job = s.dev.job
                        /\ \A p \in Sides : p # q => t.dev[p].held = s.dev[p].held
    <3>1. JpegGoesOn(s, t) /\ t.ok
      BY <2>4, JpegDone
    <3> QED BY <2>2, <2>4, <3>1 DEF t
  <2>5. s.dev[q].allocated /\ s.dev[q].held = "no"
    BY <1>4
  <2> QED BY <2>1, <2>3, <2>4, <2>5
<1> QED BY <1>3, <1>4

\* A buffer the engine is done with is taken back.
LEMMA JpegTakes ==
  ASSUME NEW s, NEW q \in Sides, JpegShape(s), s.ok => s.dev[q].on /\ s.dev[q].held = "done"
  PROVE  LET t == DQBUF(s, q) IN
         /\ JpegGoesOn(s, t) /\ JpegOnly(s, t, q) /\ (s.ok => t.ok) /\ (~t.ok => t.dev = s.dev)
         /\ t.ok => SameQueue(s, t, q) /\ t.dev[q].held = "no"
<1> DEFINE t == DQBUF(s, q)
<1>1. Handle(s) /\ s.fault # <<"DQBUF", q>>
  BY DEF JpegShape, JpegIsFair
<1>2. \/ Undone(s, t) /\ t.refused = s.refused /\ ~s.ok
      \/ /\ Done(s, t) /\ t.dev.job = s.dev.job /\ t.dev.controls = s.dev.controls
         /\ \A p \in Sides : SameQueue(s, t, p)
         /\ t.dev[q].held = "no" /\ \A p \in Sides : p # q => t.dev[p] = s.dev[p]
  <2>1. \/ /\ Undone(s, t) /\ t.refused = s.refused
           /\ s.ok => s.fault = <<"DQBUF", q>> \/ ~s.dev[q].on
        \/ /\ s.ok /\ s.dev[q].on /\ s.dev[q].held # "done" /\ s.fault # <<"DQBUF", q>>
        \/ /\ Done(s, t) /\ s.fault # <<"DQBUF", q>> /\ s.dev[q].on /\ s.dev[q].held = "done"
           /\ t.dev.job = s.dev.job /\ t.dev.controls = s.dev.controls
           /\ \A p \in Sides : SameQueue(s, t, p)
           /\ t.dev[q].held = "no" /\ \A p \in Sides : p # q => t.dev[p] = s.dev[p]
    BY <1>1, DequeueFacts
  <2> HIDE DEF t
  <2> QED BY <1>1, <2>1
<1> HIDE DEF t
<1>3. CASE Undone(s, t) /\ t.refused = s.refused /\ ~s.ok
  <2>1. JpegGoesOn(s, t) /\ ~t.ok /\ t.dev = s.dev
    BY <1>3, JpegUndone
  <2> QED BY <1>3, <2>1 DEF JpegOnly, t
<1>4. CASE /\ Done(s, t) /\ t.dev.job = s.dev.job /\ t.dev.controls = s.dev.controls
           /\ \A p \in Sides : SameQueue(s, t, p)
           /\ t.dev[q].held = "no" /\ \A p \in Sides : p # q => t.dev[p] = s.dev[p]
  <2>1. JpegGoesOn(s, t) /\ t.ok
    BY <1>4, JpegDone
  <2> QED BY <1>4, <2>1 DEF JpegOnly, t
<1> QED BY <1>2, <1>3, <1>4

\* The controls of the encoder never fail.
LEMMA JpegControls ==
  ASSUME NEW s, NEW value, JpegShape(s)
  PROVE  LET t == S_CTRL(s, "quality", value) IN
         /\ JpegGoesOn(s, t) /\ t.dev.job = s.dev.job /\ (s.ok => t.ok)
         /\ \A p \in Sides : t.dev[p] = s.dev[p]
         /\ s.ok => Updated(t.dev.controls, s.dev.controls, "quality", value)
<1>1. Handle(s) /\ s.fault # <<"S_CTRL", "quality">>
  BY DEF JpegShape, JpegIsFair
<1>2. PICK c : c = "quality"
  OBVIOUS
<1> DEFINE t == S_CTRL(s, c, value)
<1>3. \/ Undone(s, t) /\ (~s.ok => t = s) /\ t.refused = s.refused
         /\ (s.ok => s.fault = <<"S_CTRL", c>>)
      \/ /\ Done(s, t) /\ s.fault # <<"S_CTRL", c>> /\ t.dev.job = s.dev.job
         /\ \A p \in Sides : t.dev[p] = s.dev[p]
         /\ Updated(t.dev.controls, s.dev.controls, c, value)
  BY <1>1, ControlFacts
<1> HIDE DEF t
<1>4. \/ Undone(s, t) /\ t.refused = s.refused /\ ~s.ok
      \/ /\ Done(s, t) /\ t.dev.job = s.dev.job
         /\ \A p \in Sides : t.dev[p] = s.dev[p]
         /\ Updated(t.dev.controls, s.dev.controls, c, value)
  BY <1>1, <1>2, <1>3
<1>5. CASE Undone(s, t) /\ t.refused = s.refused /\ ~s.ok
  <2>1. JpegGoesOn(s, t) /\ ~t.ok /\ t.dev = s.dev
    BY <1>5, JpegUndone
  <2> QED BY <1>2, <1>5, <2>1 DEF t
<1>6. CASE /\ Done(s, t) /\ t.dev.job = s.dev.job
           /\ \A p \in Sides : t.dev[p] = s.dev[p]
           /\ Updated(t.dev.controls, s.dev.controls, c, value)
  <2>1. JpegGoesOn(s, t) /\ t.ok
    BY <1>6, JpegDone
  <2> QED BY <1>2, <1>6, <2>1 DEF t
<1> QED BY <1>4, <1>5, <1>6

\* The steps of a call that make no ioctl.
LEMMA JpegCalls ==
  ASSUME NEW s, JpegShape(s)
  PROVE  /\ JpegShape(Failed(s)) /\ Failed(s).dev = s.dev /\ ~Failed(s).ok /\ Rest(s, Failed(s))
         /\ JpegShape(Tidied(s)) /\ Tidied(s).dev = s.dev /\ Tidied(s).ok /\ Tidied(s).fault = NoFault
         /\ JpegShape(Returned(s)) /\ Returned(s).dev = s.dev /\ Returned(s).ok = s.ok
         /\ \A fault : JpegIsFair(fault) => /\ JpegShape(Called(s, fault)) /\ Called(s, fault).ok
                                            /\ Called(s, fault).dev = s.dev
         /\ DOMAIN Tidied(s) = DOMAIN s /\ DOMAIN Returned(s) = DOMAIN s
         /\ \A fault : DOMAIN Called(s, fault) = DOMAIN s
         /\ \A f \in DOMAIN s : f \notin {"ok", "fault"} =>
              /\ Tidied(s)[f] = s[f] /\ Returned(s)[f] = s[f]
              /\ \A fault : Called(s, fault)[f] = s[f]
<1>1. Handle(s) /\ ~s.hangs /\ ~s.refused /\ JpegIsFair(s.fault) /\ "fault" \in DOMAIN s
  BY DEF JpegShape, Handle
<1>2. /\ Kept(s, Failed(s)) /\ Rest(s, Failed(s)) /\ ~Failed(s).ok
      /\ Kept(s, Tidied(s)) /\ Tidied(s).ok /\ Tidied(s).fault = NoFault
      /\ \A fault : /\ Kept(s, Called(s, fault)) /\ Called(s, fault).ok
                    /\ Called(s, fault).fault = fault
      /\ Kept(s, Returned(s)) /\ Returned(s).ok = s.ok
  BY <1>1, CallFacts
<1>3. Failed(s).fault = s.fault
  BY <1>1, <1>2 DEF Rest
<1>4. Returned(s).fault = NoFault
  BY <1>1 DEF Returned
<1>5. JpegShape(Failed(s)) /\ Failed(s).dev = s.dev
  BY <1>1, <1>2, <1>3 DEF Kept, JpegShape
<1>6. JpegShape(Tidied(s)) /\ Tidied(s).dev = s.dev
  BY <1>1, <1>2, JpegNoFaultIsFair DEF Kept, JpegShape
<1>7. JpegShape(Returned(s)) /\ Returned(s).dev = s.dev
  BY <1>1, <1>2, <1>4, JpegNoFaultIsFair DEF Kept, JpegShape
<1>8. \A fault : JpegIsFair(fault) => JpegShape(Called(s, fault)) /\ Called(s, fault).dev = s.dev
  BY <1>1, <1>2 DEF Kept, JpegShape
<1>9. /\ DOMAIN Tidied(s) = DOMAIN s /\ DOMAIN Returned(s) = DOMAIN s
      /\ \A fault : DOMAIN Called(s, fault) = DOMAIN s
      /\ \A f \in DOMAIN s : f \notin {"ok", "fault"} =>
           /\ Tidied(s)[f] = s[f] /\ Returned(s)[f] = s[f]
           /\ \A fault : Called(s, fault)[f] = s[f]
  BY <1>1, CallFacts
<1> QED BY <1>2, <1>5, <1>6, <1>7, <1>8, <1>9

-----------------------------------------------------------------------------
(* The compressor.                                                         *)

CompFields == {"newFormat", "reqbufs", "streaming", "queued", "image", "pending", "buffers",
               "quality", "jobFor", "dev", "ok", "fault", "refused", "hangs"}

CompShape(s) ==
  /\ JpegShape(s) /\ DOMAIN s = CompFields /\ DOMAIN s.dev.controls = {"quality"}
  /\ s.newFormat \in BOOLEAN /\ s.reqbufs \in BOOLEAN /\ s.streaming \in BOOLEAN
  /\ s.queued \in BOOLEAN /\ s.buffers \in BOOLEAN

\* The quality last set is in the device, or UpdateControls has still to set it.
CompQuality(s) ==
  /\ s.pending = "none" => s.dev.controls.quality = s.quality
  /\ s.pending # "none" => s.pending = s.quality

\* What the flags say of the two queues.
CompSides(s) ==
  /\ s.streaming => s.reqbufs
  /\ \A q \in Sides : /\ s.dev[q].on <=> s.streaming
                      /\ s.reqbufs /\ ~s.newFormat => s.dev[q].allocated
                      /\ ~s.newFormat => s.dev[q].format = s.image

\* The queues hold buffers the engine is done with while a job is queued, and none else.
CompHeld(s) ==
  /\ s.queued => s.streaming
  /\ \A q \in Sides : s.dev[q].held = IF s.queued THEN "done" ELSE "no"

CompJobKept(s) ==
  s.dev.job # NoJob => /\ s.dev.job.src = s.jobFor[1] /\ s.dev.job.dst = s.jobFor[1]
                       /\ s.dev.job.controls.quality = s.jobFor[2]

CompInv(s) == CompShape(s) /\ CompQuality(s) /\ CompSides(s) /\ CompHeld(s) /\ CompJobKept(s)

\* What an object has beside its device.
CompSetup(s, t) ==
  /\ t.image = s.image /\ t.buffers = s.buffers /\ t.quality = s.quality /\ t.pending = s.pending
  /\ t.jobFor = s.jobFor /\ t.newFormat = s.newFormat
CompFlags(s, t) == t.reqbufs = s.reqbufs /\ t.streaming = s.streaming /\ t.queued = s.queued

\* An ioctl leaves the fields of the object.
LEMMA CompRest ==
  ASSUME NEW s, NEW t, CompShape(s), JpegShape(t), Rest(s, t),
         DOMAIN t.dev.controls = DOMAIN s.dev.controls
  PROVE  CompShape(t) /\ CompSetup(s, t) /\ CompFlags(s, t) /\ t.fault = s.fault
<1>1. DOMAIN s = CompFields
  BY DEF CompShape
<1>2. /\ t.newFormat = s.newFormat /\ t.reqbufs = s.reqbufs /\ t.streaming = s.streaming
      /\ t.queued = s.queued /\ t.image = s.image /\ t.pending = s.pending
      /\ t.buffers = s.buffers /\ t.quality = s.quality /\ t.jobFor = s.jobFor
      /\ t.fault = s.fault /\ DOMAIN t = CompFields
  BY <1>1 DEF Rest, CompFields
<1> QED BY <1>2 DEF CompShape, CompSetup, CompFlags

LEMMA CompGoes ==
  ASSUME NEW s, NEW t, CompShape(s), JpegGoesOn(s, t), t.dev.controls = s.dev.controls
  PROVE  CompShape(t) /\ CompSetup(s, t) /\ CompFlags(s, t) /\ t.fault = s.fault
BY CompRest DEF JpegGoesOn

\* A flag of the object changes.
LEMMA CompNewFormatSet ==
  ASSUME NEW s, CompShape(s), NEW v \in BOOLEAN
  PROVE  LET t == [s EXCEPT !.newFormat = v] IN
         /\ CompShape(t) /\ CompFlags(s, t) /\ t.newFormat = v /\ t.dev = s.dev /\ t.ok = s.ok
         /\ t.image = s.image /\ t.buffers = s.buffers /\ t.quality = s.quality
         /\ t.pending = s.pending /\ t.jobFor = s.jobFor /\ t.fault = s.fault
<1> DEFINE t == [s EXCEPT !.newFormat = v]
<1>1. CompFields = DOMAIN s /\ JpegShape(s)
  BY DEF CompShape
<1>2. JpegShape(t)
  BY <1>1 DEF JpegShape, Handle
<1>3. /\ DOMAIN t = CompFields /\ t.newFormat = v
      /\ t.reqbufs = s.reqbufs /\ t.streaming = s.streaming /\ t.queued = s.queued /\ t.image = s.image
      /\ t.pending = s.pending /\ t.buffers = s.buffers /\ t.quality = s.quality /\ t.jobFor = s.jobFor
      /\ t.dev = s.dev /\ t.ok = s.ok /\ t.fault = s.fault /\ t.refused = s.refused
      /\ t.hangs = s.hangs
  BY <1>1 DEF CompFields
<1> HIDE DEF t
<1>4. CompShape(t) /\ CompFlags(s, t)
  BY <1>2, <1>3 DEF CompShape, CompFlags
<1> QED BY <1>3, <1>4 DEF t

LEMMA CompReqbufsSet ==
  ASSUME NEW s, CompShape(s), NEW v \in BOOLEAN
  PROVE  LET t == [s EXCEPT !.reqbufs = v] IN
         /\ CompShape(t) /\ CompSetup(s, t) /\ t.reqbufs = v /\ t.dev = s.dev /\ t.ok = s.ok
         /\ t.streaming = s.streaming /\ t.queued = s.queued /\ t.fault = s.fault
<1> DEFINE t == [s EXCEPT !.reqbufs = v]
<1>1. CompFields = DOMAIN s /\ JpegShape(s)
  BY DEF CompShape
<1>2. JpegShape(t)
  BY <1>1 DEF JpegShape, Handle
<1>3. /\ DOMAIN t = CompFields /\ t.reqbufs = v
      /\ t.newFormat = s.newFormat /\ t.streaming = s.streaming /\ t.queued = s.queued /\ t.image = s.image
      /\ t.pending = s.pending /\ t.buffers = s.buffers /\ t.quality = s.quality /\ t.jobFor = s.jobFor
      /\ t.dev = s.dev /\ t.ok = s.ok /\ t.fault = s.fault /\ t.refused = s.refused
      /\ t.hangs = s.hangs
  BY <1>1 DEF CompFields
<1> HIDE DEF t
<1>4. CompShape(t) /\ CompSetup(s, t)
  BY <1>2, <1>3 DEF CompShape, CompSetup
<1> QED BY <1>3, <1>4 DEF t

LEMMA CompStreamingSet ==
  ASSUME NEW s, CompShape(s), NEW v \in BOOLEAN
  PROVE  LET t == [s EXCEPT !.streaming = v] IN
         /\ CompShape(t) /\ CompSetup(s, t) /\ t.streaming = v /\ t.dev = s.dev /\ t.ok = s.ok
         /\ t.reqbufs = s.reqbufs /\ t.queued = s.queued /\ t.fault = s.fault
<1> DEFINE t == [s EXCEPT !.streaming = v]
<1>1. CompFields = DOMAIN s /\ JpegShape(s)
  BY DEF CompShape
<1>2. JpegShape(t)
  BY <1>1 DEF JpegShape, Handle
<1>3. /\ DOMAIN t = CompFields /\ t.streaming = v
      /\ t.newFormat = s.newFormat /\ t.reqbufs = s.reqbufs /\ t.queued = s.queued /\ t.image = s.image
      /\ t.pending = s.pending /\ t.buffers = s.buffers /\ t.quality = s.quality /\ t.jobFor = s.jobFor
      /\ t.dev = s.dev /\ t.ok = s.ok /\ t.fault = s.fault /\ t.refused = s.refused
      /\ t.hangs = s.hangs
  BY <1>1 DEF CompFields
<1> HIDE DEF t
<1>4. CompShape(t) /\ CompSetup(s, t)
  BY <1>2, <1>3 DEF CompShape, CompSetup
<1> QED BY <1>3, <1>4 DEF t

LEMMA CompQueuedSet ==
  ASSUME NEW s, CompShape(s), NEW v \in BOOLEAN
  PROVE  LET t == [s EXCEPT !.queued = v] IN
         /\ CompShape(t) /\ CompSetup(s, t) /\ t.queued = v /\ t.dev = s.dev /\ t.ok = s.ok
         /\ t.reqbufs = s.reqbufs /\ t.streaming = s.streaming /\ t.fault = s.fault
<1> DEFINE t == [s EXCEPT !.queued = v]
<1>1. CompFields = DOMAIN s /\ JpegShape(s)
  BY DEF CompShape
<1>2. JpegShape(t)
  BY <1>1 DEF JpegShape, Handle
<1>3. /\ DOMAIN t = CompFields /\ t.queued = v
      /\ t.newFormat = s.newFormat /\ t.reqbufs = s.reqbufs /\ t.streaming = s.streaming /\ t.image = s.image
      /\ t.pending = s.pending /\ t.buffers = s.buffers /\ t.quality = s.quality /\ t.jobFor = s.jobFor
      /\ t.dev = s.dev /\ t.ok = s.ok /\ t.fault = s.fault /\ t.refused = s.refused
      /\ t.hangs = s.hangs
  BY <1>1 DEF CompFields
<1> HIDE DEF t
<1>4. CompShape(t) /\ CompSetup(s, t)
  BY <1>2, <1>3 DEF CompShape, CompSetup
<1> QED BY <1>3, <1>4 DEF t

LEMMA SidesFacts ==
  /\ "src" \in Sides /\ "dst" \in Sides /\ "src" # "dst"
  /\ \A q \in Sides : q = "src" \/ q = "dst"
BY DEF Sides

\* What the stages of a call leave of an object that is not given a job.
CompMoved(s, t) == CompSetup(s, t) /\ t.dev.job = s.dev.job /\ t.dev.controls = s.dev.controls

\* What depends on the object and its last job only.
LEMMA CompMovedKeeps ==
  ASSUME NEW s, NEW t, CompMoved(s, t)
  PROVE  /\ CompQuality(s) => CompQuality(t)
         /\ CompJobKept(s) => CompJobKept(t)
BY DEF CompMoved, CompSetup, CompQuality, CompJobKept

\* StreamOff.
LEMMA CompTurnsOff ==
  ASSUME NEW s, CompShape(s), s.ok, \A q \in Sides : s.dev[q].on <=> s.streaming,
         \A q \in Sides : ~s.streaming => s.dev[q].held = "no"
  PROVE  LET t == CompStreamOff(s) IN
         /\ CompShape(t) /\ CompMoved(s, t) /\ t.ok /\ ~t.streaming
         /\ t.reqbufs = s.reqbufs /\ t.queued = s.queued /\ t.fault = s.fault
         /\ \A q \in Sides : /\ ~t.dev[q].on /\ t.dev[q].held = "no"
                             /\ t.dev[q].format = s.dev[q].format
<1> DEFINE t == CompStreamOff(s)
<1>1. CASE ~s.streaming
  <2>1. t = s
    BY <1>1 DEF CompStreamOff
  <2> QED BY <1>1, <2>1 DEF CompMoved, CompSetup
<1>2. CASE s.streaming
  <2> DEFINE u == STREAMOFF(s, "src")
             v == STREAMOFF(u, "dst")
  <2>1. t = [v EXCEPT !.streaming = FALSE]
    BY <1>2 DEF CompStreamOff
  <2>2. /\ JpegGoesOn(s, u) /\ JpegOnly(s, u, "src") /\ u.ok
        /\ u.dev["src"].format = s.dev["src"].format /\ u.dev["src"].held = "no" /\ ~u.dev["src"].on
    BY SidesFacts, JpegTurnsOff DEF CompShape
  <2> HIDE DEF u
  <2>3. /\ JpegGoesOn(u, v) /\ JpegOnly(u, v, "dst") /\ v.ok
        /\ v.dev["dst"].format = u.dev["dst"].format /\ v.dev["dst"].held = "no" /\ ~v.dev["dst"].on
    BY <2>2, SidesFacts, JpegTurnsOff DEF JpegGoesOn
  <2> HIDE DEF v
  <2>4. JpegGoesOn(s, v) /\ v.dev.controls = s.dev.controls /\ v.dev.job = s.dev.job
    BY <2>2, <2>3, JpegChains DEF JpegOnly
  <2>5. CompShape(v) /\ CompSetup(s, v) /\ CompFlags(s, v) /\ v.fault = s.fault
    BY <2>4, CompGoes
  <2>6. /\ CompShape(t) /\ CompSetup(v, t) /\ t.streaming = FALSE /\ t.dev = v.dev /\ t.ok = v.ok
        /\ t.reqbufs = v.reqbufs /\ t.queued = v.queued /\ t.fault = v.fault
    <3>1. PICK b \in BOOLEAN : b = FALSE
      OBVIOUS
    <3>2. LET w == [v EXCEPT !.streaming = b] IN
          /\ CompShape(w) /\ CompSetup(v, w) /\ w.streaming = b /\ w.dev = v.dev /\ w.ok = v.ok
          /\ w.reqbufs = v.reqbufs /\ w.queued = v.queued /\ w.fault = v.fault
      BY <2>5, CompStreamingSet
    <3> QED BY <2>1, <3>1, <3>2
  <2>7. u.dev["dst"] = s.dev["dst"] /\ v.dev["src"] = u.dev["src"]
    BY <2>2, <2>3, SidesFacts DEF JpegOnly
  <2> HIDE DEF t
  <2>8. ASSUME NEW q \in Sides
        PROVE  ~t.dev[q].on /\ t.dev[q].held = "no" /\ t.dev[q].format = s.dev[q].format
    BY <2>2, <2>3, <2>6, <2>7, SidesFacts
  <2>9. CompMoved(s, t)
    BY <2>4, <2>5, <2>6 DEF CompMoved, CompSetup
  <2> QED BY <2>3, <2>5, <2>6, <2>8, <2>9 DEF CompFlags, t
<1> QED BY <1>1, <1>2

\* ReqBufs(0).
LEMMA CompFrees ==
  ASSUME NEW s, CompShape(s), s.ok, \A q \in Sides : ~s.dev[q].on /\ s.dev[q].held = "no"
  PROVE  LET t == CompFreeBufs(s) IN
         /\ CompShape(t) /\ CompMoved(s, t)
         /\ t.streaming = s.streaming /\ t.queued = s.queued /\ t.fault = s.fault
         /\ s.fault = NoFault => t.ok
         /\ t.ok => ~t.reqbufs
         /\ \A q \in Sides : /\ ~t.dev[q].on /\ t.dev[q].held = "no"
                             /\ t.dev[q].format = s.dev[q].format
<1> DEFINE t == CompFreeBufs(s)
<1>1. CASE ~s.reqbufs
  <2>1. t = s
    BY <1>1 DEF CompFreeBufs
  <2> QED BY <1>1, <2>1 DEF CompMoved, CompSetup
<1>2. CASE s.reqbufs
  <2> DEFINE u == FREEBUFS(s, "src")
             v == FREEBUFS(u, "dst")
  <2>1. t = IF v.ok THEN [v EXCEPT !.reqbufs = FALSE] ELSE v
    BY <1>2 DEF CompFreeBufs
  <2>2. /\ JpegGoesOn(s, u) /\ JpegOnly(s, u, "src") /\ (s.fault = NoFault => u.ok)
        /\ u.dev["src"].format = s.dev["src"].format /\ u.dev["src"].held = "no" /\ ~u.dev["src"].on
    BY SidesFacts, JpegFrees DEF CompShape
  <2> HIDE DEF u
  <2>3. u.dev["dst"] = s.dev["dst"] /\ ~u.dev["dst"].on /\ u.fault = s.fault
    BY <2>2, SidesFacts DEF JpegOnly, JpegGoesOn, Rest, CompShape, CompFields
  <2>4. /\ JpegGoesOn(u, v) /\ JpegOnly(u, v, "dst") /\ (u.ok /\ u.fault = NoFault => v.ok)
        /\ v.dev["dst"].format = u.dev["dst"].format /\ v.dev["dst"].held = "no" /\ ~v.dev["dst"].on
    BY <2>2, <2>3, SidesFacts, JpegFrees DEF JpegGoesOn
  <2> HIDE DEF v
  <2>5. JpegGoesOn(s, v) /\ v.dev.controls = s.dev.controls /\ v.dev.job = s.dev.job
    BY <2>2, <2>4, JpegChains DEF JpegOnly
  <2>6. CompShape(v) /\ CompSetup(s, v) /\ CompFlags(s, v) /\ v.fault = s.fault
    BY <2>5, CompGoes
  <2>7. /\ CompShape(t) /\ CompSetup(v, t) /\ t.dev = v.dev /\ t.ok = v.ok /\ (v.ok => ~t.reqbufs)
        /\ t.streaming = v.streaming /\ t.queued = v.queued /\ t.fault = v.fault
    <3>1. PICK b \in BOOLEAN : b = FALSE
      OBVIOUS
    <3>2. LET w == [v EXCEPT !.reqbufs = b] IN
          /\ CompShape(w) /\ CompSetup(v, w) /\ w.reqbufs = b /\ w.dev = v.dev /\ w.ok = v.ok
          /\ w.streaming = v.streaming /\ w.queued = v.queued /\ w.fault = v.fault
      BY <2>6, CompReqbufsSet
    <3>3. CASE v.ok
      BY <2>1, <3>1, <3>2, <3>3
    <3>4. CASE ~v.ok
      BY <2>1, <2>6, <3>4 DEF CompSetup
    <3> QED BY <3>3, <3>4
  <2>8. v.dev["src"] = u.dev["src"]
    BY <2>4, SidesFacts DEF JpegOnly
  <2> HIDE DEF t
  <2>9. ASSUME NEW q \in Sides
        PROVE  ~t.dev[q].on /\ t.dev[q].held = "no" /\ t.dev[q].format = s.dev[q].format
    BY <2>2, <2>3, <2>4, <2>7, <2>8, SidesFacts
  <2>10. CompMoved(s, t)
    BY <2>5, <2>6, <2>7 DEF CompMoved, CompSetup
  <2>11. s.fault = NoFault => t.ok
    BY <2>2, <2>3, <2>4, <2>7
  <2> QED BY <2>6, <2>7, <2>9, <2>10, <2>11 DEF CompFlags, t
<1> QED BY <1>1, <1>2

\* StopStreaming, of an object whose format changed, or with no ioctl that fails.
LEMMA CompStops ==
  ASSUME NEW s, CompShape(s), CompQuality(s), CompJobKept(s), s.ok,
         \A q \in Sides : s.dev[q].on <=> s.streaming,
         \A q \in Sides : ~s.streaming => s.dev[q].held = "no",
         \A q \in Sides : ~s.newFormat => s.dev[q].format = s.image,
         s.newFormat \/ s.fault = NoFault
  PROVE  LET t == StopStreaming(s) IN
         /\ CompInv(t) /\ CompMoved(s, t) /\ ~t.streaming /\ ~t.queued
         /\ t.ok => ~t.reqbufs
         /\ s.fault = NoFault => t.ok
<1> DEFINE u == CompStreamOff(s)
           v == [u EXCEPT !.queued = FALSE]
           t == StopStreaming(s)
<1>0. t = CompFreeBufs(v)
  BY DEF StopStreaming
<1>1. /\ CompShape(u) /\ CompMoved(s, u) /\ u.ok /\ ~u.streaming
      /\ u.reqbufs = s.reqbufs /\ u.queued = s.queued /\ u.fault = s.fault
      /\ \A q \in Sides : /\ ~u.dev[q].on /\ u.dev[q].held = "no"
                          /\ u.dev[q].format = s.dev[q].format
  BY CompTurnsOff
<1> HIDE DEF u
<1>2. /\ CompShape(v) /\ CompSetup(u, v) /\ v.queued = FALSE /\ v.dev = u.dev /\ v.ok = u.ok
      /\ v.reqbufs = u.reqbufs /\ v.streaming = u.streaming /\ v.fault = u.fault
  <2>1. PICK b \in BOOLEAN : b = FALSE
    OBVIOUS
  <2>2. LET w == [u EXCEPT !.queued = b] IN
        /\ CompShape(w) /\ CompSetup(u, w) /\ w.queued = b /\ w.dev = u.dev /\ w.ok = u.ok
        /\ w.reqbufs = u.reqbufs /\ w.streaming = u.streaming /\ w.fault = u.fault
    BY <1>1, CompQueuedSet
  <2> QED BY <2>1, <2>2
<1> HIDE DEF v
<1>3. v.ok /\ \A q \in Sides : ~v.dev[q].on /\ v.dev[q].held = "no"
  BY <1>1, <1>2
<1>4. /\ CompShape(t) /\ CompMoved(v, t)
      /\ t.streaming = v.streaming /\ t.queued = v.queued /\ t.fault = v.fault
      /\ v.fault = NoFault => t.ok
      /\ t.ok => ~t.reqbufs
      /\ \A q \in Sides : /\ ~t.dev[q].on /\ t.dev[q].held = "no"
                          /\ t.dev[q].format = v.dev[q].format
  BY <1>0, <1>2, <1>3, CompFrees
<1> HIDE DEF t
<1>5. CompMoved(s, t)
  BY <1>1, <1>2, <1>4 DEF CompMoved, CompSetup
<1>6. CompQuality(t) /\ CompJobKept(t)
  BY <1>5, CompMovedKeeps
<1>7. t.newFormat = s.newFormat /\ t.image = s.image
  BY <1>5 DEF CompMoved, CompSetup
<1>8. CompSides(t)
  BY <1>1, <1>2, <1>4, <1>7 DEF CompSides
<1>9. CompHeld(t)
  BY <1>2, <1>4 DEF CompHeld
<1> QED BY <1>1, <1>2, <1>4, <1>5, <1>6, <1>8, <1>9 DEF CompInv, t

\* Between two stages of Compress, once the object stopped.
CompStopped(s) == ~s.streaming /\ ~s.queued

\* SetFormat, which follows a stop.
LEMMA CompFormats ==
  ASSUME NEW s, CompInv(s), CompStopped(s), s.newFormat, s.ok => ~s.reqbufs
  PROVE  LET t == CompSetFormat(s) IN
         CompInv(t) /\ (t.ok => ~t.newFormat /\ CompStopped(t))
<1> DEFINE u == S_FMT(s, "src", s.image)
           v == S_FMT(u, "dst", s.image)
           t == CompSetFormat(s)
<1>0. t = IF v.ok THEN [v EXCEPT !.newFormat = FALSE] ELSE v
  BY DEF CompSetFormat
<1>s. /\ CompShape(s) /\ JpegShape(s) /\ CompQuality(s) /\ CompJobKept(s)
      /\ \A q \in Sides : ~s.dev[q].on /\ s.dev[q].held = "no"
  BY DEF CompInv, CompShape, CompSides, CompHeld, CompStopped
<1>1. /\ JpegGoesOn(s, u) /\ JpegOnly(s, u, "src")
      /\ ~u.ok => u.dev = s.dev
      /\ u.ok => /\ u.dev["src"].format = s.image /\ u.dev["src"].on = s.dev["src"].on
                 /\ u.dev["src"].held = s.dev["src"].held
  BY <1>s, SidesFacts, JpegFormats
<1> HIDE DEF u
<1>2. /\ \A q \in Sides : ~u.dev[q].on /\ u.dev[q].held = "no"
      /\ u.ok => u.dev["src"].format = s.image
  BY <1>1, <1>s, SidesFacts DEF JpegOnly
<1>3. /\ JpegGoesOn(u, v) /\ JpegOnly(u, v, "dst")
      /\ ~v.ok => v.dev = u.dev
      /\ v.ok => /\ v.dev["dst"].format = s.image /\ v.dev["dst"].on = u.dev["dst"].on
                 /\ v.dev["dst"].held = u.dev["dst"].held
  BY <1>1, <1>2, SidesFacts, JpegFormats DEF JpegGoesOn
<1> HIDE DEF v
<1>4. /\ \A q \in Sides : ~v.dev[q].on /\ v.dev[q].held = "no"
      /\ v.ok => \A q \in Sides : v.dev[q].format = s.image
  BY <1>1, <1>2, <1>3, SidesFacts DEF JpegOnly, JpegGoesOn
<1>5. JpegGoesOn(s, v) /\ v.dev.controls = s.dev.controls /\ v.dev.job = s.dev.job
  BY <1>1, <1>3, JpegChains DEF JpegOnly
<1>6. CompShape(v) /\ CompSetup(s, v) /\ CompFlags(s, v)
  BY <1>5, <1>s, CompGoes
<1>7. CompQuality(v) /\ CompJobKept(v) /\ CompStopped(v) /\ (v.ok => ~v.reqbufs)
  BY <1>s, <1>5, <1>6, CompMovedKeeps DEF CompMoved, CompFlags, CompStopped, JpegGoesOn
<1>8. CASE ~v.ok
  <2>1. CompInv(v)
    BY <1>4, <1>6, <1>7 DEF CompInv, CompSides, CompHeld, CompStopped, CompSetup
  <2> QED BY <1>0, <1>8, <2>1
<1>9. CASE v.ok
  <2>1. PICK b \in BOOLEAN : b = FALSE
    OBVIOUS
  <2> DEFINE w == [v EXCEPT !.newFormat = b]
  <2>2. /\ CompShape(w) /\ CompFlags(v, w) /\ w.newFormat = b /\ w.dev = v.dev /\ w.ok = v.ok
        /\ w.image = v.image /\ w.buffers = v.buffers /\ w.quality = v.quality
        /\ w.pending = v.pending /\ w.jobFor = v.jobFor /\ w.fault = v.fault
    BY <1>6, CompNewFormatSet
  <2>3. t = w
    BY <1>0, <1>9, <2>1
  <2> HIDE DEF w, t
  <2>4. CompQuality(w) /\ CompJobKept(w) /\ CompStopped(w) /\ ~w.newFormat /\ ~w.reqbufs
    BY <1>7, <1>9, <2>1, <2>2 DEF CompQuality, CompJobKept, CompFlags, CompStopped
  <2>5. CompSides(w) /\ CompHeld(w)
    BY <1>4, <1>6, <1>9, <2>2, <2>4 DEF CompSides, CompHeld, CompStopped, CompSetup
  <2>6. CompInv(w)
    BY <2>2, <2>4, <2>5 DEF CompInv
  <2> QED BY <2>3, <2>4, <2>6 DEF t
<1> QED BY <1>8, <1>9

\* ReqBufs(1).
LEMMA CompRequests ==
  ASSUME NEW s, CompInv(s), s.ok => ~s.newFormat /\ ~s.queued
  PROVE  LET t == CompReqBufs(s) IN
         CompInv(t) /\ (t.ok => ~t.newFormat /\ ~t.queued /\ t.reqbufs)
<1> DEFINE t == CompReqBufs(s)
<1>1. CASE ~s.ok \/ s.reqbufs
  <2>1. t = s
    BY <1>1 DEF CompReqBufs
  <2> QED BY <1>1, <2>1
<1>2. CASE s.ok /\ ~s.reqbufs
  <2> DEFINE u == REQBUFS(s, "src")
             v == REQBUFS(u, "dst")
             x == Tidied(v)
             y == FREEBUFS(x, "src")
             z == Failed(y)
  <2>0. t = IF v.ok THEN [v EXCEPT !.reqbufs = TRUE] ELSE IF u.ok THEN z ELSE u
    BY <1>2 DEF CompReqBufs
  <2>s. /\ CompShape(s) /\ JpegShape(s) /\ CompQuality(s) /\ CompJobKept(s) /\ CompStopped(s)
        /\ \A q \in Sides : ~s.dev[q].on /\ s.dev[q].held = "no" /\ s.dev[q].format = s.image
        /\ ~s.newFormat
    BY <1>2 DEF CompInv, CompShape, CompSides, CompHeld, CompStopped
  <2>1. /\ JpegGoesOn(s, u) /\ JpegOnly(s, u, "src")
        /\ ~u.ok => u.dev = s.dev
        /\ u.ok => /\ u.dev["src"].format = s.dev["src"].format /\ u.dev["src"].on = s.dev["src"].on
                   /\ u.dev["src"].held = "no" /\ u.dev["src"].allocated
    BY <2>s, SidesFacts, JpegRequests
  <2> HIDE DEF u
  <2>2. \A q \in Sides : ~u.dev[q].on /\ u.dev[q].held = "no" /\ u.dev[q].format = s.image
    BY <2>1, <2>s, SidesFacts DEF JpegOnly
  <2>3. /\ JpegGoesOn(u, v) /\ JpegOnly(u, v, "dst")
        /\ ~v.ok => v.dev = u.dev
        /\ v.ok => /\ v.dev["dst"].format = u.dev["dst"].format /\ v.dev["dst"].on = u.dev["dst"].on
                   /\ v.dev["dst"].held = "no" /\ v.dev["dst"].allocated
    BY <2>1, <2>2, SidesFacts, JpegRequests DEF JpegGoesOn
  <2> HIDE DEF v
  <2>4. /\ \A q \in Sides : ~v.dev[q].on /\ v.dev[q].held = "no" /\ v.dev[q].format = s.image
        /\ v.ok => \A q \in Sides : v.dev[q].allocated
    BY <2>1, <2>2, <2>3, SidesFacts DEF JpegOnly, JpegGoesOn
  <2>5. /\ JpegGoesOn(s, v) /\ v.dev.controls = s.dev.controls /\ v.dev.job = s.dev.job
        /\ u.dev.controls = s.dev.controls /\ u.dev.job = s.dev.job
    BY <2>1, <2>3, JpegChains DEF JpegOnly
  <2>6. /\ CompShape(v) /\ CompSetup(s, v) /\ CompFlags(s, v)
        /\ CompShape(u) /\ CompSetup(s, u) /\ CompFlags(s, u)
    BY <2>1, <2>5, <2>s, CompGoes
  <2>7. ASSUME NEW w, CompShape(w), CompMoved(s, w), ~w.streaming, ~w.queued,
               \A q \in Sides : ~w.dev[q].on /\ w.dev[q].held = "no" /\ w.dev[q].format = s.image,
               w.reqbufs => \A q \in Sides : w.dev[q].allocated
        PROVE  CompInv(w)
    <3>1. CompQuality(w) /\ CompJobKept(w) /\ w.newFormat = s.newFormat /\ w.image = s.image
      BY <2>7, <2>s, CompMovedKeeps DEF CompMoved, CompSetup
    <3>2. CompSides(w) /\ CompHeld(w)
      BY <2>7, <3>1 DEF CompSides, CompHeld
    <3> QED BY <2>7, <3>1, <3>2 DEF CompInv
  <2>8. CASE v.ok
    <3>1. PICK b \in BOOLEAN : b = TRUE
      OBVIOUS
    <3> DEFINE w == [v EXCEPT !.reqbufs = b]
    <3>2. /\ CompShape(w) /\ CompSetup(v, w) /\ w.reqbufs = b /\ w.dev = v.dev /\ w.ok = v.ok
          /\ w.streaming = v.streaming /\ w.queued = v.queued /\ w.fault = v.fault
      BY <2>6, CompReqbufsSet
    <3>3. t = w
      BY <2>0, <2>8, <3>1
    <3> HIDE DEF w, t
    <3>4. CompMoved(s, w) /\ ~w.streaming /\ ~w.queued /\ ~w.newFormat
      BY <2>5, <2>6, <2>s, <3>2 DEF CompMoved, CompSetup, CompFlags, CompStopped
    <3>5. CompInv(w)
      BY <2>4, <2>7, <2>8, <3>2, <3>4
    <3> QED BY <3>1, <3>2, <3>3, <3>4, <3>5 DEF t
  <2>9. CASE ~v.ok /\ u.ok
    <3>1. /\ JpegShape(x) /\ x.dev = v.dev /\ x.ok /\ DOMAIN x = DOMAIN v
          /\ \A f \in DOMAIN v : f \notin {"ok", "fault"} => x[f] = v[f]
      BY <2>6, JpegCalls DEF CompShape
    <3> HIDE DEF x
    <3>2. /\ CompShape(x) /\ CompSetup(v, x) /\ CompFlags(v, x)
      BY <2>6, <3>1 DEF CompShape, CompFields, CompSetup, CompFlags
    <3>3. /\ JpegGoesOn(x, y) /\ JpegOnly(x, y, "src")
          /\ ~y.ok => y.dev = x.dev
          /\ y.ok => /\ y.dev["src"].format = x.dev["src"].format /\ y.dev["src"].on = x.dev["src"].on
                     /\ y.dev["src"].held = "no"
      BY <2>4, <3>1, SidesFacts, JpegFrees
    <3> HIDE DEF y
    <3>4. /\ \A q \in Sides : ~y.dev[q].on /\ y.dev[q].held = "no" /\ y.dev[q].format = s.image
          /\ y.dev.controls = s.dev.controls /\ y.dev.job = s.dev.job
      BY <2>4, <2>5, <3>1, <3>3, SidesFacts DEF JpegOnly
    <3>5. CompShape(y) /\ CompSetup(x, y) /\ CompFlags(x, y)
      BY <3>2, <3>3, CompGoes DEF JpegOnly
    <3>6. JpegShape(z) /\ z.dev = y.dev /\ ~z.ok /\ Rest(y, z)
      BY <3>5, JpegCalls DEF CompShape
    <3>7. t = z
      BY <2>0, <2>9
    <3> HIDE DEF z, t
    <3>8. CompShape(z) /\ CompSetup(y, z) /\ CompFlags(y, z)
      BY <3>5, <3>6, CompRest
    <3>9. CompMoved(s, z) /\ ~z.streaming /\ ~z.queued /\ ~z.reqbufs
      BY <1>2, <2>6, <2>s, <3>2, <3>4, <3>5, <3>6, <3>8
      DEF CompMoved, CompSetup, CompFlags, CompStopped
    <3>10. CompInv(z)
      BY <2>7, <3>4, <3>6, <3>8, <3>9
    <3> QED BY <3>6, <3>7, <3>10 DEF t
  <2>10. CASE ~u.ok
    <3>1. ~v.ok
      BY <2>3, <2>10 DEF JpegGoesOn
    <3>2. t = u
      BY <2>0, <2>10, <3>1
    <3> HIDE DEF t
    <3>3. CompMoved(s, u) /\ ~u.streaming /\ ~u.queued /\ ~u.reqbufs
      BY <1>2, <2>5, <2>6, <2>s DEF CompMoved, CompFlags, CompStopped
    <3>4. CompInv(u)
      BY <2>2, <2>6, <2>7, <3>3
    <3> QED BY <2>10, <3>2, <3>4 DEF t
  <2> QED BY <2>8, <2>9, <2>10
<1> QED BY <1>1, <1>2

\* StreamOn.
LEMMA CompTurnsOn ==
  ASSUME NEW s, CompInv(s), s.ok => ~s.newFormat /\ ~s.queued /\ s.reqbufs
  PROVE  LET t == CompStreamOn(s) IN
         CompInv(t) /\ (t.ok => ~t.newFormat /\ ~t.queued /\ t.streaming)
<1> DEFINE t == CompStreamOn(s)
<1>1. CASE ~s.ok \/ s.streaming
  <2>1. t = s
    BY <1>1 DEF CompStreamOn
  <2> QED BY <1>1, <2>1
<1>2. CASE s.ok /\ ~s.streaming
  <2> DEFINE u == STREAMON(s, "src")
             v == STREAMON(u, "dst")
             x == Tidied(v)
             y == STREAMOFF(x, "src")
             z == Failed(y)
  <2>0. t = IF v.ok THEN [v EXCEPT !.streaming = TRUE] ELSE IF u.ok THEN z ELSE u
    BY <1>2 DEF CompStreamOn
  <2>s. /\ CompShape(s) /\ JpegShape(s) /\ CompQuality(s) /\ CompJobKept(s) /\ CompStopped(s)
        /\ \A q \in Sides : /\ ~s.dev[q].on /\ s.dev[q].held = "no" /\ s.dev[q].format = s.image
                            /\ s.dev[q].allocated
        /\ ~s.newFormat /\ s.reqbufs
    BY <1>2 DEF CompInv, CompShape, CompSides, CompHeld, CompStopped
  <2>1. /\ JpegGoesOn(s, u) /\ u.dev.job = s.dev.job /\ u.dev.controls = s.dev.controls
        /\ ~u.ok => u.dev = s.dev
        /\ u.ok => /\ u.dev["src"].on /\ u.dev["src"].allocated
                   /\ \A p \in Sides : /\ u.dev[p].format = s.dev[p].format
                                       /\ u.dev[p].held = s.dev[p].held
                                       /\ p # "src" => SameQueue(s, u, p)
    BY <2>s, SidesFacts, JpegTurnsOn
  <2> HIDE DEF u
  <2>2. /\ \A q \in Sides : /\ u.dev[q].held = "no" /\ u.dev[q].format = s.image
                            /\ u.dev[q].allocated
        /\ u.ok => u.dev["src"].on
        /\ ~u.dev["dst"].on
        /\ ~u.ok => ~u.dev["src"].on
    BY <2>1, <2>s, SidesFacts DEF SameQueue
  <2>3. /\ JpegGoesOn(u, v) /\ v.dev.job = u.dev.job /\ v.dev.controls = u.dev.controls
        /\ ~v.ok => v.dev = u.dev
        /\ v.ok => /\ v.dev["dst"].on /\ v.dev["dst"].allocated
                   /\ \A p \in Sides : /\ v.dev[p].format = u.dev[p].format
                                       /\ v.dev[p].held = u.dev[p].held
                                       /\ p # "dst" => SameQueue(u, v, p)
    BY <2>1, <2>2, SidesFacts, JpegTurnsOn DEF JpegGoesOn
  <2> HIDE DEF v
  <2>4. /\ \A q \in Sides : /\ v.dev[q].held = "no" /\ v.dev[q].format = s.image
                            /\ v.dev[q].allocated
        /\ v.ok => \A q \in Sides : v.dev[q].on
        /\ ~v.ok => ~v.dev["dst"].on
    BY <2>1, <2>2, <2>3, SidesFacts DEF SameQueue, JpegGoesOn
  <2>5. /\ JpegGoesOn(s, v) /\ v.dev.controls = s.dev.controls /\ v.dev.job = s.dev.job
    BY <2>1, <2>3, JpegChains
  <2>6. /\ CompShape(v) /\ CompSetup(s, v) /\ CompFlags(s, v)
        /\ CompShape(u) /\ CompSetup(s, u) /\ CompFlags(s, u)
    BY <2>1, <2>5, <2>s, CompGoes
  <2>7. ASSUME NEW w, CompShape(w), CompMoved(s, w), w.reqbufs, ~w.queued,
               \A q \in Sides : w.dev[q].held = "no" /\ w.dev[q].format = s.image,
               \A q \in Sides : w.dev[q].allocated,
               \A q \in Sides : w.dev[q].on <=> w.streaming
        PROVE  CompInv(w)
    <3>1. CompQuality(w) /\ CompJobKept(w) /\ w.newFormat = s.newFormat /\ w.image = s.image
      BY <2>7, <2>s, CompMovedKeeps DEF CompMoved, CompSetup
    <3>2. CompSides(w) /\ CompHeld(w)
      BY <2>7, <3>1 DEF CompSides, CompHeld
    <3> QED BY <2>7, <3>1, <3>2 DEF CompInv
  <2>8. CASE v.ok
    <3>1. PICK b \in BOOLEAN : b = TRUE
      OBVIOUS
    <3> DEFINE w == [v EXCEPT !.streaming = b]
    <3>2. /\ CompShape(w) /\ CompSetup(v, w) /\ w.streaming = b /\ w.dev = v.dev /\ w.ok = v.ok
          /\ w.reqbufs = v.reqbufs /\ w.queued = v.queued /\ w.fault = v.fault
      BY <2>6, CompStreamingSet
    <3>3. t = w
      BY <2>0, <2>8, <3>1
    <3> HIDE DEF w, t
    <3>4. CompMoved(s, w) /\ w.reqbufs /\ ~w.queued /\ ~w.newFormat
      BY <2>5, <2>6, <2>s, <3>2 DEF CompMoved, CompSetup, CompFlags, CompStopped
    <3>5. \A q \in Sides : w.dev[q].on <=> w.streaming
      BY <2>4, <2>8, <3>1, <3>2
    <3>6. CompInv(w)
      BY <2>4, <2>7, <3>2, <3>4, <3>5
    <3> QED BY <3>1, <3>2, <3>3, <3>4, <3>6 DEF t
  <2>9. CASE ~v.ok /\ u.ok
    <3>1. /\ JpegShape(x) /\ x.dev = v.dev /\ x.ok /\ DOMAIN x = DOMAIN v
          /\ \A f \in DOMAIN v : f \notin {"ok", "fault"} => x[f] = v[f]
      BY <2>6, JpegCalls DEF CompShape
    <3> HIDE DEF x
    <3>2. /\ CompShape(x) /\ CompSetup(v, x) /\ CompFlags(v, x)
      BY <2>6, <3>1 DEF CompShape, CompFields, CompSetup, CompFlags
    <3>3. /\ JpegGoesOn(x, y) /\ JpegOnly(x, y, "src") /\ y.ok
          /\ y.dev["src"].format = x.dev["src"].format /\ y.dev["src"].held = "no"
          /\ ~y.dev["src"].on /\ y.dev["src"].allocated = x.dev["src"].allocated
      BY <3>1, SidesFacts, JpegTurnsOff
    <3> HIDE DEF y
    <3>4. /\ \A q \in Sides : y.dev[q].held = "no" /\ y.dev[q].format = s.image
          /\ \A q \in Sides : ~y.dev[q].on /\ y.dev[q].allocated
          /\ y.dev.controls = s.dev.controls /\ y.dev.job = s.dev.job
      BY <2>4, <2>5, <2>9, <3>1, <3>3, SidesFacts DEF JpegOnly
    <3>5. CompShape(y) /\ CompSetup(x, y) /\ CompFlags(x, y)
      BY <3>2, <3>3, CompGoes DEF JpegOnly
    <3>6. JpegShape(z) /\ z.dev = y.dev /\ ~z.ok /\ Rest(y, z)
      BY <3>5, JpegCalls DEF CompShape
    <3>7. t = z
      BY <2>0, <2>9
    <3> HIDE DEF z, t
    <3>8. CompShape(z) /\ CompSetup(y, z) /\ CompFlags(y, z)
      BY <3>5, <3>6, CompRest
    <3>9. CompMoved(s, z) /\ ~z.streaming /\ ~z.queued /\ z.reqbufs
      BY <1>2, <2>6, <2>s, <3>2, <3>4, <3>5, <3>6, <3>8
      DEF CompMoved, CompSetup, CompFlags, CompStopped
    <3>10. CompInv(z)
      BY <2>7, <3>4, <3>6, <3>8, <3>9
    <3> QED BY <3>6, <3>7, <3>10 DEF t
  <2>10. CASE ~u.ok
    <3>1. ~v.ok
      BY <2>3, <2>10 DEF JpegGoesOn
    <3>2. t = u
      BY <2>0, <2>10, <3>1
    <3> HIDE DEF t
    <3>3. CompMoved(s, u) /\ ~u.streaming /\ ~u.queued /\ u.reqbufs
      BY <1>2, <2>5, <2>6, <2>s, <2>1 DEF CompMoved, CompFlags, CompStopped
    <3>5. \A q \in Sides : u.dev[q].on <=> u.streaming
      BY <2>2, <2>10, <3>3, SidesFacts
    <3>4. CompInv(u)
      BY <2>2, <2>6, <2>7, <3>3, <3>5
    <3> QED BY <2>10, <3>2, <3>4 DEF t
  <2> QED BY <2>8, <2>9, <2>10
<1> QED BY <1>1, <1>2

\* UpdateControls.
LEMMA CompSetsControls ==
  ASSUME NEW s, CompInv(s), s.ok => ~s.newFormat /\ ~s.queued /\ s.streaming
  PROVE  LET t == UpdateControls(s) IN
         /\ CompInv(t)
         /\ t.ok => ~t.newFormat /\ ~t.queued /\ t.streaming /\ t.dev.controls.quality = t.quality
<1> DEFINE t == UpdateControls(s)
<1>1. CASE ~s.ok \/ s.pending = "none"
  <2>1. t = s
    BY <1>1 DEF UpdateControls
  <2> QED BY <1>1, <2>1 DEF CompInv, CompQuality
<1>2. CASE s.ok /\ s.pending # "none"
  <2> DEFINE p == s.pending
             u == [s EXCEPT !.pending = "none"]
             v == S_CTRL(u, "quality", p)
  <2>0. t = v
    BY <1>2 DEF UpdateControls
  <2>s. CompShape(s) /\ JpegShape(s) /\ DOMAIN s = CompFields
    BY DEF CompInv, CompShape
  <2>1. JpegShape(u)
    BY <2>s DEF JpegShape, Handle
  <2>2. /\ DOMAIN u = CompFields /\ u.pending = "none" /\ u.dev = s.dev /\ u.ok = s.ok
        /\ u.image = s.image /\ u.buffers = s.buffers /\ u.quality = s.quality
        /\ u.jobFor = s.jobFor /\ u.newFormat = s.newFormat
        /\ u.reqbufs = s.reqbufs /\ u.streaming = s.streaming /\ u.queued = s.queued
    BY <2>s DEF CompFields
  <2> HIDE DEF u
  <2>3. CompShape(u) /\ CompFlags(s, u)
    BY <2>s, <2>1, <2>2 DEF CompShape, CompFlags
  <2>4. p = s.quality
    BY <1>2 DEF CompInv, CompQuality
  <2> HIDE DEF p
  <2>5. /\ JpegGoesOn(u, v) /\ v.dev.job = u.dev.job /\ v.ok
        /\ \A q \in Sides : v.dev[q] = u.dev[q]
        /\ Updated(v.dev.controls, u.dev.controls, "quality", p)
    BY <1>2, <2>1, <2>2, JpegControls
  <2> HIDE DEF v, t
  <2>6. DOMAIN u.dev.controls = {"quality"}
    BY <2>3 DEF CompShape
  <2>7. DOMAIN v.dev.controls = DOMAIN u.dev.controls /\ v.dev.controls.quality = p
    BY <2>5, <2>6 DEF Updated
  <2>8. CompShape(v) /\ CompSetup(u, v) /\ CompFlags(u, v)
    BY <2>3, <2>5, <2>7, CompRest DEF JpegGoesOn
  <2>9. CompQuality(v) /\ CompJobKept(v)
    BY <2>2, <2>4, <2>5, <2>7, <2>8 DEF CompInv, CompQuality, CompJobKept, CompSetup
  <2>10. CompSides(v) /\ CompHeld(v)
    BY <2>2, <2>3, <2>5, <2>8 DEF CompInv, CompSides, CompHeld, CompSetup, CompFlags
  <2>11. CompInv(v)
    BY <2>8, <2>9, <2>10 DEF CompInv
  <2> QED BY <1>2, <2>0, <2>2, <2>3, <2>4, <2>7, <2>8, <2>11 DEF CompSetup, CompFlags, t
<1> QED BY <1>1, <1>2

\* A failure that is only recorded.
LEMMA CompFails ==
  ASSUME NEW s, CompInv(s)
  PROVE  LET t == Failed(s) IN CompInv(t) /\ ~t.ok /\ t.dev = s.dev /\ CompFlags(s, t) /\ CompSetup(s, t)
<1> DEFINE t == Failed(s)
<1>1. JpegShape(t) /\ t.dev = s.dev /\ ~t.ok /\ Rest(s, t)
  BY JpegCalls DEF CompInv, CompShape
<1> HIDE DEF t
<1>2. CompShape(t) /\ CompSetup(s, t) /\ CompFlags(s, t)
  BY <1>1, CompRest DEF CompInv
<1>3. CompQuality(t) /\ CompJobKept(t) /\ CompSides(t) /\ CompHeld(t)
  BY <1>1, <1>2 DEF CompInv, CompQuality, CompJobKept, CompSides, CompHeld, CompSetup, CompFlags
<1> QED BY <1>1, <1>2, <1>3 DEF CompInv, t

\* QBuf: the job is done with the image and the quality of the call.
LEMMA CompQueues ==
  ASSUME NEW s, CompInv(s),
         s.ok => ~s.newFormat /\ ~s.queued /\ s.streaming /\ s.dev.controls.quality = s.quality
  PROVE  CompInv(CompQBuf(s))
<1> DEFINE u == QBUF(s, "src")
           v == QBUF(u, "dst")
           x == Tidied(v)
           y == StopStreaming(x)
           z == Failed(y)
           w == [v EXCEPT !.queued = TRUE, !.jobFor = <<s.image, s.quality>>]
           t == CompQBuf(s)
<1>0. t = IF v.ok THEN w ELSE IF u.ok THEN z ELSE u
  BY DEF CompQBuf, CompCancel
<1>s. /\ CompShape(s) /\ JpegShape(s) /\ CompQuality(s) /\ CompJobKept(s) /\ CompSides(s) /\ CompHeld(s)
      /\ s.ok => \A q \in Sides : /\ s.dev[q].on /\ s.dev[q].held = "no" /\ s.dev[q].format = s.image
                                  /\ s.dev[q].allocated
  BY DEF CompInv, CompShape, CompSides, CompHeld
<1>1. /\ JpegGoesOn(s, u) /\ u.dev.controls = s.dev.controls
      /\ ~u.ok => u.dev = s.dev
      /\ u.ok => /\ SameQueue(s, u, "src") /\ SameQueue(s, u, "dst")
                 /\ s.dev["dst"].held # "queued" =>
                      /\ u.dev["src"].held = "queued" /\ u.dev["dst"].held = s.dev["dst"].held
                      /\ u.dev.job = s.dev.job
  BY <1>s, SidesFacts, JpegEnqueues
<1> HIDE DEF u
<1>2. u.ok => /\ s.ok /\ u.dev["src"].held = "queued" /\ u.dev["dst"].held = "no"
              /\ u.dev.job = s.dev.job
              /\ \A q \in Sides : u.dev[q].on /\ u.dev[q].allocated /\ u.dev[q].format = s.image
  <2>1. ASSUME u.ok PROVE s.ok
    BY <1>1, <2>1 DEF JpegGoesOn
  <2>2. ASSUME u.ok PROVE s.dev["dst"].held = "no"
    BY <1>s, <2>1, <2>2, SidesFacts
  <2> QED BY <1>1, <1>s, <2>1, <2>2, SidesFacts DEF SameQueue
<1>3. /\ JpegGoesOn(u, v) /\ v.dev.controls = u.dev.controls
      /\ ~v.ok => v.dev = u.dev
      /\ v.ok => /\ SameQueue(u, v, "dst") /\ SameQueue(u, v, "src")
                 /\ u.dev["src"].held = "queued" =>
                      /\ v.dev["dst"].held = "done" /\ v.dev["src"].held = "done"
                      /\ v.dev.job = JobOf(u.dev)
  BY <1>1, <1>2, SidesFacts, JpegEnqueues DEF JpegGoesOn
<1> HIDE DEF v
<1>4. JpegGoesOn(s, v) /\ v.dev.controls = s.dev.controls
  BY <1>1, <1>3, JpegChains
<1>5. /\ CompShape(v) /\ CompSetup(s, v) /\ CompFlags(s, v)
      /\ CompShape(u) /\ CompSetup(s, u) /\ CompFlags(s, u)
  BY <1>1, <1>4, <1>s, CompGoes
<1>6. CASE v.ok
  <2>1. u.ok /\ s.ok
    BY <1>2, <1>3, <1>6 DEF JpegGoesOn
  <2>2. /\ \A q \in Sides : /\ v.dev[q].held = "done" /\ v.dev[q].on /\ v.dev[q].allocated
                            /\ v.dev[q].format = s.image
        /\ v.dev.job = JobOf(u.dev)
    BY <1>2, <1>3, <1>6, <2>1, SidesFacts DEF SameQueue
  <2>3. /\ v.dev.job.src = s.image /\ v.dev.job.dst = s.image
        /\ v.dev.job.controls.quality = s.quality
    BY <1>1, <1>2, <2>1, <2>2, SidesFacts DEF JobOf
  <2>4. JpegShape(v) /\ DOMAIN v = CompFields
    BY <1>5 DEF CompShape
  <2>5. /\ DOMAIN w = CompFields /\ w.dev = v.dev /\ w.ok = v.ok /\ w.queued = TRUE
        /\ w.jobFor = <<s.image, s.quality>>
        /\ w.newFormat = v.newFormat /\ w.reqbufs = v.reqbufs /\ w.streaming = v.streaming
        /\ w.image = v.image /\ w.pending = v.pending /\ w.buffers = v.buffers
        /\ w.quality = v.quality /\ w.fault = v.fault /\ w.refused = v.refused /\ w.hangs = v.hangs
    BY <2>4 DEF CompFields
  <2> HIDE DEF w
  <2>6. JpegShape(w)
    BY <2>4, <2>5 DEF JpegShape, Handle, CompFields
  <2>7. CompShape(w)
    BY <1>5, <2>5, <2>6 DEF CompShape
  <2>8. CompQuality(w) /\ CompJobKept(w)
    BY <1>4, <1>5, <1>s, <2>3, <2>5 DEF CompQuality, CompJobKept, CompSetup
  <2>9. CompSides(w) /\ CompHeld(w)
    BY <1>5, <1>s, <2>1, <2>2, <2>5 DEF CompSides, CompHeld, CompSetup, CompFlags
  <2> QED BY <1>0, <1>6, <2>7, <2>8, <2>9 DEF CompInv
<1>7. CASE ~v.ok /\ u.ok
  <2>1. /\ JpegShape(x) /\ x.dev = v.dev /\ x.ok /\ x.fault = NoFault /\ DOMAIN x = DOMAIN v
        /\ \A f \in DOMAIN v : f \notin {"ok", "fault"} => x[f] = v[f]
    BY <1>5, JpegCalls DEF CompShape
  <2> HIDE DEF x
  <2>2. CompShape(x) /\ CompSetup(v, x) /\ CompFlags(v, x)
    BY <1>5, <2>1 DEF CompShape, CompFields, CompSetup, CompFlags
  <2>3. s.ok /\ x.streaming
    BY <1>2, <1>5, <1>7, <2>2 DEF CompFlags
  <2>4. CompMoved(s, x)
    BY <1>2, <1>3, <1>4, <1>5, <1>7, <2>1, <2>2 DEF CompMoved, CompSetup
  <2>5. CompQuality(x) /\ CompJobKept(x)
    BY <1>s, <2>4, CompMovedKeeps
  <2>6. \A q \in Sides : x.dev[q].on /\ x.dev[q].format = x.image
    BY <1>2, <1>3, <1>7, <2>1, <2>4 DEF CompMoved, CompSetup
  <2>7. CompInv(y)
    BY <2>1, <2>2, <2>3, <2>5, <2>6, CompStops
  <2> HIDE DEF y
  <2>8. CompInv(z)
    BY <2>7, CompFails
  <2> QED BY <1>0, <1>7, <2>8
<1>8. CASE ~u.ok
  <2>1. ~v.ok
    BY <1>3, <1>8 DEF JpegGoesOn
  <2>2. u.dev = s.dev
    BY <1>1, <1>8
  <2>3. CompQuality(u) /\ CompJobKept(u) /\ CompSides(u) /\ CompHeld(u)
    BY <1>5, <1>s, <2>2 DEF CompQuality, CompJobKept, CompSides, CompHeld, CompSetup, CompFlags
  <2> QED BY <1>0, <1>5, <1>8, <2>1, <2>3 DEF CompInv
<1> QED BY <1>6, <1>7, <1>8

\* DQBuf.
LEMMA CompDequeues ==
  ASSUME NEW s, CompInv(s)
  PROVE  CompInv(CompDQBuf(s))
<1> DEFINE u == DQBUF(s, "src")
           x == [u EXCEPT !.ok = TRUE]
           v == DQBUF(x, "dst")
           w == [v EXCEPT !.queued = FALSE, !.ok = u.ok /\ v.ok]
           t == CompDQBuf(s)
<1>1. CASE ~s.ok \/ ~s.queued
  BY <1>1 DEF CompDQBuf
<1>2. CASE s.ok /\ s.queued
  <2>0. t = w
    BY <1>2 DEF CompDQBuf
  <2>s. /\ CompShape(s) /\ JpegShape(s) /\ CompQuality(s) /\ CompJobKept(s) /\ CompSides(s) /\ CompHeld(s)
        /\ \A q \in Sides : s.dev[q].on /\ s.dev[q].held = "done"
    BY <1>2 DEF CompInv, CompShape, CompSides, CompHeld
  <2>1. /\ JpegGoesOn(s, u) /\ JpegOnly(s, u, "src") /\ u.ok
        /\ SameQueue(s, u, "src") /\ u.dev["src"].held = "no"
    BY <1>2, <2>s, SidesFacts, JpegTakes
  <2> HIDE DEF u
  <2>2. JpegGoesOn(s, x) /\ JpegOnly(s, x, "src") /\ x.ok /\ x.dev = u.dev
    <3>1. JpegShape(u) /\ Rest(s, u) /\ DOMAIN u = CompFields
      BY <2>1, <2>s DEF JpegGoesOn, Rest, CompShape
    <3>2. JpegShape(x) /\ Rest(u, x) /\ x.ok /\ x.dev = u.dev
      BY <3>1 DEF JpegShape, Handle, Rest, CompFields
    <3> HIDE DEF x
    <3>3. Rest(s, x)
      BY <3>1, <3>2, RestIsTransitive
    <3> QED BY <1>2, <2>1, <3>2, <3>3 DEF JpegGoesOn, JpegOnly
  <2>4. u.dev["dst"] = s.dev["dst"] /\ u.dev["dst"].on /\ u.dev["dst"].held = "done"
    BY <2>1, <2>s, SidesFacts DEF JpegOnly
  <2> HIDE DEF x
  <2>5. /\ JpegGoesOn(x, v) /\ JpegOnly(x, v, "dst") /\ v.ok
        /\ SameQueue(x, v, "dst") /\ v.dev["dst"].held = "no"
    BY <2>2, <2>4, SidesFacts, JpegTakes DEF JpegGoesOn
  <2> HIDE DEF v
  <2>6. v.dev["src"] = u.dev["src"]
    BY <2>2, <2>5, SidesFacts DEF JpegOnly
  <2>7. \A q \in Sides : SameQueue(s, v, q) /\ v.dev[q].held = "no"
    BY <2>1, <2>2, <2>4, <2>5, <2>6, SidesFacts DEF SameQueue
  <2>8. JpegGoesOn(s, v) /\ v.dev.controls = s.dev.controls /\ v.dev.job = s.dev.job
    BY <2>2, <2>5, JpegChains DEF JpegOnly
  <2>9. CompShape(v) /\ CompSetup(s, v) /\ CompFlags(s, v)
    BY <2>8, <2>s, CompGoes
  <2>10. JpegShape(v) /\ DOMAIN v = CompFields /\ (u.ok /\ v.ok) \in BOOLEAN
    BY <2>1, <2>5, <2>9 DEF CompShape
  <2>11. /\ DOMAIN w = CompFields /\ w.dev = v.dev /\ w.ok \in BOOLEAN /\ w.queued = FALSE
         /\ w.jobFor = v.jobFor
         /\ w.newFormat = v.newFormat /\ w.reqbufs = v.reqbufs /\ w.streaming = v.streaming
         /\ w.image = v.image /\ w.pending = v.pending /\ w.buffers = v.buffers
         /\ w.quality = v.quality /\ w.fault = v.fault /\ w.refused = v.refused /\ w.hangs = v.hangs
    BY <2>10 DEF CompFields
  <2> HIDE DEF w
  <2>12. JpegShape(w)
    BY <2>10, <2>11 DEF JpegShape, Handle, CompFields
  <2>13. CompShape(w)
    BY <2>9, <2>11, <2>12 DEF CompShape
  <2>14. CompQuality(w) /\ CompJobKept(w)
    BY <2>8, <2>9, <2>s, <2>11 DEF CompQuality, CompJobKept, CompSetup
  <2>15. CompSides(w) /\ CompHeld(w)
    BY <2>7, <2>9, <2>s, <2>11 DEF CompSides, CompHeld, CompSetup, CompFlags, SameQueue
  <2> QED BY <2>0, <2>13, <2>14, <2>15 DEF CompInv
<1> QED BY <1>1, <1>2

\* Two objects that differ in what a call records of its failures only.
LEMMA CompAlike ==
  ASSUME NEW s, NEW t, CompInv(s), JpegShape(t), DOMAIN t = DOMAIN s, t.dev = s.dev,
         \A f \in DOMAIN s : f \notin {"ok", "fault"} => t[f] = s[f]
  PROVE  CompInv(t) /\ CompSetup(s, t) /\ CompFlags(s, t)
<1>1. CompShape(s)
  BY DEF CompInv
<1>2. CompShape(t) /\ CompSetup(s, t) /\ CompFlags(s, t)
  BY <1>1 DEF CompShape, CompFields, CompSetup, CompFlags
<1>3. CompQuality(t) /\ CompJobKept(t) /\ CompSides(t) /\ CompHeld(t)
  BY <1>2 DEF CompInv, CompQuality, CompJobKept, CompSides, CompHeld, CompSetup, CompFlags
<1> QED BY <1>2, <1>3 DEF CompInv

\* A call begins and returns.
LEMMA CompCalls ==
  ASSUME NEW s, CompInv(s)
  PROVE  /\ CompInv(Returned(s))
         /\ \A fault : JpegIsFair(fault) =>
              LET t == Called(s, fault) IN CompInv(t) /\ CompSetup(s, t) /\ CompFlags(s, t) /\ t.ok
<1>1. JpegShape(s)
  BY DEF CompInv, CompShape
<1>2. CompInv(Returned(s))
  <2> DEFINE t == Returned(s)
  <2>1. /\ JpegShape(t) /\ t.dev = s.dev /\ DOMAIN t = DOMAIN s
        /\ \A f \in DOMAIN s : f \notin {"ok", "fault"} => t[f] = s[f]
    BY <1>1, JpegCalls
  <2> HIDE DEF t
  <2>2. CompInv(t)
    BY <2>1, CompAlike
  <2> QED BY <2>2 DEF t
<1>3. ASSUME NEW fault, JpegIsFair(fault)
      PROVE  LET t == Called(s, fault) IN CompInv(t) /\ CompSetup(s, t) /\ CompFlags(s, t) /\ t.ok
  <2> DEFINE t == Called(s, fault)
  <2>1. /\ JpegShape(t) /\ t.dev = s.dev /\ t.ok /\ DOMAIN t = DOMAIN s
        /\ \A f \in DOMAIN s : f \notin {"ok", "fault"} => t[f] = s[f]
    BY <1>1, <1>3, JpegCalls
  <2> HIDE DEF t
  <2>2. CompInv(t) /\ CompSetup(s, t) /\ CompFlags(s, t)
    BY <2>1, CompAlike
  <2> QED BY <2>1, <2>2 DEF t
<1> QED BY <1>2, <1>3

\* Compress up to its wait.
LEMMA CompSubmits ==
  ASSUME NEW s, CompInv(s), s.ok, ~s.queued \/ s.newFormat
  PROVE  CompInv(CompSubmit(s))
<1> DEFINE halted    == StopStreaming(s)
           stopped   == IF s.newFormat THEN CompSetFormat(halted) ELSE s
           specified == IF stopped.ok /\ ~stopped.buffers THEN Failed(stopped) ELSE stopped
           allocated == CompReqBufs(specified)
           on        == CompStreamOn(allocated)
           ready     == UpdateControls(on)
<1>0. CompSubmit(s) = CompQBuf(ready)
  BY DEF CompSubmit
<1>1. CompInv(stopped) /\ (stopped.ok => ~stopped.newFormat /\ ~stopped.queued)
  <2>1. CASE ~s.newFormat
    BY <2>1
  <2>2. CASE s.newFormat
    <3>1. /\ CompShape(s) /\ CompQuality(s) /\ CompJobKept(s)
          /\ \A q \in Sides : s.dev[q].on <=> s.streaming
          /\ \A q \in Sides : ~s.streaming => s.dev[q].held = "no"
          /\ \A q \in Sides : ~s.newFormat => s.dev[q].format = s.image
      BY DEF CompInv, CompSides, CompHeld
    <3>2. /\ CompInv(halted) /\ CompMoved(s, halted) /\ ~halted.streaming /\ ~halted.queued
          /\ halted.ok => ~halted.reqbufs
      BY <2>2, <3>1, CompStops
    <3> HIDE DEF halted
    <3>3. halted.newFormat /\ CompStopped(halted)
      BY <2>2, <3>2 DEF CompMoved, CompSetup, CompStopped
    <3>4. LET t == CompSetFormat(halted) IN CompInv(t) /\ (t.ok => ~t.newFormat /\ CompStopped(t))
      BY <3>2, <3>3, CompFormats
    <3> QED BY <2>2, <3>4 DEF CompStopped
  <2> QED BY <2>1, <2>2
<1> HIDE DEF stopped
<1>2. CompInv(specified) /\ (specified.ok => ~specified.newFormat /\ ~specified.queued)
  <2>1. CompInv(Failed(stopped)) /\ ~Failed(stopped).ok
    BY <1>1, CompFails
  <2> QED BY <1>1, <2>1
<1> HIDE DEF specified
<1>3. /\ CompInv(allocated)
      /\ allocated.ok => ~allocated.newFormat /\ ~allocated.queued /\ allocated.reqbufs
  BY <1>2, CompRequests
<1> HIDE DEF allocated
<1>4. CompInv(on) /\ (on.ok => ~on.newFormat /\ ~on.queued /\ on.streaming)
  BY <1>3, CompTurnsOn
<1> HIDE DEF on
<1>5. /\ CompInv(ready)
      /\ ready.ok => /\ ~ready.newFormat /\ ~ready.queued /\ ready.streaming
                     /\ ready.dev.controls.quality = ready.quality
  BY <1>4, CompSetsControls
<1> HIDE DEF ready
<1> QED BY <1>0, <1>5, CompQueues

\* The ioctls whose failure the JPEG library does not survive do not fail.
JpegFailuresAreSurvived == \A fault \in JpegFaults : JpegIsFair(fault)

\* Compress keeps the invariant.
LEMMA CompCompresses ==
  ASSUME JpegFailuresAreSurvived, CompInv(compressor), NEW block \in BOOLEAN,
         NEW fault \in JpegFaults \cup {NoFault}, Compress(block, fault)
  PROVE  CompInv(compressor')
<1> DEFINE s == Called(compressor, fault)
           t == CompSubmit(s)
           u == IF block THEN CompDQBuf(t) ELSE t
<1>1. JpegIsFair(fault)
  BY JpegNoFaultIsFair DEF JpegFailuresAreSurvived
<1>2. CompInv(s) /\ CompSetup(compressor, s) /\ CompFlags(compressor, s) /\ s.ok
  BY <1>1, CompCalls
<1>3. (~compressor.queued \/ compressor.newFormat) /\ compressor' = Returned(u)
  BY DEF Compress
<1> HIDE DEF s
<1>4. ~s.queued \/ s.newFormat
  BY <1>2, <1>3 DEF CompSetup, CompFlags
<1>5. CompInv(t)
  BY <1>2, <1>4, CompSubmits
<1> HIDE DEF t
<1>6. CompInv(u)
  BY <1>5, CompDequeues
<1> HIDE DEF u
<1> QED BY <1>3, <1>6, CompCalls

\* SetImageFormat keeps the invariant: a new image makes the format new.
LEMMA CompImageSet ==
  ASSUME CompInv(compressor), NEW image, SetImageFormat(image)
  PROVE  CompInv(compressor')
<1> DEFINE s == compressor
           t == [s EXCEPT !.image = image, !.newFormat = TRUE]
<1>1. CASE s.image = image
  BY <1>1 DEF SetImageFormat
<1>2. CASE s.image # image
  <2>1. compressor' = t
    BY <1>2 DEF SetImageFormat
  <2>2. CompShape(s) /\ JpegShape(s) /\ DOMAIN s = CompFields
    BY DEF CompInv, CompShape
  <2> HIDE DEF s
  <2>3. /\ DOMAIN t = CompFields /\ t.newFormat = TRUE
        /\ t.dev = s.dev /\ t.ok = s.ok /\ t.queued = s.queued /\ t.jobFor = s.jobFor
        /\ t.reqbufs = s.reqbufs /\ t.streaming = s.streaming /\ t.pending = s.pending
        /\ t.buffers = s.buffers /\ t.quality = s.quality /\ t.fault = s.fault
        /\ t.refused = s.refused /\ t.hangs = s.hangs
    BY <2>2 DEF CompFields
  <2> HIDE DEF t
  <2>4. JpegShape(t)
    BY <2>2, <2>3 DEF JpegShape, Handle, CompFields
  <2>5. CompShape(t)
    BY <2>2, <2>3, <2>4 DEF CompShape
  <2>6. CompInv(s)
    BY DEF s
  <2>7. CompQuality(t) /\ CompJobKept(t) /\ CompSides(t) /\ CompHeld(t)
    BY <2>3, <2>6 DEF CompInv, CompQuality, CompJobKept, CompSides, CompHeld
  <2> QED BY <2>1, <2>5, <2>7 DEF CompInv
<1> QED BY <1>1, <1>2

\* SetImageBuffer and SetJpegBuffer keep the invariant.
LEMMA CompBuffersSet ==
  ASSUME CompInv(compressor), SetBuffers
  PROVE  CompInv(compressor')
<1> DEFINE s == compressor
           t == [s EXCEPT !.buffers = TRUE]
<1>1. compressor' = t
  BY DEF SetBuffers
<1>2. CompInv(s) /\ CompShape(s) /\ JpegShape(s) /\ DOMAIN s = CompFields
  BY DEF CompInv, CompShape
<1> HIDE DEF s
<1>3. /\ DOMAIN t = CompFields /\ t.buffers = TRUE
      /\ t.dev = s.dev /\ t.ok = s.ok /\ t.queued = s.queued /\ t.jobFor = s.jobFor
      /\ t.reqbufs = s.reqbufs /\ t.streaming = s.streaming /\ t.pending = s.pending
      /\ t.image = s.image /\ t.quality = s.quality /\ t.fault = s.fault
      /\ t.newFormat = s.newFormat /\ t.refused = s.refused /\ t.hangs = s.hangs
  BY <1>2 DEF CompFields
<1> HIDE DEF t
<1>4. JpegShape(t)
  BY <1>2, <1>3 DEF JpegShape, Handle, CompFields
<1>5. CompShape(t)
  BY <1>2, <1>3, <1>4 DEF CompShape
<1>6. CompQuality(t) /\ CompJobKept(t) /\ CompSides(t) /\ CompHeld(t)
  BY <1>2, <1>3 DEF CompInv, CompQuality, CompJobKept, CompSides, CompHeld
<1> QED BY <1>1, <1>5, <1>6 DEF CompInv

\* SetQuality keeps the invariant: what is not in the device is pending.
LEMMA CompQualitySet ==
  ASSUME CompInv(compressor), NEW quality \in JpegQualities, SetQuality(quality)
  PROVE  CompInv(compressor')
<1> DEFINE s == compressor
           t == [s EXCEPT !.quality = quality, !.pending = quality]
<1>1. compressor' = t
  BY DEF SetQuality
<1>2. CompInv(s) /\ CompShape(s) /\ JpegShape(s) /\ DOMAIN s = CompFields
  BY DEF CompInv, CompShape
<1> HIDE DEF s
<1>3. /\ DOMAIN t = CompFields /\ t.quality = quality /\ t.pending = quality
      /\ t.dev = s.dev /\ t.ok = s.ok /\ t.queued = s.queued /\ t.jobFor = s.jobFor
      /\ t.reqbufs = s.reqbufs /\ t.streaming = s.streaming
      /\ t.image = s.image /\ t.buffers = s.buffers /\ t.fault = s.fault
      /\ t.newFormat = s.newFormat /\ t.refused = s.refused /\ t.hangs = s.hangs
  BY <1>2 DEF CompFields
<1> HIDE DEF t
<1>4. JpegShape(t)
  BY <1>2, <1>3 DEF JpegShape, Handle, CompFields
<1>5. CompShape(t)
  BY <1>2, <1>3, <1>4 DEF CompShape
<1>6. CompQuality(t)
  BY <1>3, JpegAssumption DEF CompQuality
<1>7. CompJobKept(t) /\ CompSides(t) /\ CompHeld(t)
  BY <1>2, <1>3 DEF CompInv, CompJobKept, CompSides, CompHeld
<1> QED BY <1>1, <1>5, <1>6, <1>7 DEF CompInv

\* WaitForCompression keeps the invariant.
LEMMA CompWaits ==
  ASSUME CompInv(compressor), WaitForCompression
  PROVE  CompInv(compressor')
<1> DEFINE s == Called(compressor, NoFault)
           t == CompDQBuf(s)
<1>1. PICK fault : fault = NoFault
  OBVIOUS
<1>2. CompInv(Called(compressor, fault))
  BY <1>1, JpegNoFaultIsFair, CompCalls
<1>3. CompInv(s)
  BY <1>1, <1>2
<1>4. compressor' = Returned(t)
  BY DEF WaitForCompression
<1> HIDE DEF s
<1>5. CompInv(t)
  BY <1>3, CompDequeues
<1> HIDE DEF t
<1> QED BY <1>4, <1>5, CompCalls

\* ReleaseDevice keeps the invariant.
LEMMA CompReleases ==
  ASSUME CompInv(compressor), ReleaseDevice
  PROVE  CompInv(compressor')
<1> DEFINE s == Called(compressor, NoFault)
           t == StopStreaming(s)
<1>1. PICK fault : fault = NoFault
  OBVIOUS
<1>2. LET u == Called(compressor, fault) IN CompInv(u) /\ u.ok /\ u.fault = NoFault
  <2>1. LET u == Called(compressor, fault) IN
        CompInv(u) /\ CompSetup(compressor, u) /\ CompFlags(compressor, u) /\ u.ok
    BY <1>1, JpegNoFaultIsFair, CompCalls
  <2>2. Called(compressor, fault).fault = fault
    BY CallFacts DEF CompInv, CompShape, JpegShape
  <2> QED BY <1>1, <2>1, <2>2
<1>3. CompInv(s) /\ s.ok /\ s.fault = NoFault
  BY <1>1, <1>2
<1>4. compressor' = Returned(t)
  BY DEF ReleaseDevice
<1> HIDE DEF s
<1>5. /\ CompShape(s) /\ CompQuality(s) /\ CompJobKept(s)
      /\ \A q \in Sides : s.dev[q].on <=> s.streaming
      /\ \A q \in Sides : ~s.streaming => s.dev[q].held = "no"
      /\ \A q \in Sides : ~s.newFormat => s.dev[q].format = s.image
  BY <1>3 DEF CompInv, CompSides, CompHeld
<1>6. CompInv(t)
  BY <1>3, <1>5, CompStops
<1> HIDE DEF t
<1> QED BY <1>4, <1>6, CompCalls

\* The invariant holds of a new compressor.
LEMMA CompNewFacts == CompInv(CompressorNew)
<1> DEFINE s == CompressorNew
           d == IdleDevice([quality |-> "default"])
<1>1. /\ DOMAIN s = CompFields /\ s.newFormat = TRUE /\ s.reqbufs = FALSE /\ s.streaming = FALSE
      /\ s.queued = FALSE /\ s.pending = "none" /\ s.buffers = FALSE /\ s.quality = "default"
      /\ s.dev = d /\ s.ok = TRUE /\ s.fault = NoFault /\ s.refused = FALSE /\ s.hangs = FALSE
  BY DEF CompressorNew, CompFields
<1> HIDE DEF s
<1>2. /\ DOMAIN d = {"src", "dst", "controls", "job"} /\ d.controls = [quality |-> "default"]
      /\ d.job = NoJob /\ \A q \in Sides : d[q] = IdleQueue
  BY IdleFacts
<1> HIDE DEF d
<1>3. \A q \in Sides : /\ DOMAIN d[q] = {"allocated", "on", "held", "format"}
                       /\ d[q].allocated = FALSE /\ d[q].on = FALSE /\ d[q].held = "no"
  BY <1>2, IdleFacts DEF QueueFields
<1>4. JpegShape(s)
  BY <1>1, <1>2, <1>3, JpegNoFaultIsFair DEF JpegShape, Handle, CompFields
<1>c. DOMAIN s.dev.controls = {"quality"} /\ s.dev.controls.quality = "default"
  BY <1>1, <1>2
<1>5. CompShape(s)
  BY <1>1, <1>4, <1>c DEF CompShape
<1>q. CompQuality(s)
  BY <1>1, <1>c DEF CompQuality
<1>6. CompJobKept(s) /\ CompSides(s) /\ CompHeld(s)
  BY <1>1, <1>2, <1>3 DEF CompJobKept, CompSides, CompHeld
<1> QED BY <1>5, <1>q, <1>6 DEF CompInv, s

\* Every call keeps the invariant of the compressor.
LEMMA CompKeeps ==
  ASSUME JpegFailuresAreSurvived, CompInv(compressor), [CompressorNext]_compressor
  PROVE  CompInv(compressor')
<1>1. CASE UNCHANGED compressor
  BY <1>1
<1>2. ASSUME NEW image \in JpegImages, SetImageFormat(image) PROVE CompInv(compressor')
  BY <1>2, CompImageSet
<1>3. CASE SetBuffers
  BY <1>3, CompBuffersSet
<1>4. ASSUME NEW quality \in JpegQualities, SetQuality(quality) PROVE CompInv(compressor')
  BY <1>4, CompQualitySet
<1>5. ASSUME NEW block \in BOOLEAN, NEW fault \in JpegFaults \cup {NoFault}, Compress(block, fault)
      PROVE  CompInv(compressor')
  BY <1>5, CompCompresses
<1>6. CASE WaitForCompression
  BY <1>6, CompWaits
<1>7. CASE ReleaseDevice
  BY <1>7, CompReleases
<1> QED BY <1>1, <1>2, <1>3, <1>4, <1>5, <1>6, <1>7 DEF CompressorNext

-----------------------------------------------------------------------------
(* The decompressor.                                                       *)

\* What a call leaves of an object, whether its ioctls failed or not.
JpegBooks == {"dev", "ok", "fault", "refused", "hangs"}
JpegSame(s, t) ==
  DOMAIN t = DOMAIN s /\ \A f \in DOMAIN s : f \notin JpegBooks => t[f] = s[f]

LEMMA JpegSameFacts ==
  /\ \A s, t : Rest(s, t) => JpegSame(s, t)
  /\ \A s, t : JpegGoesOn(s, t) => JpegSame(s, t)
  /\ \A s, t, u : JpegSame(s, t) /\ JpegSame(t, u) => JpegSame(s, u)
BY DEF Rest, JpegGoesOn, JpegSame, JpegBooks

\* The steps of a call that make no ioctl leave the fields of the object.
LEMMA JpegCallsSame ==
  ASSUME NEW s, JpegShape(s)
  PROVE  /\ JpegSame(s, Failed(s)) /\ JpegSame(s, Tidied(s)) /\ JpegSame(s, Returned(s))
         /\ \A fault : JpegIsFair(fault) => JpegSame(s, Called(s, fault))
BY JpegCalls, JpegSameFacts DEF JpegSame, JpegBooks

\* Queues with the same buffers and format.
JpegLike(s, t, q) == SameQueue(s, t, q) /\ t.dev[q].held = s.dev[q].held

\* PrepareCapture and PrepareStream: a queue is ready, or as it was.
LEMMA DecPrepares ==
  ASSUME NEW s, NEW q \in Sides, NEW ready \in BOOLEAN, JpegShape(s),
         s.dev[q].on <=> ready, ready => s.dev[q].allocated, s.dev[q].held = "no"
  PROVE  LET t == Prepare(s, q, ready) IN
         /\ JpegShape(t) /\ JpegSame(s, t) /\ t.dev.job = s.dev.job
         /\ \A p \in Sides : p # q => JpegLike(s, t, p)
         /\ t.dev[q].format = s.dev[q].format /\ t.dev[q].held = "no"
         /\ t.ok => s.ok /\ t.dev[q].on /\ t.dev[q].allocated
         /\ ~t.ok => (t.dev[q].on <=> ready) /\ (ready => t.dev[q].allocated)
<1> DEFINE t == Prepare(s, q, ready)
<1>1. CASE ~s.ok \/ ready
  <2>1. t = s
    BY <1>1 DEF Prepare
  <2> QED BY <1>1, <2>1 DEF JpegSame, JpegLike, SameQueue
<1>2. CASE s.ok /\ ~ready
  <2> DEFINE u == REQBUFS(s, q)
             v == STREAMON(u, q)
             x == Tidied(v)
             y == FREEBUFS(x, q)
             z == Failed(y)
  <2>0. t = IF u.ok /\ ~v.ok THEN z ELSE v
    BY <1>2 DEF Prepare
  <2>1. /\ JpegGoesOn(s, u) /\ JpegOnly(s, u, q)
        /\ ~u.ok => u.dev = s.dev
        /\ u.ok => /\ u.dev[q].format = s.dev[q].format /\ u.dev[q].on = s.dev[q].on
                   /\ u.dev[q].held = "no" /\ u.dev[q].allocated
    BY <1>2, JpegRequests
  <2> HIDE DEF u
  <2>2. JpegShape(u) /\ u.dev[q].held = "no" /\ u.dev[q].format = s.dev[q].format /\ ~u.dev[q].on
    BY <1>2, <2>1 DEF JpegGoesOn
  <2>3. u.ok => u.dev[q].allocated /\ u.dev[q].held = "no"
    BY <2>1
  <2>4. /\ JpegGoesOn(u, v) /\ v.dev.job = u.dev.job
        /\ ~v.ok => v.dev = u.dev
        /\ v.ok => /\ v.dev[q].on /\ v.dev[q].allocated
                   /\ \A p \in Sides : /\ v.dev[p].format = u.dev[p].format
                                       /\ v.dev[p].held = u.dev[p].held
                                       /\ p # q => SameQueue(u, v, p)
    BY <2>2, <2>3, JpegTurnsOn
  <2> HIDE DEF v
  <2>5. /\ JpegGoesOn(s, v) /\ JpegShape(v) /\ JpegSame(s, v) /\ v.dev.job = s.dev.job
        /\ v.dev[q].format = s.dev[q].format /\ v.dev[q].held = "no"
    BY <2>1, <2>2, <2>4, JpegChains, JpegSameFacts DEF JpegGoesOn, JpegOnly
  <2>6. ASSUME NEW p \in Sides, p # q PROVE JpegLike(s, v, p)
    <3>1. u.dev[p] = s.dev[p]
      BY <2>1, <2>6 DEF JpegOnly
    <3>2. JpegLike(u, v, p)
      <4>1. CASE v.ok
        BY <2>4, <2>6, <4>1 DEF JpegLike
      <4>2. CASE ~v.ok
        BY <2>4, <4>2 DEF JpegLike, SameQueue
      <4> QED BY <4>1, <4>2
    <3> QED BY <3>1, <3>2 DEF JpegLike, SameQueue
  <2>7. CASE u.ok /\ ~v.ok
    <3>1. JpegShape(x) /\ x.dev = v.dev /\ x.ok /\ x.fault = NoFault /\ JpegSame(v, x)
      BY <2>5, JpegCalls, JpegCallsSame
    <3> HIDE DEF x
    <3>2. ~x.dev[q].on
      BY <2>2, <2>4, <2>7, <3>1
    <3>3. /\ JpegGoesOn(x, y) /\ JpegOnly(x, y, q) /\ y.ok
          /\ y.dev[q].format = x.dev[q].format /\ y.dev[q].on = x.dev[q].on
          /\ y.dev[q].held = "no"
      BY <3>1, <3>2, JpegFrees
    <3> HIDE DEF y
    <3>4. JpegShape(z) /\ z.dev = y.dev /\ ~z.ok /\ JpegSame(y, z)
      BY <3>3, JpegCalls, JpegCallsSame DEF JpegGoesOn
    <3>5. t = z
      BY <2>0, <2>7
    <3> HIDE DEF z, t
    <3>6. JpegSame(s, z)
      BY <2>5, <3>1, <3>3, <3>4, JpegSameFacts
    <3>7. \A p \in Sides : p # q => JpegLike(s, z, p)
      BY <2>6, <3>1, <3>3, <3>4 DEF JpegOnly, JpegLike, SameQueue
    <3>8. /\ z.dev.job = s.dev.job /\ z.dev[q].format = s.dev[q].format /\ z.dev[q].held = "no"
          /\ ~z.dev[q].on
      BY <2>5, <3>1, <3>2, <3>3, <3>4 DEF JpegOnly
    <3> QED BY <1>2, <3>4, <3>5, <3>6, <3>7, <3>8 DEF t
  <2>8. CASE ~(u.ok /\ ~v.ok)
    <3>1. t = v
      BY <2>0, <2>8
    <3> HIDE DEF t
    <3>2. ~v.ok => ~v.dev[q].on
      BY <2>2, <2>4
    <3> QED BY <1>2, <2>4, <2>5, <2>6, <3>1, <3>2 DEF t
  <2> QED BY <2>7, <2>8
<1> QED BY <1>1, <1>2

DecFields == {"captureReady", "outputReady", "image", "jobFor", "dev", "ok", "fault", "refused", "hangs"}

DecShape(s) ==
  /\ JpegShape(s) /\ DOMAIN s = DecFields
  /\ s.captureReady \in BOOLEAN /\ s.outputReady \in BOOLEAN

\* A queue streams when its flag says so, with a buffer the object holds.
DecSide(s, q, ready) ==
  /\ s.dev[q].on <=> ready
  /\ ready => s.dev[q].allocated
  /\ s.dev[q].held = "no"

DecJobKept(s) == s.dev.job # NoJob => s.dev.job.dst = s.jobFor

DecInv(s) ==
  /\ DecShape(s) /\ DecJobKept(s) /\ s.dev["dst"].format = s.image
  /\ DecSide(s, "dst", s.captureReady) /\ DecSide(s, "src", s.outputReady)

\* What the fields of the object say of its shape.
LEMMA DecSame ==
  ASSUME NEW s, NEW t, DecShape(s), JpegShape(t), JpegSame(s, t)
  PROVE  /\ DecShape(t) /\ t.captureReady = s.captureReady /\ t.outputReady = s.outputReady
         /\ t.image = s.image /\ t.jobFor = s.jobFor
<1>1. DOMAIN s = DecFields
  BY DEF DecShape
<1>2. /\ DOMAIN t = DecFields /\ t.captureReady = s.captureReady /\ t.outputReady = s.outputReady
      /\ t.image = s.image /\ t.jobFor = s.jobFor
  BY <1>1 DEF JpegSame, JpegBooks, DecFields
<1> QED BY <1>2 DEF DecShape

\* Objects with the same device and flags.
LEMMA DecAlike ==
  ASSUME NEW s, NEW t, DecInv(s), JpegShape(t), JpegSame(s, t), t.dev = s.dev
  PROVE  DecInv(t)
<1>1. /\ DecShape(t) /\ t.captureReady = s.captureReady /\ t.outputReady = s.outputReady
      /\ t.image = s.image /\ t.jobFor = s.jobFor
  BY DecSame DEF DecInv
<1> QED BY <1>1 DEF DecInv, DecSide, DecJobKept

\* The steps of a call that make no ioctl keep the invariant.
LEMMA DecCalls ==
  ASSUME NEW s, DecInv(s)
  PROVE  /\ DecInv(Returned(s)) /\ DecInv(Failed(s))
         /\ DecInv(Tidied(s)) /\ Tidied(s).ok /\ Tidied(s).fault = NoFault
         /\ \A fault : JpegIsFair(fault) => DecInv(Called(s, fault)) /\ Called(s, fault).ok
<1>1. JpegShape(s)
  BY DEF DecInv, DecShape
<1>2. /\ JpegShape(Failed(s)) /\ Failed(s).dev = s.dev
      /\ JpegShape(Tidied(s)) /\ Tidied(s).dev = s.dev /\ Tidied(s).ok /\ Tidied(s).fault = NoFault
      /\ JpegShape(Returned(s)) /\ Returned(s).dev = s.dev
      /\ \A fault : JpegIsFair(fault) => /\ JpegShape(Called(s, fault)) /\ Called(s, fault).ok
                                         /\ Called(s, fault).dev = s.dev
  BY <1>1, JpegCalls
<1>3. /\ JpegSame(s, Failed(s)) /\ JpegSame(s, Tidied(s)) /\ JpegSame(s, Returned(s))
      /\ \A fault : JpegIsFair(fault) => JpegSame(s, Called(s, fault))
  BY <1>1, JpegCallsSame
<1> QED BY <1>2, <1>3, DecAlike

\* A flag of the object changes.
LEMMA DecFlagSet ==
  ASSUME NEW s, DecShape(s), NEW f \in {"captureReady", "outputReady"}, NEW v \in BOOLEAN
  PROVE  LET t == [s EXCEPT ![f] = v] IN
         /\ DecShape(t) /\ t[f] = v /\ t.dev = s.dev /\ t.ok = s.ok /\ t.fault = s.fault
         /\ t.image = s.image /\ t.jobFor = s.jobFor
         /\ f # "captureReady" => t.captureReady = s.captureReady
         /\ f # "outputReady" => t.outputReady = s.outputReady
<1> DEFINE t == [s EXCEPT ![f] = v]
<1>1. DOMAIN s = DecFields /\ JpegShape(s) /\ s.captureReady \in BOOLEAN /\ s.outputReady \in BOOLEAN
  BY DEF DecShape
<1>2. JpegShape(t)
  BY <1>1 DEF JpegShape, Handle
<1>3. /\ DOMAIN t = DecFields /\ t[f] = v /\ t.dev = s.dev /\ t.ok = s.ok /\ t.fault = s.fault
      /\ t.image = s.image /\ t.jobFor = s.jobFor
      /\ f # "captureReady" => t.captureReady = s.captureReady
      /\ f # "outputReady" => t.outputReady = s.outputReady
  BY <1>1 DEF DecFields
<1> HIDE DEF t
<1>4. t.captureReady \in BOOLEAN /\ t.outputReady \in BOOLEAN
  BY <1>1, <1>3
<1>5. DecShape(t)
  BY <1>2, <1>3, <1>4 DEF DecShape
<1> QED BY <1>3, <1>5 DEF t

\* PrepareCapture keeps the invariant.
LEMMA DecCaptures ==
  ASSUME NEW s, DecInv(s)
  PROVE  LET t == PrepareCapture(s) IN DecInv(t) /\ (t.ok => s.ok /\ t.captureReady)
<1> DEFINE u == Prepare(s, "dst", s.captureReady)
           t == PrepareCapture(s)
<1>0. t = IF u.ok THEN [u EXCEPT !.captureReady = TRUE] ELSE u
  BY DEF PrepareCapture
<1>s. /\ DecShape(s) /\ JpegShape(s) /\ s.captureReady \in BOOLEAN
      /\ s.dev["dst"].on <=> s.captureReady
      /\ s.captureReady => s.dev["dst"].allocated
      /\ s.dev["dst"].held = "no"
  BY DEF DecInv, DecShape, DecSide
<1>1. /\ JpegShape(u) /\ JpegSame(s, u) /\ u.dev.job = s.dev.job
      /\ \A p \in Sides : p # "dst" => JpegLike(s, u, p)
      /\ u.dev["dst"].format = s.dev["dst"].format /\ u.dev["dst"].held = "no"
      /\ u.ok => s.ok /\ u.dev["dst"].on /\ u.dev["dst"].allocated
      /\ ~u.ok => (u.dev["dst"].on <=> s.captureReady) /\ (s.captureReady => u.dev["dst"].allocated)
  BY <1>s, SidesFacts, DecPrepares
<1> HIDE DEF u
<1>2. /\ DecShape(u) /\ u.captureReady = s.captureReady /\ u.outputReady = s.outputReady
      /\ u.image = s.image /\ u.jobFor = s.jobFor
  BY <1>s, <1>1, DecSame
<1>3. /\ DecJobKept(u) /\ u.dev["dst"].format = u.image /\ DecSide(u, "src", u.outputReady)
  BY <1>1, <1>2, SidesFacts DEF DecInv, DecJobKept, DecSide, JpegLike, SameQueue
<1>4. CASE ~u.ok
  <2>1. DecSide(u, "dst", u.captureReady)
    BY <1>1, <1>2, <1>4 DEF DecSide
  <2> QED BY <1>0, <1>2, <1>3, <1>4, <2>1 DEF DecInv
<1>5. CASE u.ok
  <2>1. PICK b \in BOOLEAN : b = TRUE
    OBVIOUS
  <2>2. PICK f \in {"captureReady", "outputReady"} : f = "captureReady"
    OBVIOUS
  <2> DEFINE w == [u EXCEPT ![f] = b]
  <2>3. t = w
    BY <1>0, <1>5, <2>1, <2>2
  <2>4. /\ DecShape(w) /\ w[f] = b /\ w.dev = u.dev /\ w.ok = u.ok /\ w.fault = u.fault
        /\ w.image = u.image /\ w.jobFor = u.jobFor
        /\ f # "captureReady" => w.captureReady = u.captureReady
        /\ f # "outputReady" => w.outputReady = u.outputReady
    BY <1>2, DecFlagSet
  <2> HIDE DEF w, t
  <2>5. w.captureReady = TRUE /\ w.outputReady = u.outputReady
    BY <2>1, <2>2, <2>4
  <2>6. DecSide(w, "dst", w.captureReady) /\ DecSide(w, "src", w.outputReady)
    BY <1>1, <1>3, <1>5, <2>4, <2>5 DEF DecSide
  <2>7. DecInv(w)
    BY <1>3, <2>4, <2>6 DEF DecInv, DecJobKept
  <2> QED BY <1>1, <1>5, <2>3, <2>5, <2>7 DEF t
<1> QED BY <1>4, <1>5

\* PrepareStream keeps the invariant.
LEMMA DecStreams ==
  ASSUME NEW s, DecInv(s)
  PROVE  LET t == PrepareStream(s) IN
         DecInv(t) /\ (t.ok => s.ok /\ t.outputReady) /\ t.captureReady = s.captureReady
<1> DEFINE u == Prepare(s, "src", s.outputReady)
           t == PrepareStream(s)
<1>0. t = IF u.ok THEN [u EXCEPT !.outputReady = TRUE] ELSE u
  BY DEF PrepareStream
<1>s. /\ DecShape(s) /\ JpegShape(s) /\ s.outputReady \in BOOLEAN
      /\ s.dev["src"].on <=> s.outputReady
      /\ s.outputReady => s.dev["src"].allocated
      /\ s.dev["src"].held = "no"
  BY DEF DecInv, DecShape, DecSide
<1>1. /\ JpegShape(u) /\ JpegSame(s, u) /\ u.dev.job = s.dev.job
      /\ \A p \in Sides : p # "src" => JpegLike(s, u, p)
      /\ u.dev["src"].format = s.dev["src"].format /\ u.dev["src"].held = "no"
      /\ u.ok => s.ok /\ u.dev["src"].on /\ u.dev["src"].allocated
      /\ ~u.ok => (u.dev["src"].on <=> s.outputReady) /\ (s.outputReady => u.dev["src"].allocated)
  BY <1>s, SidesFacts, DecPrepares
<1> HIDE DEF u
<1>2. /\ DecShape(u) /\ u.captureReady = s.captureReady /\ u.outputReady = s.outputReady
      /\ u.image = s.image /\ u.jobFor = s.jobFor
  BY <1>s, <1>1, DecSame
<1>3. /\ DecJobKept(u) /\ u.dev["dst"].format = u.image /\ DecSide(u, "dst", u.captureReady)
  BY <1>1, <1>2, SidesFacts DEF DecInv, DecJobKept, DecSide, JpegLike, SameQueue
<1>4. CASE ~u.ok
  <2>1. DecSide(u, "src", u.outputReady)
    BY <1>1, <1>2, <1>4 DEF DecSide
  <2> QED BY <1>0, <1>2, <1>3, <1>4, <2>1 DEF DecInv
<1>5. CASE u.ok
  <2>1. PICK b \in BOOLEAN : b = TRUE
    OBVIOUS
  <2>2. PICK f \in {"captureReady", "outputReady"} : f = "outputReady"
    OBVIOUS
  <2> DEFINE w == [u EXCEPT ![f] = b]
  <2>3. t = w
    BY <1>0, <1>5, <2>1, <2>2
  <2>4. /\ DecShape(w) /\ w[f] = b /\ w.dev = u.dev /\ w.ok = u.ok /\ w.fault = u.fault
        /\ w.image = u.image /\ w.jobFor = u.jobFor
        /\ f # "captureReady" => w.captureReady = u.captureReady
        /\ f # "outputReady" => w.outputReady = u.outputReady
    BY <1>2, DecFlagSet
  <2> HIDE DEF w, t
  <2>5. w.outputReady = TRUE /\ w.captureReady = u.captureReady
    BY <2>1, <2>2, <2>4
  <2>6. DecSide(w, "dst", w.captureReady) /\ DecSide(w, "src", w.outputReady)
    BY <1>1, <1>3, <1>5, <2>4, <2>5 DEF DecSide
  <2>7. DecInv(w)
    BY <1>3, <2>4, <2>6 DEF DecInv, DecJobKept
  <2> QED BY <1>1, <1>2, <1>5, <2>3, <2>5, <2>7 DEF t
<1> QED BY <1>4, <1>5

\* CancelCapture and CancelStream: a queue goes back to nothing, whatever it holds.
LEMMA DecCancels ==
  ASSUME NEW s, JpegShape(s), s.ok, s.fault = NoFault, NEW q \in Sides
  PROVE  LET t == FREEBUFS(STREAMOFF(s, q), q) IN
         /\ JpegShape(t) /\ JpegSame(s, t) /\ JpegOnly(s, t, q) /\ t.ok /\ t.fault = NoFault
         /\ ~t.dev[q].on /\ t.dev[q].held = "no" /\ t.dev[q].format = s.dev[q].format
<1> DEFINE u == STREAMOFF(s, q)
           t == FREEBUFS(u, q)
<1>1. /\ JpegGoesOn(s, u) /\ JpegOnly(s, u, q) /\ u.ok
      /\ u.dev[q].format = s.dev[q].format /\ ~u.dev[q].on
  BY JpegTurnsOff
<1>2. "fault" \in DOMAIN s
  BY DEF JpegShape, Handle
<1> HIDE DEF u
<1>3. u.fault = NoFault /\ JpegShape(u) /\ "fault" \in DOMAIN u
  BY <1>1, <1>2 DEF JpegGoesOn, Rest
<1>4. /\ JpegGoesOn(u, t) /\ JpegOnly(u, t, q) /\ t.ok
      /\ t.dev[q].format = u.dev[q].format /\ t.dev[q].on = u.dev[q].on
      /\ t.dev[q].held = "no"
  BY <1>1, <1>3, JpegFrees
<1> HIDE DEF t
<1>5. t.fault = NoFault
  BY <1>3, <1>4 DEF JpegGoesOn, Rest
<1>6. JpegSame(s, t)
  BY <1>1, <1>4, JpegSameFacts
<1> QED BY <1>1, <1>4, <1>5, <1>6 DEF JpegGoesOn, JpegOnly, t, u

\* CancelCapture keeps the invariant.
LEMMA DecCapturesEnd ==
  ASSUME NEW s, DecInv(s), s.ok, s.fault = NoFault
  PROVE  LET t == CancelCapture(s) IN
         /\ DecInv(t) /\ t.ok /\ t.fault = NoFault /\ ~t.captureReady /\ t.image = s.image
<1> DEFINE u == FREEBUFS(STREAMOFF(s, "dst"), "dst")
           t == CancelCapture(s)
<1>1. CASE ~s.captureReady
  <2>1. t = s
    BY <1>1 DEF CancelCapture
  <2> QED BY <1>1, <2>1
<1>2. CASE s.captureReady
  <2>s. DecShape(s) /\ JpegShape(s)
    BY DEF DecInv, DecShape
  <2>1. /\ JpegShape(u) /\ JpegSame(s, u) /\ JpegOnly(s, u, "dst") /\ u.ok /\ u.fault = NoFault
        /\ ~u.dev["dst"].on /\ u.dev["dst"].held = "no" /\ u.dev["dst"].format = s.dev["dst"].format
    BY <2>s, SidesFacts, DecCancels
  <2>2. PICK b \in BOOLEAN : b = FALSE
    OBVIOUS
  <2>3. PICK f \in {"captureReady", "outputReady"} : f = "captureReady"
    OBVIOUS
  <2> DEFINE w == [u EXCEPT ![f] = b]
  <2>4. t = w
    BY <1>2, <2>2, <2>3 DEF CancelCapture
  <2> HIDE DEF u
  <2>5. /\ DecShape(u) /\ u.captureReady = s.captureReady /\ u.outputReady = s.outputReady
        /\ u.image = s.image /\ u.jobFor = s.jobFor
    BY <2>s, <2>1, DecSame
  <2>6. /\ DecShape(w) /\ w[f] = b /\ w.dev = u.dev /\ w.ok = u.ok /\ w.fault = u.fault
        /\ w.image = u.image /\ w.jobFor = u.jobFor
        /\ f # "captureReady" => w.captureReady = u.captureReady
        /\ f # "outputReady" => w.outputReady = u.outputReady
    BY <2>5, DecFlagSet
  <2> HIDE DEF w, t
  <2>7. w.captureReady = FALSE /\ w.outputReady = s.outputReady
    BY <2>2, <2>3, <2>5, <2>6
  <2>8. DecSide(w, "dst", w.captureReady) /\ DecSide(w, "src", w.outputReady)
    BY <2>1, <2>6, <2>7, SidesFacts DEF DecInv, DecSide, JpegOnly
  <2>9. DecJobKept(w) /\ w.dev["dst"].format = w.image
    BY <2>1, <2>5, <2>6 DEF DecInv, DecJobKept, JpegOnly
  <2>10. DecInv(w)
    BY <2>6, <2>8, <2>9 DEF DecInv
  <2> QED BY <2>1, <2>4, <2>5, <2>6, <2>7, <2>10 DEF t
<1> QED BY <1>1, <1>2

\* SetImageFormat of the decompressor.
LEMMA DecConfigures ==
  ASSUME DecInv(decompressor), NEW image, SetDecodedFormat(image)
  PROVE  DecInv(decompressor')
<1> DEFINE s == Called(decompressor, NoFault)
           t == CancelCapture(s)
           u == [t EXCEPT !.image = image]
           v == S_FMT(u, "dst", image)
<1>1. CASE decompressor.image = image
  BY <1>1 DEF SetDecodedFormat
<1>2. CASE decompressor.image # image
  <2>1. decompressor' = Returned(v)
    BY <1>2 DEF SetDecodedFormat
  <2>2. DecInv(s) /\ s.ok /\ s.fault = NoFault
    <3>1. PICK fault : fault = NoFault
      OBVIOUS
    <3>2. DecInv(Called(decompressor, fault)) /\ Called(decompressor, fault).ok
      BY <3>1, JpegNoFaultIsFair, DecCalls
    <3>3. Called(decompressor, fault).fault = fault
      BY CallFacts DEF DecInv, DecShape, JpegShape
    <3> QED BY <3>1, <3>2, <3>3
  <2> HIDE DEF s
  <2>3. /\ DecInv(t) /\ t.ok /\ t.fault = NoFault /\ ~t.captureReady
    BY <2>2, DecCapturesEnd
  <2> HIDE DEF t
  <2>4. DecShape(t) /\ JpegShape(t) /\ DOMAIN t = DecFields
    BY <2>3 DEF DecInv, DecShape
  <2>5. /\ DOMAIN u = DecFields /\ u.image = image /\ u.dev = t.dev /\ u.ok = t.ok
        /\ u.fault = t.fault /\ u.refused = t.refused /\ u.hangs = t.hangs /\ u.jobFor = t.jobFor
        /\ u.captureReady = t.captureReady /\ u.outputReady = t.outputReady
    BY <2>4 DEF DecFields
  <2> HIDE DEF u
  <2>6. JpegShape(u)
    BY <2>4, <2>5 DEF JpegShape, Handle, DecFields
  <2>7. DecShape(u)
    BY <2>4, <2>5, <2>6 DEF DecShape
  <2>8. ~u.dev["dst"].on /\ u.ok /\ u.fault = NoFault
    BY <2>3, <2>5 DEF DecInv, DecSide
  <2>9. /\ JpegGoesOn(u, v) /\ JpegOnly(u, v, "dst") /\ v.ok
        /\ v.dev["dst"].format = image /\ v.dev["dst"].on = u.dev["dst"].on
        /\ v.dev["dst"].held = u.dev["dst"].held
    BY <2>6, <2>8, SidesFacts, JpegFormats
  <2> HIDE DEF v
  <2>10. /\ DecShape(v) /\ v.captureReady = u.captureReady /\ v.outputReady = u.outputReady
         /\ v.image = u.image /\ v.jobFor = u.jobFor
    BY <2>7, <2>9, DecSame, JpegSameFacts DEF JpegGoesOn
  <2>11. DecSide(v, "dst", v.captureReady) /\ DecSide(v, "src", v.outputReady)
    BY <2>3, <2>5, <2>9, <2>10, SidesFacts DEF DecInv, DecSide, JpegOnly
  <2>12. DecJobKept(v) /\ v.dev["dst"].format = v.image
    BY <2>3, <2>5, <2>9, <2>10 DEF DecInv, DecJobKept, JpegOnly
  <2>13. DecInv(v)
    BY <2>10, <2>11, <2>12 DEF DecInv
  <2> QED BY <2>1, <2>13, DecCalls
<1> QED BY <1>1, <1>2

\* A buffer for each queue: the engine does the job when it has the second one.
LEMMA JpegPairs ==
  ASSUME NEW s, JpegShape(s), s.ok,
         \A q \in Sides : s.dev[q].on /\ s.dev[q].allocated /\ s.dev[q].held = "no"
  PROVE  LET u == QBUF(s, "src")
             v == QBUF(u, "dst")
         IN  /\ JpegShape(u) /\ JpegSame(s, u) /\ (~u.ok => u.dev = s.dev)
             /\ JpegShape(v) /\ JpegSame(s, v) /\ (v.ok => u.ok) /\ v.dev.controls = s.dev.controls
             /\ \A q \in Sides : SameQueue(s, v, q)
             /\ ~v.ok => v.dev.job = s.dev.job /\ v.dev["dst"].held = "no" /\ v.dev = u.dev
             /\ v.ok => v.dev.job = JobOf(s.dev) /\ \A q \in Sides : v.dev[q].held = "done"
<1> DEFINE u == QBUF(s, "src")
           v == QBUF(u, "dst")
<1>1. /\ JpegGoesOn(s, u) /\ u.dev.controls = s.dev.controls
      /\ ~u.ok => u.dev = s.dev
      /\ u.ok => /\ SameQueue(s, u, "src") /\ SameQueue(s, u, "dst")
                 /\ s.dev["dst"].held # "queued" =>
                      /\ u.dev["src"].held = "queued" /\ u.dev["dst"].held = s.dev["dst"].held
                      /\ u.dev.job = s.dev.job
  BY SidesFacts, JpegEnqueues
<1> HIDE DEF u
<1>2. /\ u.ok => u.dev["src"].held = "queued"
      /\ u.dev["dst"].held = "no" /\ u.dev.job = s.dev.job
      /\ \A q \in Sides : SameQueue(s, u, q)
  <2>1. s.dev["dst"].held = "no" /\ s.dev["dst"].held # "queued"
    BY SidesFacts
  <2> QED BY <1>1, <2>1, SidesFacts DEF SameQueue
<1>3. /\ JpegGoesOn(u, v) /\ v.dev.controls = u.dev.controls
      /\ ~v.ok => v.dev = u.dev
      /\ v.ok => /\ SameQueue(u, v, "dst") /\ SameQueue(u, v, "src")
                 /\ u.dev["src"].held = "queued" =>
                      /\ v.dev["dst"].held = "done" /\ v.dev["src"].held = "done"
                      /\ v.dev.job = JobOf(u.dev)
  <2>1. JpegShape(u)
    BY <1>1 DEF JpegGoesOn
  <2>2. u.ok => /\ u.dev["dst"].allocated /\ u.dev["dst"].held = "no"
                /\ u.dev["dst"].on /\ u.dev["src"].on
    BY <1>2, SidesFacts DEF SameQueue
  <2> QED BY <2>1, <2>2, SidesFacts, JpegEnqueues
<1> HIDE DEF v
<1>4. JpegGoesOn(s, v) /\ v.dev.controls = s.dev.controls /\ (v.ok => u.ok)
  BY <1>1, <1>3, JpegChains DEF JpegGoesOn
<1>5. JpegShape(u) /\ JpegSame(s, u) /\ JpegShape(v) /\ JpegSame(s, v)
  BY <1>1, <1>4, JpegSameFacts DEF JpegGoesOn
<1>6. CASE ~v.ok
  <2>1. \A q \in Sides : SameQueue(s, v, q)
    BY <1>2, <1>3, <1>6 DEF SameQueue
  <2> QED BY <1>1, <1>2, <1>3, <1>4, <1>5, <1>6, <2>1 DEF u, v
<1>7. CASE v.ok
  <2>1. ASSUME NEW q \in Sides PROVE SameQueue(s, v, q)
    <3>1. SameQueue(s, u, q) /\ SameQueue(u, v, q)
      BY <1>2, <1>3, <1>7, SidesFacts
    <3> QED BY <3>1 DEF SameQueue
  <2>2. \A q \in Sides : v.dev[q].held = "done"
    BY <1>2, <1>3, <1>4, <1>7, SidesFacts
  <2>3. v.dev.job = JobOf(s.dev)
    <3>1. v.dev.job = JobOf(u.dev)
      BY <1>2, <1>3, <1>4, <1>7
    <3>2. u.dev["src"].format = s.dev["src"].format /\ u.dev["dst"].format = s.dev["dst"].format
      BY <1>2, SidesFacts DEF SameQueue
    <3> QED BY <1>1, <3>1, <3>2 DEF JobOf
  <2> QED BY <1>1, <1>4, <1>5, <1>7, <2>1, <2>2, <2>3 DEF u, v
<1> QED BY <1>6, <1>7

\* Both buffers come back.
LEMMA JpegBothTaken ==
  ASSUME NEW s, JpegShape(s), s.ok, \A q \in Sides : s.dev[q].on /\ s.dev[q].held = "done"
  PROVE  LET u == DQBUF(s, "src")
             x == [u EXCEPT !.ok = TRUE]
             v == DQBUF(x, "dst")
             w == DQBUF(u, "dst")
         IN  /\ u.ok
             /\ JpegShape(v) /\ JpegSame(s, v) /\ v.ok /\ v.dev.job = s.dev.job
             /\ \A q \in Sides : SameQueue(s, v, q) /\ v.dev[q].held = "no"
             /\ JpegShape(w) /\ JpegSame(s, w) /\ w.ok /\ w.dev.job = s.dev.job
             /\ \A q \in Sides : SameQueue(s, w, q) /\ w.dev[q].held = "no"
<1> DEFINE u == DQBUF(s, "src")
           x == [u EXCEPT !.ok = TRUE]
           v == DQBUF(x, "dst")
           w == DQBUF(u, "dst")
<1>1. /\ JpegGoesOn(s, u) /\ JpegOnly(s, u, "src") /\ u.ok
      /\ SameQueue(s, u, "src") /\ u.dev["src"].held = "no"
  BY SidesFacts, JpegTakes
<1> HIDE DEF u
<1>2. ASSUME NEW y, JpegShape(y), JpegSame(u, y), y.ok, y.dev = u.dev
      PROVE  LET z == DQBUF(y, "dst") IN
             /\ JpegShape(z) /\ JpegSame(s, z) /\ z.ok /\ z.dev.job = s.dev.job
             /\ \A q \in Sides : SameQueue(s, z, q) /\ z.dev[q].held = "no"
  <2> DEFINE z == DQBUF(y, "dst")
  <2>1. y.dev["dst"] = s.dev["dst"] /\ y.dev["dst"].on /\ y.dev["dst"].held = "done"
    BY <1>1, <1>2, SidesFacts DEF JpegOnly
  <2>2. /\ JpegGoesOn(y, z) /\ JpegOnly(y, z, "dst") /\ z.ok
        /\ SameQueue(y, z, "dst") /\ z.dev["dst"].held = "no"
    BY <1>2, <2>1, SidesFacts, JpegTakes
  <2> HIDE DEF z
  <2>3. z.dev["src"] = u.dev["src"]
    BY <1>2, <2>2, SidesFacts DEF JpegOnly
  <2>4. \A q \in Sides : SameQueue(s, z, q) /\ z.dev[q].held = "no"
    BY <1>1, <2>1, <2>2, <2>3, SidesFacts DEF SameQueue
  <2>5. JpegSame(s, u) /\ JpegSame(y, z)
    BY <1>1, <2>2, JpegSameFacts
  <2>6. JpegSame(s, z)
    BY <1>2, <2>5, JpegSameFacts
  <2> QED BY <1>1, <1>2, <2>2, <2>4, <2>6 DEF JpegGoesOn, JpegOnly, z
<1>3. JpegShape(u) /\ JpegSame(u, u)
  BY <1>1 DEF JpegGoesOn, JpegSame
<1>4. JpegShape(x) /\ JpegSame(u, x) /\ x.ok /\ x.dev = u.dev
  BY <1>3 DEF JpegShape, Handle, JpegSame, JpegBooks
<1> HIDE DEF x
<1>5. /\ JpegShape(v) /\ JpegSame(s, v) /\ v.ok /\ v.dev.job = s.dev.job
      /\ \A q \in Sides : SameQueue(s, v, q) /\ v.dev[q].held = "no"
  BY <1>2, <1>4
<1>6. /\ JpegShape(w) /\ JpegSame(s, w) /\ w.ok /\ w.dev.job = s.dev.job
      /\ \A q \in Sides : SameQueue(s, w, q) /\ w.dev[q].held = "no"
  BY <1>1, <1>2, <1>3
<1> HIDE DEF v, w
<1> QED BY <1>1, <1>5, <1>6 DEF u, v, w, x

\* QBufAndWait.
LEMMA DecRuns ==
  ASSUME NEW s, DecInv(s), s.ok, s.captureReady = TRUE, s.outputReady = TRUE
  PROVE  DecInv(QBufAndWait(s))
<1> DEFINE stream == QBUF(s, "src")
           image  == QBUF(stream, "dst")
           first  == DQBUF(image, "src")
           second == DQBUF([first EXCEPT !.ok = TRUE], "dst")
           ended  == [second EXCEPT !.ok = first.ok /\ second.ok, !.jobFor = s.image]
           tidied == Tidied(image)
           freed  == FREEBUFS(STREAMOFF(tidied, "src"), "src")
           t == QBufAndWait(s)
<1>0. t = IF ~stream.ok THEN stream
          ELSE IF ~image.ok THEN Failed(CancelStream(tidied))
          ELSE ended
  BY DEF QBufAndWait
<1>s. /\ DecShape(s) /\ JpegShape(s) /\ DOMAIN s = DecFields
      /\ \A q \in Sides : s.dev[q].on /\ s.dev[q].allocated /\ s.dev[q].held = "no"
  BY SidesFacts DEF DecInv, DecShape, DecSide
<1>1. /\ JpegShape(stream) /\ JpegSame(s, stream) /\ (~stream.ok => stream.dev = s.dev)
      /\ JpegShape(image) /\ JpegSame(s, image) /\ (image.ok => stream.ok)
      /\ \A q \in Sides : SameQueue(s, image, q)
      /\ ~image.ok => image.dev.job = s.dev.job /\ image.dev["dst"].held = "no"
      /\ image.ok => image.dev.job = JobOf(s.dev) /\ \A q \in Sides : image.dev[q].held = "done"
  BY <1>s, JpegPairs
<1>2. CASE ~stream.ok
  <2> HIDE DEF stream
  <2>1. DecInv(stream)
    BY <1>1, <1>2, DecAlike
  <2> QED BY <1>0, <1>2, <2>1
<1> HIDE DEF stream, image
<1>3. CASE stream.ok /\ ~image.ok
  <2>1. /\ DecShape(image) /\ image.captureReady = s.captureReady
        /\ image.outputReady = s.outputReady /\ image.image = s.image /\ image.jobFor = s.jobFor
    BY <1>s, <1>1, DecSame
  <2>2. /\ JpegShape(tidied) /\ tidied.dev = image.dev /\ tidied.ok /\ tidied.fault = NoFault
        /\ JpegSame(image, tidied)
    BY <1>1, JpegCalls, JpegCallsSame
  <2> HIDE DEF tidied
  <2>3. /\ DecShape(tidied) /\ tidied.captureReady = s.captureReady
        /\ tidied.outputReady = s.outputReady /\ tidied.image = s.image /\ tidied.jobFor = s.jobFor
    BY <2>1, <2>2, DecSame
  <2>4. /\ JpegShape(freed) /\ JpegSame(tidied, freed) /\ JpegOnly(tidied, freed, "src")
        /\ ~freed.dev["src"].on /\ freed.dev["src"].held = "no"
    BY <2>2, SidesFacts, DecCancels
  <2>5. CancelStream(tidied) = [freed EXCEPT !.outputReady = FALSE]
    BY <2>3 DEF CancelStream
  <2> HIDE DEF freed
  <2>6. /\ DecShape(freed) /\ freed.captureReady = s.captureReady
        /\ freed.image = s.image /\ freed.jobFor = s.jobFor
    BY <2>3, <2>4, DecSame
  <2>7. PICK b \in BOOLEAN : b = FALSE
    OBVIOUS
  <2>8. PICK f \in {"captureReady", "outputReady"} : f = "outputReady"
    OBVIOUS
  <2> DEFINE w == [freed EXCEPT ![f] = b]
  <2>9. CancelStream(tidied) = w
    BY <2>5, <2>7, <2>8
  <2>10. /\ DecShape(w) /\ w[f] = b /\ w.dev = freed.dev /\ w.ok = freed.ok /\ w.fault = freed.fault
         /\ w.image = freed.image /\ w.jobFor = freed.jobFor
         /\ f # "captureReady" => w.captureReady = freed.captureReady
         /\ f # "outputReady" => w.outputReady = freed.outputReady
    BY <2>6, DecFlagSet
  <2> HIDE DEF w
  <2>11. w.outputReady = FALSE /\ w.captureReady = s.captureReady
    BY <2>6, <2>7, <2>8, <2>10
  <2>12. w.dev["dst"] = image.dev["dst"] /\ w.dev.job = s.dev.job
    BY <1>1, <1>3, <2>2, <2>4, <2>10, SidesFacts DEF JpegOnly
  <2>13. DecSide(w, "dst", w.captureReady)
    BY <1>1, <1>3, <1>s, <2>11, <2>12, SidesFacts DEF DecSide, SameQueue
  <2>14. DecSide(w, "src", w.outputReady)
    BY <2>4, <2>10, <2>11 DEF DecSide
  <2>15. DecJobKept(w) /\ w.dev["dst"].format = w.image
    BY <1>1, <2>6, <2>10, <2>12, SidesFacts DEF DecInv, DecJobKept, SameQueue
  <2>16. DecInv(w)
    BY <2>10, <2>13, <2>14, <2>15 DEF DecInv
  <2> QED BY <1>0, <1>3, <2>9, <2>16, DecCalls
<1>4. CASE stream.ok /\ image.ok
  <2>1. /\ \A q \in Sides : image.dev[q].on /\ image.dev[q].held = "done"
        /\ image.dev.job = JobOf(s.dev)
    BY <1>1, <1>4, <1>s DEF SameQueue
  <2>2. /\ first.ok /\ JpegShape(second) /\ JpegSame(image, second) /\ second.ok
        /\ second.dev.job = image.dev.job
        /\ \A q \in Sides : SameQueue(image, second, q) /\ second.dev[q].held = "no"
    BY <1>1, <1>4, <2>1, JpegBothTaken
  <2>3. t = ended /\ (first.ok /\ second.ok) \in BOOLEAN
    BY <1>0, <1>4
  <2> HIDE DEF second, first, t
  <2>4. JpegSame(s, second)
    BY <1>1, <2>2, JpegSameFacts
  <2>5. /\ DecShape(second) /\ second.captureReady = s.captureReady
        /\ second.outputReady = s.outputReady /\ second.image = s.image /\ second.jobFor = s.jobFor
    BY <1>s, <2>2, <2>4, DecSame
  <2>6. DOMAIN second = DecFields
    BY <2>5 DEF DecShape
  <2>7. /\ DOMAIN ended = DecFields /\ ended.dev = second.dev /\ ended.ok \in BOOLEAN
        /\ ended.jobFor = s.image /\ ended.image = second.image
        /\ ended.captureReady = second.captureReady /\ ended.outputReady = second.outputReady
        /\ ended.fault = second.fault /\ ended.refused = second.refused /\ ended.hangs = second.hangs
    BY <2>6 DEF DecFields
  <2> HIDE DEF ended
  <2>8. JpegShape(ended)
    BY <2>2, <2>6, <2>7 DEF JpegShape, Handle, DecFields
  <2>9. DecShape(ended)
    BY <2>5, <2>7, <2>8 DEF DecShape
  <2>10. ASSUME NEW q \in Sides PROVE SameQueue(s, ended, q) /\ ended.dev[q].held = "no"
    <3>1. SameQueue(s, image, q) /\ SameQueue(image, second, q) /\ second.dev[q].held = "no"
      BY <1>1, <2>2
    <3> QED BY <2>7, <3>1 DEF SameQueue
  <2>11. DecSide(ended, "dst", ended.captureReady) /\ DecSide(ended, "src", ended.outputReady)
    BY <1>s, <2>5, <2>7, <2>10, SidesFacts DEF DecSide, SameQueue
  <2>12. ended.dev["dst"].format = ended.image
    BY <2>5, <2>7, <2>10, SidesFacts DEF DecInv, SameQueue
  <2>13. DecJobKept(ended)
    BY <2>1, <2>2, <2>5, <2>7 DEF DecInv, DecJobKept, JobOf
  <2>14. DecInv(ended)
    BY <2>9, <2>11, <2>12, <2>13 DEF DecInv
  <2> QED BY <2>3, <2>14 DEF t
<1> QED BY <1>2, <1>3, <1>4

\* Decompress keeps the invariant.
LEMMA DecDecompresses ==
  ASSUME JpegFailuresAreSurvived, DecInv(decompressor), NEW fault \in JpegFaults \cup {NoFault},
         Decompress(fault)
  PROVE  DecInv(decompressor')
<1> DEFINE s == Called(decompressor, fault)
           t == PrepareCapture(s)
           u == PrepareStream(t)
           v == IF u.ok THEN QBufAndWait(u) ELSE u
<1>0. decompressor' = Returned(v)
  BY DEF Decompress
<1>1. JpegIsFair(fault)
  BY JpegNoFaultIsFair DEF JpegFailuresAreSurvived
<1>2. DecInv(s) /\ s.ok
  BY <1>1, DecCalls
<1> HIDE DEF s
<1>3. DecInv(t) /\ (t.ok => s.ok /\ t.captureReady)
  BY <1>2, DecCaptures
<1> HIDE DEF t
<1>4. DecInv(u) /\ (u.ok => t.ok /\ u.outputReady) /\ u.captureReady = t.captureReady
  BY <1>3, DecStreams
<1> HIDE DEF u
<1>5. CASE u.ok
  <2>1. u.captureReady = TRUE /\ u.outputReady = TRUE
    BY <1>3, <1>4, <1>5 DEF DecInv, DecShape
  <2>2. DecInv(QBufAndWait(u))
    BY <1>4, <1>5, <2>1, DecRuns
  <2> QED BY <1>0, <1>5, <2>2, DecCalls
<1>6. CASE ~u.ok
  BY <1>0, <1>4, <1>6, DecCalls
<1> QED BY <1>5, <1>6

\* The invariant holds of a new decompressor.
LEMMA DecNewFacts == DecInv(DecompressorNew)
<1> DEFINE s == DecompressorNew
           d == IdleDevice([quality |-> "default"])
<1>1. /\ DOMAIN s = DecFields /\ s.captureReady = FALSE /\ s.outputReady = FALSE
      /\ s.image = "none" /\ s.jobFor = "none" /\ s.dev = d /\ s.ok = TRUE /\ s.fault = NoFault
      /\ s.refused = FALSE /\ s.hangs = FALSE
  BY DEF DecompressorNew, DecFields
<1> HIDE DEF s
<1>2. /\ DOMAIN d = {"src", "dst", "controls", "job"} /\ d.job = NoJob
      /\ \A q \in Sides : d[q] = IdleQueue
  BY IdleFacts
<1> HIDE DEF d
<1>3. \A q \in Sides : /\ DOMAIN d[q] = {"allocated", "on", "held", "format"}
                       /\ d[q].allocated = FALSE /\ d[q].on = FALSE /\ d[q].held = "no"
                       /\ d[q].format = "none"
  BY <1>2, IdleFacts DEF QueueFields
<1>4. JpegShape(s)
  BY <1>1, <1>2, <1>3, JpegNoFaultIsFair DEF JpegShape, Handle, DecFields
<1>5. DecShape(s)
  BY <1>1, <1>4 DEF DecShape
<1>6. DecJobKept(s) /\ DecSide(s, "dst", s.captureReady) /\ DecSide(s, "src", s.outputReady)
  BY <1>1, <1>2, <1>3, SidesFacts DEF DecJobKept, DecSide
<1>7. s.dev["dst"].format = s.image
  BY <1>1, <1>3, SidesFacts
<1> QED BY <1>5, <1>6, <1>7 DEF DecInv, s

\* Every call keeps the invariant of the decompressor.
LEMMA DecKeeps ==
  ASSUME JpegFailuresAreSurvived, DecInv(decompressor), [DecompressorNext]_decompressor
  PROVE  DecInv(decompressor')
<1>1. CASE UNCHANGED decompressor
  BY <1>1
<1>2. ASSUME NEW image \in JpegImages, SetDecodedFormat(image) PROVE DecInv(decompressor')
  BY <1>2, DecConfigures
<1>3. ASSUME NEW fault \in JpegFaults \cup {NoFault}, Decompress(fault) PROVE DecInv(decompressor')
  BY <1>3, DecDecompresses
<1> QED BY <1>1, <1>2, <1>3 DEF DecompressorNext

-----------------------------------------------------------------------------
(* The thumbnailer.                                                        *)

ThumbFields == {"begun", "jobFor", "dev", "ok", "fault", "refused", "hangs"}

ThumbShape(s) ==
  /\ JpegShape(s) /\ DOMAIN s = ThumbFields
  /\ DOMAIN s.begun = Sides /\ \A q \in Sides : s.begun[q] \in BOOLEAN

ThumbJobKept(s) == s.dev.job # NoJob => s.dev.job.src = s.jobFor /\ s.dev.job.dst = s.jobFor

\* A queue that was not begun does not stream.
ThumbInv(s) ==
  /\ ThumbShape(s) /\ ThumbJobKept(s)
  /\ \A q \in Sides : ~s.begun[q] => ~s.dev[q].on

\* What the fields of the object say of its shape.
LEMMA ThumbSame ==
  ASSUME NEW s, NEW t, ThumbShape(s), JpegShape(t), JpegSame(s, t)
  PROVE  ThumbShape(t) /\ t.begun = s.begun /\ t.jobFor = s.jobFor
<1>1. DOMAIN s = ThumbFields
  BY DEF ThumbShape
<1>2. DOMAIN t = ThumbFields /\ t.begun = s.begun /\ t.jobFor = s.jobFor
  BY <1>1 DEF JpegSame, JpegBooks, ThumbFields
<1> QED BY <1>2 DEF ThumbShape

\* Objects with the same device and queues begun.
LEMMA ThumbAlike ==
  ASSUME NEW s, NEW t, ThumbInv(s), JpegShape(t), JpegSame(s, t), t.dev = s.dev
  PROVE  ThumbInv(t) /\ t.begun = s.begun
<1>1. ThumbShape(t) /\ t.begun = s.begun /\ t.jobFor = s.jobFor
  BY ThumbSame DEF ThumbInv
<1> QED BY <1>1 DEF ThumbInv, ThumbJobKept

\* The steps of a call that make no ioctl keep the invariant.
LEMMA ThumbCalls ==
  ASSUME NEW s, ThumbInv(s)
  PROVE  /\ ThumbInv(Returned(s)) /\ ThumbInv(Failed(s))
         /\ \A fault : JpegIsFair(fault) => ThumbInv(Called(s, fault))
<1>1. JpegShape(s)
  BY DEF ThumbInv, ThumbShape
<1>2. /\ JpegShape(Failed(s)) /\ Failed(s).dev = s.dev
      /\ JpegShape(Returned(s)) /\ Returned(s).dev = s.dev
      /\ \A fault : JpegIsFair(fault) => JpegShape(Called(s, fault)) /\ Called(s, fault).dev = s.dev
  BY <1>1, JpegCalls
<1>3. /\ JpegSame(s, Failed(s)) /\ JpegSame(s, Returned(s))
      /\ \A fault : JpegIsFair(fault) => JpegSame(s, Called(s, fault))
  BY <1>1, JpegCallsSame
<1> QED BY <1>2, <1>3, ThumbAlike

\* Whether a queue was begun changes.
LEMMA ThumbBegunSet ==
  ASSUME NEW s, ThumbShape(s), NEW q \in Sides, NEW v \in BOOLEAN
  PROVE  LET t == [s EXCEPT !.begun[q] = v] IN
         /\ ThumbShape(t) /\ t.begun[q] = v /\ \A p \in Sides : p # q => t.begun[p] = s.begun[p]
         /\ t.dev = s.dev /\ t.ok = s.ok /\ t.jobFor = s.jobFor
<1> DEFINE b == [s.begun EXCEPT ![q] = v]
           t == [s EXCEPT !.begun = b]
<1>0. t = [s EXCEPT !.begun[q] = v]
  BY DEF ThumbShape, ThumbFields
<1>1. DOMAIN s = ThumbFields /\ JpegShape(s) /\ DOMAIN s.begun = Sides
  BY DEF ThumbShape
<1>2. /\ DOMAIN b = Sides /\ b[q] = v /\ \A p \in Sides : p # q => b[p] = s.begun[p]
  BY <1>1
<1>b. \A p \in Sides : b[p] \in BOOLEAN
  <2>1. ASSUME NEW p \in Sides PROVE b[p] \in BOOLEAN
    <3>1. CASE p = q
      BY <1>1, <3>1
    <3>2. CASE p # q
      BY <1>1, <3>2 DEF ThumbShape
    <3> QED BY <3>1, <3>2
  <2> QED BY <2>1
<1> HIDE DEF b
<1>3. JpegShape(t)
  BY <1>1 DEF JpegShape, Handle, ThumbFields
<1>4. /\ DOMAIN t = ThumbFields /\ t.begun = b /\ t.dev = s.dev /\ t.ok = s.ok /\ t.jobFor = s.jobFor
  BY <1>1 DEF ThumbFields
<1> HIDE DEF t
<1>5. ThumbShape(t)
  BY <1>2, <1>3, <1>4, <1>b DEF ThumbShape
<1> QED BY <1>0, <1>2, <1>4, <1>5

\* Image::set: a queue that is set up has the format of the picture and does not stream.
LEMMA ThumbSets ==
  ASSUME NEW s, ThumbInv(s), NEW q \in Sides, NEW format
  PROVE  LET t == ImageSet(s, q, format) IN
         /\ ThumbInv(t) /\ (t.ok => s.ok /\ ~t.begun[q] /\ t.dev[q].format = format)
         /\ \A p \in Sides : p # q => t.begun[p] = s.begun[p] /\ t.dev[p] = s.dev[p]
<1> DEFINE u == STREAMOFF(s, q)
           v == FREEBUFS(u, q)
           x == ImageFreed(s, q)
           y == S_FMT(x, q, format)
           t == ImageSet(s, q, format)
<1>0. t = (IF y.ok THEN [y EXCEPT !.begun[q] = FALSE] ELSE y)
  BY DEF ImageSet
<1>s. ThumbShape(s) /\ JpegShape(s) /\ ThumbJobKept(s)
  BY DEF ThumbInv, ThumbShape
<1>1. /\ JpegGoesOn(s, x) /\ JpegOnly(s, x, q)
      /\ x.ok => ~x.dev[q].on
      /\ ~s.begun[q] => ~x.dev[q].on
  <2>1. CASE ~s.begun[q]
    <3>1. x = s
      BY <2>1 DEF ImageFreed
    <3>2. ~s.dev[q].on
      BY <2>1 DEF ThumbInv
    <3> QED BY <1>s, <3>1, <3>2, JpegStands DEF JpegOnly
  <2>2. CASE s.begun[q]
    <3>1. x = v
      BY <2>2 DEF ImageFreed
    <3>2. /\ JpegGoesOn(s, u) /\ JpegOnly(s, u, q) /\ (s.ok => u.ok) /\ (u.ok => ~u.dev[q].on)
      BY <1>s, JpegTurnsOff
    <3> HIDE DEF u
    <3>3. /\ JpegGoesOn(u, v) /\ JpegOnly(u, v, q)
          /\ v.ok => v.dev[q].on = u.dev[q].on
      BY <3>2, JpegFrees DEF JpegGoesOn
    <3> HIDE DEF v, x
    <3>4. JpegGoesOn(s, v)
      BY <3>2, <3>3, JpegChains
    <3>5. JpegOnly(s, v, q)
      BY <3>2, <3>3 DEF JpegOnly
    <3>6. v.ok => ~v.dev[q].on
      BY <3>2, <3>3 DEF JpegGoesOn
    <3> QED BY <2>2, <3>1, <3>4, <3>5, <3>6
  <2> QED BY <2>1, <2>2
<1> HIDE DEF x
<1>2. /\ JpegGoesOn(x, y) /\ JpegOnly(x, y, q)
      /\ ~y.ok => y.dev = x.dev
      /\ y.ok => y.dev[q].format = format /\ y.dev[q].on = x.dev[q].on
  BY <1>1, JpegFormats DEF JpegGoesOn
<1> HIDE DEF y
<1>3. JpegGoesOn(s, y) /\ JpegShape(y) /\ JpegSame(s, y) /\ (y.ok => x.ok /\ s.ok)
  BY <1>1, <1>2, JpegChains, JpegSameFacts DEF JpegGoesOn
<1>4. ThumbShape(y) /\ y.begun = s.begun /\ y.jobFor = s.jobFor
  BY <1>s, <1>3, ThumbSame
<1>5. JpegOnly(s, y, q)
  BY <1>1, <1>2 DEF JpegOnly
<1>6. ThumbJobKept(y)
  BY <1>s, <1>4, <1>5 DEF ThumbJobKept, JpegOnly
<1>7. ~s.begun[q] => ~y.dev[q].on
  BY <1>1, <1>2
<1>8. ThumbInv(y)
  <2>1. ASSUME NEW p \in Sides, ~y.begun[p] PROVE ~y.dev[p].on
    <3>1. CASE p = q
      BY <1>4, <1>7, <2>1, <3>1
    <3>2. CASE p # q
      BY <1>4, <1>5, <2>1, <3>2 DEF JpegOnly, ThumbInv
    <3> QED BY <3>1, <3>2
  <2> QED BY <1>4, <1>6, <2>1 DEF ThumbInv
<1>9. CASE ~y.ok
  <2>1. t = y
    BY <1>0, <1>9
  <2> HIDE DEF t
  <2> QED BY <1>4, <1>5, <1>8, <1>9, <2>1 DEF JpegOnly, t
<1>10. CASE y.ok
  <2>1. PICK b \in BOOLEAN : b = FALSE
    OBVIOUS
  <2> DEFINE w == [y EXCEPT !.begun[q] = b]
  <2>2. t = w
    BY <1>0, <1>10, <2>1
  <2>3. /\ ThumbShape(w) /\ w.begun[q] = b /\ \A p \in Sides : p # q => w.begun[p] = y.begun[p]
        /\ w.dev = y.dev /\ w.ok = y.ok /\ w.jobFor = y.jobFor
    BY <1>4, ThumbBegunSet
  <2> HIDE DEF w, t
  <2>4. ~w.dev[q].on /\ w.dev[q].format = format
    BY <1>1, <1>2, <1>3, <1>10, <2>3
  <2>5. ThumbJobKept(w)
    BY <1>6, <2>3 DEF ThumbJobKept
  <2>6. \A p \in Sides : ~w.begun[p] => ~w.dev[p].on
    BY <1>8, <2>3, <2>4 DEF ThumbInv
  <2>7. ThumbInv(w)
    BY <2>3, <2>5, <2>6 DEF ThumbInv
  <2> QED BY <1>3, <1>4, <1>5, <2>1, <2>2, <2>3, <2>4, <2>7 DEF JpegOnly, t
<1> QED BY <1>9, <1>10

\* What begin gives a queue.
ThumbReady(s, q, format) ==
  /\ s.dev[q].on /\ s.dev[q].allocated /\ s.dev[q].held = "no" /\ s.dev[q].format = format

\* Image::begin.
LEMMA ThumbBegins ==
  ASSUME NEW s, ThumbInv(s), NEW q \in Sides, NEW format,
         s.ok => ~s.begun[q] /\ s.dev[q].format = format
  PROVE  LET t == ImageBegin(s, q) IN
         /\ ThumbInv(t) /\ (t.ok => s.ok /\ ThumbReady(t, q, format))
         /\ \A p \in Sides : p # q => t.begun[p] = s.begun[p] /\ JpegLike(s, t, p)
<1> DEFINE t == ImageBegin(s, q)
<1>1. CASE ~s.ok
  <2>1. t = s
    BY <1>1 DEF ImageBegin
  <2> QED BY <1>1, <2>1 DEF JpegLike, SameQueue
<1>2. CASE s.ok
  <2> DEFINE u == REQBUFS(s, q)
             v == STREAMON(u, q)
  <2>0. t = (IF v.ok THEN [v EXCEPT !.begun[q] = TRUE] ELSE v)
    BY <1>2 DEF ImageBegin
  <2>s. /\ ThumbShape(s) /\ JpegShape(s) /\ ThumbJobKept(s)
        /\ ~s.begun[q] /\ ~s.dev[q].on /\ s.dev[q].format = format
    BY <1>2 DEF ThumbInv, ThumbShape
  <2>1. /\ JpegGoesOn(s, u) /\ JpegOnly(s, u, q)
        /\ ~u.ok => u.dev = s.dev
        /\ u.ok => /\ u.dev[q].format = s.dev[q].format /\ u.dev[q].on = s.dev[q].on
                   /\ u.dev[q].held = "no" /\ u.dev[q].allocated
    BY <2>s, JpegRequests
  <2> HIDE DEF u
  <2>2. JpegShape(u) /\ ~u.dev[q].on /\ u.dev[q].format = format
        /\ (u.ok => u.dev[q].allocated /\ u.dev[q].held = "no")
    BY <2>1, <2>s DEF JpegGoesOn
  <2>3. /\ JpegGoesOn(u, v) /\ v.dev.job = u.dev.job
        /\ ~v.ok => v.dev = u.dev
        /\ v.ok => /\ v.dev[q].on /\ v.dev[q].allocated
                   /\ \A p \in Sides : /\ v.dev[p].format = u.dev[p].format
                                       /\ v.dev[p].held = u.dev[p].held
                                       /\ p # q => SameQueue(u, v, p)
    BY <2>2, JpegTurnsOn
  <2> HIDE DEF v
  <2>4. JpegGoesOn(s, v) /\ JpegShape(v) /\ JpegSame(s, v) /\ (v.ok => u.ok /\ s.ok)
    BY <2>1, <2>3, JpegChains, JpegSameFacts DEF JpegGoesOn
  <2>5. ThumbShape(v) /\ v.begun = s.begun /\ v.jobFor = s.jobFor
    BY <2>s, <2>4, ThumbSame
  <2>6. ASSUME NEW p \in Sides, p # q PROVE JpegLike(s, v, p)
    <3>1. u.dev[p] = s.dev[p]
      BY <2>1, <2>6 DEF JpegOnly
    <3>2. JpegLike(u, v, p)
      <4>1. CASE v.ok
        BY <2>3, <2>6, <4>1 DEF JpegLike
      <4>2. CASE ~v.ok
        BY <2>3, <4>2 DEF JpegLike, SameQueue
      <4> QED BY <4>1, <4>2
    <3> QED BY <3>1, <3>2 DEF JpegLike, SameQueue
  <2>7. ThumbJobKept(v)
    BY <2>1, <2>3, <2>5, <2>s DEF ThumbJobKept, JpegOnly
  <2>8. \A p \in Sides : p # q /\ ~v.begun[p] => ~v.dev[p].on
    BY <2>5, <2>6 DEF ThumbInv, JpegLike, SameQueue
  <2>9. CASE ~v.ok
    <3>1. t = v
      BY <2>0, <2>9
    <3> HIDE DEF t
    <3>2. ~v.dev[q].on
      BY <2>2, <2>3, <2>9
    <3>3. ThumbInv(v)
      BY <2>5, <2>7, <2>8, <3>2 DEF ThumbInv
    <3> QED BY <2>5, <2>6, <2>9, <3>1, <3>3 DEF t
  <2>10. CASE v.ok
    <3>1. PICK b \in BOOLEAN : b = TRUE
      OBVIOUS
    <3> DEFINE w == [v EXCEPT !.begun[q] = b]
    <3>2. t = w
      BY <2>0, <2>10, <3>1
    <3>3. /\ ThumbShape(w) /\ w.begun[q] = b /\ \A p \in Sides : p # q => w.begun[p] = v.begun[p]
          /\ w.dev = v.dev /\ w.ok = v.ok /\ w.jobFor = v.jobFor
      BY <2>5, ThumbBegunSet
    <3> HIDE DEF w, t
    <3>4. ThumbReady(w, q, format)
      BY <2>2, <2>3, <2>4, <2>10, <3>3 DEF ThumbReady
    <3>5. ThumbJobKept(w)
      BY <2>7, <3>3 DEF ThumbJobKept
    <3>6. \A p \in Sides : ~w.begun[p] => ~w.dev[p].on
      BY <2>8, <3>1, <3>3
    <3>7. ThumbInv(w)
      BY <3>3, <3>5, <3>6 DEF ThumbInv
    <3>8. \A p \in Sides : p # q => w.begun[p] = s.begun[p] /\ JpegLike(s, w, p)
      BY <2>5, <2>6, <3>3 DEF JpegLike, SameQueue
    <3> QED BY <2>4, <2>10, <3>2, <3>4, <3>7, <3>8 DEF t
  <2> QED BY <2>9, <2>10
<1> QED BY <1>1, <1>2

\* CancelBuffer: the queue starts again without its buffer, and gives the engine no job.
LEMMA ThumbCancels ==
  ASSUME NEW s, JpegShape(s), NEW q \in Sides, s.dev[q].allocated
  PROVE  LET t == CancelBuffer(s, q) IN JpegShape(t) /\ JpegSame(s, t) /\ t.dev.job = s.dev.job
<1> DEFINE x == Tidied(s)
           u == STREAMOFF(x, q)
           t == STREAMON(u, q)
<1>0. CancelBuffer(s, q) = t
  BY DEF CancelBuffer
<1>1. JpegShape(x) /\ x.dev = s.dev /\ x.ok /\ JpegSame(s, x)
  BY JpegCalls, JpegCallsSame
<1> HIDE DEF x
<1>2. /\ JpegGoesOn(x, u) /\ JpegOnly(x, u, q) /\ u.ok
      /\ u.dev[q].held = "no" /\ u.dev[q].allocated = x.dev[q].allocated
  BY <1>1, JpegTurnsOff
<1> HIDE DEF u
<1>3. JpegShape(u) /\ u.dev[q].allocated /\ u.dev[q].held = "no"
  BY <1>1, <1>2 DEF JpegGoesOn
<1>4. JpegGoesOn(u, t) /\ t.dev.job = u.dev.job
  BY <1>3, JpegTurnsOn
<1> HIDE DEF t
<1>5. JpegShape(t) /\ JpegSame(s, t)
  BY <1>1, <1>2, <1>4, JpegSameFacts DEF JpegGoesOn
<1>6. t.dev.job = s.dev.job
  BY <1>1, <1>2, <1>4 DEF JpegOnly
<1> QED BY <1>0, <1>5, <1>6

\* queue: the engine does the job, or there is none and the queues are as begun.
LEMMA ThumbRuns ==
  ASSUME NEW s, ThumbInv(s), s.ok, NEW format, \A q \in Sides : ThumbReady(s, q, format)
  PROVE  LET t == ThumbnailQueued(s) IN
         /\ ThumbShape(t) /\ t.jobFor = s.jobFor
         /\ \A q \in Sides : t.begun[q]
         /\ t.ok => t.dev.job.src = format /\ t.dev.job.dst = format
         /\ ~t.ok => t.dev.job = s.dev.job
<1> DEFINE src == QBUF(s, "src")
           dst == QBUF(src, "dst")
           one == DQBUF(dst, "src")
           done == DQBUF(one, "dst")
           cancelled == CancelBuffer(dst, "src")
           t == ThumbnailQueued(s)
<1>s. /\ ThumbShape(s) /\ JpegShape(s)
      /\ \A q \in Sides : /\ s.begun[q] /\ s.dev[q].on /\ s.dev[q].allocated /\ s.dev[q].held = "no"
                          /\ s.dev[q].format = format
  BY DEF ThumbInv, ThumbShape, ThumbReady
<1>1. /\ JpegShape(src) /\ JpegSame(s, src) /\ (~src.ok => src.dev = s.dev)
      /\ JpegShape(dst) /\ JpegSame(s, dst) /\ (dst.ok => src.ok)
      /\ \A q \in Sides : SameQueue(s, dst, q)
      /\ ~dst.ok => dst.dev.job = s.dev.job /\ dst.dev["dst"].held = "no" /\ dst.dev = src.dev
      /\ dst.ok => dst.dev.job = JobOf(s.dev) /\ \A q \in Sides : dst.dev[q].held = "done"
  BY <1>s, JpegPairs
<1>2. CASE dst.ok
  <2>1. \A q \in Sides : dst.dev[q].on /\ dst.dev[q].held = "done"
    BY <1>1, <1>2, <1>s DEF SameQueue
  <2> HIDE DEF dst
  <2>2. /\ JpegShape(done) /\ JpegSame(dst, done) /\ done.ok /\ done.dev.job = dst.dev.job
    BY <1>1, <1>2, <2>1, JpegBothTaken
  <2>3. t = done
    BY <1>1, <1>2, <2>2 DEF ThumbnailQueued, dst
  <2> HIDE DEF done, t
  <2>4. JpegSame(s, done)
    BY <1>1, <2>2, JpegSameFacts
  <2>5. ThumbShape(done) /\ done.begun = s.begun /\ done.jobFor = s.jobFor
    BY <1>s, <2>2, <2>4, ThumbSame
  <2>6. done.dev.job.src = format /\ done.dev.job.dst = format
    BY <1>1, <1>2, <1>s, <2>2, SidesFacts DEF JobOf
  <2> QED BY <1>s, <2>2, <2>3, <2>5, <2>6 DEF t
<1>3. CASE ~dst.ok
  <2>1. one = [dst EXCEPT !.ok = FALSE] /\ done = [one EXCEPT !.ok = FALSE]
    <3>1. one = [dst EXCEPT !.ok = FALSE]
      BY <1>3 DEF DQBUF
    <3> HIDE DEF one
    <3>2. ~one.ok
      BY <1>1, <3>1 DEF JpegShape, Handle
    <3>3. done = [one EXCEPT !.ok = FALSE]
      BY <3>2 DEF DQBUF
    <3> QED BY <3>1, <3>3 DEF one
  <2> HIDE DEF dst, one
  <2>2. JpegShape(one) /\ JpegSame(dst, one) /\ one.dev = dst.dev /\ ~one.ok
    <3>1. one = Failed(dst)
      BY <2>1 DEF Failed
    <3> QED BY <1>1, <3>1, JpegCalls, JpegCallsSame
  <2>3. JpegShape(done) /\ JpegSame(one, done) /\ done.dev = one.dev /\ ~done.ok
    <3>1. done = Failed(one)
      BY <2>1 DEF Failed
    <3> QED BY <2>2, <3>1, JpegCalls, JpegCallsSame
  <2> HIDE DEF done
  <2>4. t = IF ~src.ok THEN done ELSE Failed(cancelled)
    BY <1>3, <2>3 DEF ThumbnailQueued, dst, one, done
  <2>5. /\ JpegShape(cancelled) /\ JpegSame(dst, cancelled) /\ cancelled.dev.job = dst.dev.job
    <3>1. dst.dev["src"].allocated
      BY <1>1, <1>s, SidesFacts DEF SameQueue
    <3> QED BY <1>1, <3>1, SidesFacts, ThumbCancels
  <2> HIDE DEF cancelled
  <2>6. /\ JpegShape(Failed(cancelled)) /\ JpegSame(cancelled, Failed(cancelled))
        /\ Failed(cancelled).dev = cancelled.dev /\ ~Failed(cancelled).ok
    BY <2>5, JpegCalls, JpegCallsSame
  <2> HIDE DEF t
  <2>7. JpegShape(t) /\ JpegSame(s, t) /\ t.dev.job = s.dev.job /\ ~t.ok
    <3>1. CASE ~src.ok
      <4>1. JpegSame(s, done) /\ done.dev.job = s.dev.job
        BY <1>1, <1>3, <2>2, <2>3, JpegSameFacts
      <4> QED BY <2>3, <2>4, <3>1, <4>1
    <3>2. CASE src.ok
      <4>1. JpegSame(s, Failed(cancelled)) /\ Failed(cancelled).dev.job = s.dev.job
        BY <1>1, <1>3, <2>5, <2>6, JpegSameFacts
      <4> QED BY <2>4, <2>6, <3>2, <4>1
    <3> QED BY <3>1, <3>2
  <2>8. ThumbShape(t) /\ t.begun = s.begun /\ t.jobFor = s.jobFor
    BY <1>s, <2>7, ThumbSame
  <2> QED BY <1>s, <2>7, <2>8 DEF t
<1> QED BY <1>2, <1>3

\* GenerateThumbnailImage keeps the invariant.
LEMMA ThumbGenerates ==
  ASSUME JpegFailuresAreSurvived, ThumbInv(thumbnailer), NEW image,
         NEW fault \in JpegFaults \cup {NoFault}, GenerateThumbnail(image, fault)
  PROVE  ThumbInv(thumbnailer')
<1> DEFINE s     == Called(thumbnailer, fault)
           one   == ImageSet(s, "src", image)
           both  == ImageSet(one, "dst", image)
           first == ImageBegin(both, "src")
           begun == ImageBegin(first, "dst")
           done  == ThumbnailQueued(begun)
           given == [done EXCEPT !.jobFor = image]
<1>0. thumbnailer' = Returned(IF ~begun.ok THEN begun ELSE IF ~done.ok THEN done ELSE given)
  BY DEF GenerateThumbnail
<1>1. ThumbInv(s)
  <2>1. JpegIsFair(fault)
    BY JpegNoFaultIsFair DEF JpegFailuresAreSurvived
  <2> QED BY <2>1, ThumbCalls
<1> HIDE DEF s
<1>2. ThumbInv(one) /\ (one.ok => ~one.begun["src"] /\ one.dev["src"].format = image)
  BY <1>1, SidesFacts, ThumbSets
<1> HIDE DEF one
<1>3. /\ ThumbInv(both)
      /\ both.ok => one.ok /\ ~both.begun["dst"] /\ both.dev["dst"].format = image
      /\ \A p \in Sides : p # "dst" => both.begun[p] = one.begun[p] /\ both.dev[p] = one.dev[p]
  BY <1>2, SidesFacts, ThumbSets
<1> HIDE DEF both
<1>4. /\ ThumbInv(first) /\ (first.ok => both.ok /\ ThumbReady(first, "src", image))
      /\ \A p \in Sides : p # "src" => first.begun[p] = both.begun[p] /\ JpegLike(both, first, p)
  <2>1. both.ok => ~both.begun["src"] /\ both.dev["src"].format = image
    BY <1>2, <1>3, SidesFacts
  <2> QED BY <1>3, <2>1, SidesFacts, ThumbBegins
<1> HIDE DEF first
<1>5. /\ ThumbInv(begun) /\ (begun.ok => first.ok /\ ThumbReady(begun, "dst", image))
      /\ \A p \in Sides : p # "dst" => begun.begun[p] = first.begun[p] /\ JpegLike(first, begun, p)
  <2>1. first.ok => ~first.begun["dst"] /\ first.dev["dst"].format = image
    BY <1>3, <1>4, SidesFacts DEF JpegLike, SameQueue
  <2> QED BY <1>4, <2>1, SidesFacts, ThumbBegins
<1> HIDE DEF begun
<1>6. CASE ~begun.ok
  BY <1>0, <1>5, <1>6, ThumbCalls
<1>7. CASE begun.ok
  <2>1. ThumbReady(begun, "src", image) /\ ThumbReady(begun, "dst", image)
    BY <1>4, <1>5, <1>7, SidesFacts DEF ThumbReady, JpegLike, SameQueue
  <2>2. \A q \in Sides : ThumbReady(begun, q, image)
    BY <2>1, SidesFacts
  <2>3. /\ ThumbShape(done) /\ done.jobFor = begun.jobFor
        /\ \A q \in Sides : done.begun[q]
        /\ done.ok => done.dev.job.src = image /\ done.dev.job.dst = image
        /\ ~done.ok => done.dev.job = begun.dev.job
    BY <1>5, <1>7, <2>2, ThumbRuns
  <2> HIDE DEF done
  <2>4. CASE ~done.ok
    <3>1. ThumbInv(done)
      BY <1>5, <2>3, <2>4 DEF ThumbInv, ThumbJobKept
    <3> QED BY <1>0, <1>7, <2>4, <3>1, ThumbCalls
  <2>5. CASE done.ok
    <3>1. DOMAIN done = ThumbFields /\ JpegShape(done)
      BY <2>3 DEF ThumbShape
    <3>2. /\ DOMAIN given = ThumbFields /\ given.jobFor = image /\ given.begun = done.begun
          /\ given.dev = done.dev /\ given.ok = done.ok /\ given.fault = done.fault
          /\ given.refused = done.refused /\ given.hangs = done.hangs
      BY <3>1 DEF ThumbFields
    <3>3. Returned(given) = thumbnailer'
      BY <1>0, <1>7, <2>5
    <3> HIDE DEF given
    <3>4. JpegShape(given)
      BY <3>1, <3>2 DEF JpegShape, Handle, ThumbFields
    <3>5. ThumbShape(given)
      BY <2>3, <3>2, <3>4 DEF ThumbShape
    <3>6. ThumbInv(given)
      BY <2>3, <2>5, <3>2, <3>5 DEF ThumbInv, ThumbJobKept
    <3>7. ThumbInv(Returned(given))
      BY <3>6, ThumbCalls
    <3> QED BY <3>3, <3>7
  <2> QED BY <2>4, <2>5
<1> QED BY <1>6, <1>7

\* The invariant holds of a new thumbnailer.
LEMMA ThumbNewFacts == ThumbInv(ThumbnailerNew)
<1> DEFINE s == ThumbnailerNew
           d == IdleDevice([quality |-> "default"])
<1>1. /\ DOMAIN s = ThumbFields /\ s.begun = [q \in Sides |-> FALSE]
      /\ s.jobFor = "none" /\ s.dev = d /\ s.ok = TRUE /\ s.fault = NoFault
      /\ s.refused = FALSE /\ s.hangs = FALSE
  BY DEF ThumbnailerNew, ThumbFields
<1> HIDE DEF s
<1>2. /\ DOMAIN d = {"src", "dst", "controls", "job"} /\ d.job = NoJob
      /\ \A q \in Sides : d[q] = IdleQueue
  BY IdleFacts
<1> HIDE DEF d
<1>3. \A q \in Sides : /\ DOMAIN d[q] = {"allocated", "on", "held", "format"}
                       /\ d[q].allocated = FALSE /\ d[q].on = FALSE
  BY <1>2, IdleFacts DEF QueueFields
<1>4. JpegShape(s)
  BY <1>1, <1>2, <1>3, JpegNoFaultIsFair DEF JpegShape, Handle, ThumbFields
<1>5. ThumbShape(s)
  BY <1>1, <1>4 DEF ThumbShape
<1>6. ThumbJobKept(s) /\ \A q \in Sides : ~s.begun[q] => ~s.dev[q].on
  BY <1>1, <1>2, <1>3 DEF ThumbJobKept
<1> QED BY <1>5, <1>6 DEF ThumbInv, s

\* Every call keeps the invariant of the thumbnailer.
LEMMA ThumbKeeps ==
  ASSUME JpegFailuresAreSurvived, ThumbInv(thumbnailer), [ThumbnailerNext]_thumbnailer
  PROVE  ThumbInv(thumbnailer')
<1>1. CASE UNCHANGED thumbnailer
  BY <1>1
<1>2. ASSUME NEW image \in JpegImages, NEW fault \in JpegFaults \cup {NoFault},
             GenerateThumbnail(image, fault)
      PROVE  ThumbInv(thumbnailer')
  BY <1>2, ThumbGenerates
<1> QED BY <1>1, <1>2 DEF ThumbnailerNext

-----------------------------------------------------------------------------
(* The libraries together.                                                 *)

LibrariesInv ==
  /\ GscInv(gsc) /\ ScInv(scaler)
  /\ CompInv(compressor) /\ DecInv(decompressor) /\ ThumbInv(thumbnailer)

(* The ioctls whose failure a library survives: what the theorems below    *)
(* assume of the driver.                                                   *)
FailuresAreSurvived == GscColoursAreSet /\ ScFailuresAreSurvived /\ JpegFailuresAreSurvived

\* The libraries begin with new handles.
LEMMA LibrariesBegin == HandlesInit => LibrariesInv
BY GscNewFacts, ScNewFacts, CompNewFacts, DecNewFacts, ThumbNewFacts
DEF HandlesInit, GscInit, ScInit, JpegInit, LibrariesInv

\* A call of one library leaves the handles of the others alone.
LEMMA LibrariesKeep ==
  ASSUME FailuresAreSurvived, LibrariesInv, [LibrariesNext]_librariesVars
  PROVE  LibrariesInv'
<1>1. [GscNext]_gscVars
  BY DEF LibrariesNext, librariesVars, gscVars
<1>2. [ScNext]_scaler
  BY DEF LibrariesNext, librariesVars
<1>3. [CompressorNext]_compressor
  BY DEF LibrariesNext, librariesVars, jpegVars, DecompressorNext, SetDecodedFormat, Decompress,
         ThumbnailerNext, GenerateThumbnail
<1>4. [DecompressorNext]_decompressor
  BY DEF LibrariesNext, librariesVars, jpegVars, CompressorNext, SetImageFormat, SetBuffers,
         SetQuality, Compress, WaitForCompression, ReleaseDevice, ThumbnailerNext, GenerateThumbnail
<1>5. [ThumbnailerNext]_thumbnailer
  BY DEF LibrariesNext, librariesVars, jpegVars, CompressorNext, SetImageFormat, SetBuffers,
         SetQuality, Compress, WaitForCompression, ReleaseDevice, DecompressorNext,
         SetDecodedFormat, Decompress
<1>6. GscInv(gsc')
  BY <1>1, GscKeeps DEF LibrariesInv, FailuresAreSurvived
<1>7. ScInv(scaler')
  BY <1>2, ScKeeps DEF LibrariesInv, FailuresAreSurvived
<1>8. CompInv(compressor')
  BY <1>3, CompKeeps DEF LibrariesInv, FailuresAreSurvived
<1>9. DecInv(decompressor')
  BY <1>4, DecKeeps DEF LibrariesInv, FailuresAreSurvived
<1>10. ThumbInv(thumbnailer')
  BY <1>5, ThumbKeeps DEF LibrariesInv, FailuresAreSurvived
<1>11. /\ GscInv(gsc)' <=> GscInv(gsc')
       /\ ScInv(scaler)' <=> ScInv(scaler')
       /\ CompInv(compressor)' <=> CompInv(compressor')
       /\ DecInv(decompressor)' <=> DecInv(decompressor')
       /\ ThumbInv(thumbnailer)' <=> ThumbInv(thumbnailer')
  OBVIOUS
<1> QED BY <1>6, <1>7, <1>8, <1>9, <1>10, <1>11 DEF LibrariesInv

\* The engines have done what was asked for.
LEMMA JobsFit == LibrariesInv => JobsAreAsOrdered
<1> SUFFICES ASSUME LibrariesInv PROVE JobsAreAsOrdered
  OBVIOUS
<1>1. GscJobsAreAsOrdered
  BY DEF LibrariesInv, GscInv, GscBase, GscJobFits, GscJobsAreAsOrdered
<1>2. ScJobsAreAsOrdered
  BY DEF LibrariesInv, ScInv, ScJobKept, ScJobFits, ScWanted, ScJobsAreAsOrdered
<1>3. JpegJobsAreAsOrdered
  BY DEF LibrariesInv, CompInv, CompJobKept, DecInv, DecJobKept, ThumbInv, ThumbJobKept,
         JpegJobsAreAsOrdered
<1> QED BY <1>1, <1>2, <1>3 DEF JobsAreAsOrdered

\* No handle is stuck.
LEMMA NothingHangs == LibrariesInv => DevicesStayUsable
<1> SUFFICES ASSUME LibrariesInv PROVE DevicesStayUsable
  OBVIOUS
<1>1. GscNeverHangs
  BY DEF LibrariesInv, GscInv, GscBase, GscNeverHangs
<1>2. ScNeverStuck
  BY DEF LibrariesInv, ScInv, ScBase, ScShape, ScNeverStuck
<1>3. JpegNeverStuck
  BY DEF LibrariesInv, CompInv, CompShape, DecInv, DecShape, ThumbInv, ThumbShape, JpegShape,
         JpegNeverStuck
<1> QED BY <1>1, <1>2, <1>3 DEF DevicesStayUsable

\* The inductive invariant of the libraries.
LEMMA LibrariesInvAlways ==
  ASSUME FailuresAreSurvived
  PROVE  LibrariesSpec => []LibrariesInv
<1>1. LibrariesInv /\ [LibrariesNext]_librariesVars => LibrariesInv'
  BY LibrariesKeep
<1> QED BY <1>1, LibrariesBegin, PTL DEF LibrariesSpec

(* Every job of a 2D, scaler or JPEG engine has the formats and the        *)
(* controls of the call that queued it, whatever the calls before it did   *)
(* and whichever of the ioctls that FailuresAreSurvived admits failed in   *)
(* them: the flags by which CGscaler, CScalerV4L2 and the JPEG classes     *)
(* skip an ioctl tell the truth of the device.                             *)
THEOREM JobsAreAlwaysAsOrdered ==
  ASSUME FailuresAreSurvived
  PROVE  LibrariesSpec => []JobsAreAsOrdered
BY LibrariesInvAlways, JobsFit, PTL

(* No sequence of calls and of such failures leaves a handle whose next    *)
(* call waits for ever in VIDIOC_DQBUF, or, in the scaler's and the JPEG   *)
(* library, makes an ioctl that the driver refuses in the state its queue  *)
(* is in.                                                                  *)
THEOREM DevicesAlwaysStayUsable ==
  ASSUME FailuresAreSurvived
  PROVE  LibrariesSpec => []DevicesStayUsable
BY LibrariesInvAlways, NothingHangs, PTL
=============================================================================
