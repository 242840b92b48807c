---------------------------- MODULE MCFrameCycle ----------------------------
(* The frame cycle for TLC: one display with two layers, which may reuse   *)
(* its client target, with and without the trusted UI, or two displays     *)
(* with a layer each that share the flag of geometry changes.              *)
EXTENDS FrameCycle, TLC
CONSTANTS p, e, a, b, c
TwoDisplays == (a :> p) @@ (b :> p) @@ (c :> e)
MCDevices ==
    {[may |-> {a, b}, layers |-> {a, b}, skipStatic |-> TRUE, hasTui |-> tuiMay] : tuiMay \in BOOLEAN}
    \union {[may |-> {a, c}, layers |-> {a, c}, skipStatic |-> FALSE, hasTui |-> FALSE]}
=============================================================================
