------------------------------ MODULE MCFrames ------------------------------
(* Frames and the power hints that go with them, for TLC: each behaviour   *)
(* is one of the frame cycle or one of the hints, which share no variable. *)
EXTENDS MCFrameCycle, PowerHints

VARIABLE focus
framesVars == <<focus, frameVars, hintVars>>

\* The other model stands still in one of its initial states.
HintsParked ==
    /\ wanted.rate = CHOOSE r \in HintRates : TRUE
    /\ wanted.target = CHOOSE t \in Targets : TRUE

FramesInit ==
    /\ focus \in {"frames", "hints"}
    /\ FrameInit /\ HintInit
    /\ IF focus = "hints" THEN device = CHOOSE d \in Devices : TRUE ELSE HintsParked

FramesNext ==
    \/ focus = "frames" /\ FrameNext /\ UNCHANGED <<focus, hintVars>>
    \/ focus = "hints" /\ HintNext /\ UNCHANGED <<focus, frameVars>>

FramesSpec == FramesInit /\ [][FramesNext]_framesVars
=============================================================================
