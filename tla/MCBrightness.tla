---------------------------- MODULE MCBrightness ----------------------------
(* The brightness of a display for TLC: each behaviour leaves out the      *)
(* requests that are not in its focus, because all of them together are    *)
(* too many states.                                                        *)
EXTENDS BrightnessController

VARIABLE focus

\* What may happen besides the composer's brightness and its frames.
Foci == {{"service", "power", "clear", "instant"}, {"service", "dim", "instant", "clear"},
         {"service", "enhance", "instant", "looper"}, {"sensor", "service"}, {"sensor", "power", "clear"}}

MCInit == BrightnessInit /\ focus \in Foci

InFocus ==
    /\ setter'["service"].pc # "idle" => "service" \in focus
    /\ sensor' # "idle" => "sensor" \in focus
    /\ power' # "ON" \/ clearing' = "off" => "power" \in focus
    /\ clearing' = "clear" => "clear" \in focus
    /\ bc'.instant => "instant" \in focus
    /\ bc'.enhance => "enhance" \in focus
    /\ bc'.dim => "dim" \in focus
    /\ looper' => "looper" \in focus

MCNext == BrightnessNext /\ InFocus /\ UNCHANGED focus
MCSpec == MCInit /\ [][MCNext]_<<brightnessVars, focus>>
=============================================================================
