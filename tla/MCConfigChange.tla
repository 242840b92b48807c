---------------------------- MODULE MCConfigChange ----------------------------
(* Two configurations of the display for TLC, as model values.             *)
EXTENDS ConfigChange

CONSTANTS c1, c2
MCConfig == {c1, c2}
=============================================================================
