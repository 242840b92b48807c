------------------------- MODULE MCPrimaryDisplayVrr -------------------------
(* Constants of the primary display and its controller for TLC.            *)
EXTENDS PrimaryDisplayVrr

MCRates == [c \in Config |-> 60]
MCValidRates == [c \in Config |-> {1, 10, 60}]
MCOneEvent == <<0>>
MCTwoEvents == <<0, 1>>
=============================================================================
