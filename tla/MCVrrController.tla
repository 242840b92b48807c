--------------------------- MODULE MCVrrController ---------------------------
(* Constants of the controller for TLC. One unit of time stands for the    *)
(* shortest timeout; rates are 1 (idle), 10 (minimum) and 60, 120 (peak).  *)
EXTENDS VrrController

MCOneRate == [c \in Config |-> 120]
MCTwoRates == [c \in Config |-> IF c = "full" THEN 120 ELSE 60]
MCValidRates == [c \in Config |-> {1, 10, 60} \union (IF c = "full" THEN {120} ELSE {})]

MCOneEvent == <<0>>
MCTwoEvents == <<0, 1>>
MCOverrides == {[timeout |-> 1, schedule |-> <<0, 0, 1>>]}
MCNoOverrides == {}
=============================================================================
