------------------------- MODULE MCOverlayResources -------------------------
(* The assignment of the overlay resources for TLC: layers of low priority *)
(* that every channel, one channel or none can show, with and without the  *)
(* G2D; video layers of high priority; protected ones, which the G2D may   *)
(* have to rotate; and one that SurfaceFlinger composes.                   *)
EXTENDS OverlayResources
Layer(priority, clear, otf, g2d) ==
    [client |-> FALSE, priority |-> priority, clear |-> clear, otf |-> otf, g2d |-> g2d]
MCKinds ==
    {Layer(1, FALSE, otf, g2d) : otf \in {{}, {1}}, g2d \in BOOLEAN}
    \union {Layer(1, FALSE, Otfs, TRUE)}
    \union {Layer(2, FALSE, {2}, FALSE)}
    \union {Layer(3, clear, Otfs, FALSE) : clear \in BOOLEAN}
    \union {Layer(4, TRUE, {}, TRUE)}
    \union {[Layer(1, TRUE, Otfs, TRUE) EXCEPT !.client = TRUE]}
=============================================================================
