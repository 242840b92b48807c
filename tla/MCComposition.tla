--------------------------- MODULE MCComposition ---------------------------
(* The engines that compose and convert images, for TLC: each behaviour is *)
(* one of the assignment of a frame's resources or one of a handle of the  *)
(* image libraries.  They share no variable.                               *)
EXTENDS MCOverlayResources, MCLibraries

compositionVars == <<librariesVars, resourceVars>>

\* The assignment stands still in its first initial state when it is not the focus.
IdleStack == stack = [i \in Idx |-> CHOOSE k \in Kinds : k.client]

CompositionInit ==
    /\ focus \in {"resources"} \cup Handles
    /\ focus = "resources" \/ (focus # "resources" /\ IdleStack)
    /\ ResourceInit /\ HandlesInit

CompositionNext ==
    \/ focus = "resources" /\ ResourceNext /\ UNCHANGED librariesVars
    \/ LibrariesNext /\ UNCHANGED resourceVars

\* Only the variables of the focus ever change.
CompositionView ==
    <<focus, CASE focus = "resources" -> resourceVars [] focus = "gscaler" -> gscVars
               [] focus = "scaler" -> scaler [] OTHER -> jpegVars>>

CompositionSpec == CompositionInit /\ [][CompositionNext]_compositionVars
=============================================================================
