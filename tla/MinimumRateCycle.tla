-------------------------- MODULE MinimumRateCycle --------------------------
(***************************************************************************)
(* What the controller promises of a minimum refresh rate, as the comment  *)
(* of MinimumRefreshRatePresentStates (VariableRefreshRateController.h,    *)
(* lines 216-231) states it: while a minimum rate with a lock time is set, *)
(* a frame promotes the display to its maximum rate, the lock time ends in *)
(* a transition, and a transition without frames goes back to the minimum. *)
(***************************************************************************)
EXTENDS Naturals

VARIABLES
    state,     \* the present state
    rate,      \* the minimum refresh rate
    lockTime   \* how long the maximum rate is kept after a frame

range == <<rate, lockTime>>

Init == state = "Unset" /\ rate = 0 /\ lockTime = 0

IsSet == rate > 1

(* A new range starts the cycle at the minimum rate.                       *)
Set ==
    /\ range' # range /\ rate' > 1
    /\ state' = "AtMinimum"

Unset ==
    /\ IsSet /\ rate' <= 1 /\ lockTime' = 0
    /\ state' = "Unset"

(* A frame, when there is a lock time.                                     *)
Promote ==
    /\ state = "AtMinimum" /\ IsSet /\ lockTime > 0
    /\ state' = "AtMaximum"
    /\ UNCHANGED range

LockTimeEnds ==
    /\ state = "AtMaximum"
    /\ state' = "Transition"
    /\ UNCHANGED range

Revert ==
    /\ state = "Transition"
    /\ state' = "AtMinimum"
    /\ UNCHANGED range

Next == Set \/ Unset \/ Promote \/ LockTimeEnds \/ Revert

Spec == Init /\ [][Next]_<<state, rate, lockTime>>
=============================================================================
