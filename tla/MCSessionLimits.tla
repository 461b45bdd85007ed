-------------------------- MODULE MCSessionLimits --------------------------
(* A small instance of SessionLimits for TLC: an idle limit below a         *)
(* maximum, a maximum alone, and no limits.                                 *)
EXTENDS SessionLimits, TLC
CONSTANTS t1, t2
IdleLimit == [idle |-> 2, max |-> 3, warn |-> 1]
MaxLimit == [idle |-> 0, max |-> 1, warn |-> 1]
IdleOrMax == {IdleLimit, MaxLimit}
MCPolicies == {IdleLimit, MaxLimit, NoLimits}

(* Only the tab whose deadline passes has to go on: the other may be frozen. *)
OneTabGoesOn == Spec /\ Fairness(t1)

(* A deadline that passed in a tab ends the session of the whole browser,   *)
(* by what that tab does itself (session-timer.ts, evaluate; the guard's     *)
(* endSession).  Any tab can be t1.                                         *)
DeadlineEndsSession == DeadlineEnds(t1)
=============================================================================
