----------------------------- MODULE MCStepUps -----------------------------
(* A small instance of StepUps for TLC.  Accounts are interchangeable, and *)
(* so are requests.                                                        *)
EXTENDS StepUps, TLC
CONSTANTS a1, a2, r1, r2
Interchangeable == Permutations(Requests) \cup Permutations(Accounts)
=============================================================================
