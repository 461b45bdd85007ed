---------------------------- MODULE MCPushStreams ----------------------------
(* Model-checking instances of PushStreams.                                *)
EXTENDS PushStreams, TLC

Symmetry == Permutations(Clients \ (Shared \cup Throttled))
=============================================================================
