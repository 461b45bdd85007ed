---------------------------- MODULE MCLiteTokens ----------------------------
(* Model-checking instances of LiteTokens.                                 *)
EXTENDS LiteTokens, TLC

Symmetry == Permutations(Tabs) \cup Permutations(Accounts) \cup Permutations(Logins)
=============================================================================
