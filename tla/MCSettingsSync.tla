--------------------------- MODULE MCSettingsSync ---------------------------
(* A small instance of SettingsSync for TLC.  Accounts are interchangeable. *)
EXTENDS SettingsSync, TLC
CONSTANTS a1, a2
Interchangeable == Permutations(Accounts)
=============================================================================
