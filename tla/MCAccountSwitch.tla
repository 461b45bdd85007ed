-------------------------- MODULE MCAccountSwitch --------------------------
(* Small instances of AccountSwitch for TLC.                               *)
EXTENDS AccountSwitch, TLC
CONSTANTS a1, a2, a3, a4
MCAccounts == {a1, a2, a3}
Sym == Permutations(MCAccounts)
SymPair == Permutations({a1, a2})
=============================================================================
