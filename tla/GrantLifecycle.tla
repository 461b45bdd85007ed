--------------------------- MODULE GrantLifecycle ---------------------------
(***************************************************************************)
(* What "Link mobile app" promises about the sign-in material it mints for *)
(* phones, whatever codes, records and expiries the store keeps for it: a  *)
(* grant is held by the server until one phone gets it or it is withdrawn, *)
(* and neither is ever taken back.  PairingStore implements this.          *)
(***************************************************************************)
CONSTANT Grants

VARIABLE fate   \* what became of each grant

Fates == {"unminted", "held", "phone", "withdrawn"}
With(f) == {g \in Grants : fate[g] = f}

Init == fate = [g \in Grants |-> "unminted"]

(* Grants run out in the course of any request, `lapsed` in this one.      *)
Mint(g) ==
  /\ fate[g] = "unminted"
  /\ \E lapsed \in SUBSET With("held") :
       fate' = [h \in Grants |-> IF h = g THEN "held"
                                 ELSE IF h \in lapsed THEN "withdrawn" ELSE fate[h]]

HandOut(g) ==
  /\ fate[g] = "held"
  /\ \E lapsed \in SUBSET (With("held") \ {g}) :
       fate' = [h \in Grants |-> IF h = g THEN "phone"
                                 ELSE IF h \in lapsed THEN "withdrawn" ELSE fate[h]]

Withdraw ==
  \E lapsed \in SUBSET With("held") :
    fate' = [h \in Grants |-> IF h \in lapsed THEN "withdrawn" ELSE fate[h]]

Next == (\E g \in Grants : Mint(g) \/ HandOut(g)) \/ Withdraw

Spec == Init /\ [][Next]_fate

=============================================================================
