--------------------------- MODULE PairingProofs ---------------------------
(***************************************************************************)
(* Proofs about PairingStore and Pairing, for every set of grants, codes   *)
(* and tabs, every lifetime and every number of requests under way.        *)
(*                                                                         *)
(* First the store alone: its invariant is stated of a store value and a   *)
(* clock reading, and proved preserved by each store function.  Then the   *)
(* routes, which chain these functions: they preserve the same invariant,  *)
(* and only ever make grants and codes "evolve" - no record changes whose  *)
(* it is, and no dead grant comes back.                                    *)
(***************************************************************************)
EXTENDS Pairing, TLAPS

-----------------------------------------------------------------------------
(* The store.                                                              *)

(* Records are forgotten TombstoneTTL after they expire, codes before their *)
(* grant, and an unminted grant has left no trace.                          *)
RecordsInv(s, t) ==
  /\ \A g \in Grants : Known(s.grants, g) =>
       /\ g \in s.minted
       /\ s.grants[g].forgetAt = s.grants[g].expiresAt + TombstoneTTL
  /\ \A c \in Codes : Known(s.codes, c) =>
       /\ c <= s.issued
       /\ Known(s.grants, s.codes[c].grantId)
       /\ s.codes[c].forgetAt = s.codes[c].expiresAt + TombstoneTTL
       /\ s.codes[c].expiresAt <= s.grants[s.codes[c].grantId].expiresAt
       /\ s.codes[c].expiresAt <= t + CodeTTL
  /\ s.statusIndex = {c \in Codes : Known(s.codes, c)}

(* What became of each grant.                                              *)
FatesInv(s) ==
  /\ \A g \in Grants : g \in s.minted <=> Held(s, g) \/ HandedOut(s, g) \/ g \in s.disposed
  /\ \A g \in Grants : Held(s, g) => ~ HandedOut(s, g) /\ g \notin s.disposed
  /\ \A g \in Grants : HandedOut(s, g) => g \notin s.disposed
  /\ \A g \in Grants, c, d \in Codes : <<g, c>> \in s.handed /\ <<g, d>> \in s.handed => c = d

(* Of a grant's codes only the newest is not superseded, and older ones    *)
(* expire no later.                                                        *)
OrderInv(s) ==
  \A c, d \in Codes :
    Known(s.codes, c) /\ Known(s.codes, d) /\ c < d /\ s.codes[c].grantId = s.codes[d].grantId =>
      /\ s.codes[c].state = "superseded"
      /\ s.codes[c].expiresAt <= s.codes[d].expiresAt

(* The code that got a grant is its newest, is marked redeemed, and is     *)
(* remembered for as long as any other code of that grant.                 *)
HandedInv(s) ==
  /\ \A g \in Grants, c \in Codes : <<g, c>> \in s.handed =>
       /\ c <= s.issued
       /\ Known(s.codes, c) => s.codes[c].grantId = g /\ s.codes[c].state = "redeemed"
       /\ \A d \in Codes : Known(s.codes, d) /\ s.codes[d].grantId = g =>
            d <= c /\ Known(s.codes, c)
  /\ \A c \in Codes : Known(s.codes, c) /\ s.codes[c].state = "redeemed" =>
       <<s.codes[c].grantId, c>> \in s.handed

StoreInv(s, t) ==
  s \in StoreType /\ RecordsInv(s, t) /\ FatesInv(s) /\ OrderInv(s) /\ HandedInv(s)

Inv == now \in Nat /\ StoreInv(store, now)

-----------------------------------------------------------------------------
(* Sweep, field by field.                                                  *)
LEMMA SweepFields ==
  ASSUME NEW s \in StoreType, NEW t \in Nat
  PROVE  /\ \A g \in Grants : Sweep(s, t).grants[g] = SweptGrant(s, g, t)
         /\ \A c \in Codes : Sweep(s, t).codes[c] = SweptCode(s, c, t)
         /\ Sweep(s, t).statusIndex
              = {c \in s.statusIndex : ~ (Known(s.codes, c) /\ s.codes[c].forgetAt <= t)}
         /\ Sweep(s, t).issued = s.issued
         /\ Sweep(s, t).minted = s.minted
         /\ Sweep(s, t).handed = s.handed
         /\ Sweep(s, t).disposed
              = s.disposed \cup {g \in Grants : Held(s, g) /\ s.grants[g].expiresAt <= t}
BY DEF Sweep, StoreType

(* Sweeping yields a store.                                                *)
LEMMA SweepType ==
  ASSUME NEW s \in StoreType, NEW t \in Nat
  PROVE  Sweep(s, t) \in StoreType
<1>1. \A g \in Grants : SweptGrant(s, g, t) \in GrantRecord \cup {NoRecord}
  BY DEF SweptGrant, StoreType, Known, GrantRecord
<1>2. \A c \in Codes : SweptCode(s, c, t) \in CodeRecord \cup {NoRecord}
  BY DEF SweptCode, StoreType, Known
<1>3. QED
  BY <1>1, <1>2 DEF Sweep, StoreType

(* What sweeping leaves of a grant record and of a code record.            *)
LEMMA SweepGrants ==
  ASSUME NEW s \in StoreType, NEW t \in Nat, NEW g \in Grants
  PROVE  /\ Known(Sweep(s, t).grants, g) <=> Known(s.grants, g) /\ s.grants[g].forgetAt > t
         /\ Held(Sweep(s, t), g)
              <=> Held(s, g) /\ s.grants[g].expiresAt > t /\ s.grants[g].forgetAt > t
         /\ Known(Sweep(s, t).grants, g) =>
              /\ Sweep(s, t).grants[g].expiresAt = s.grants[g].expiresAt
              /\ Sweep(s, t).grants[g].forgetAt = s.grants[g].forgetAt
              /\ Sweep(s, t).grants[g].owner = s.grants[g].owner
<1>1. Sweep(s, t).grants[g] = SweptGrant(s, g, t)
  BY SweepFields
<1>2. s.grants[g] \in GrantRecord \cup {NoRecord}
  BY DEF StoreType
<1>3. \A r \in GrantRecord : [r EXCEPT !.grant = "wiped"] \in GrantRecord
  BY DEF GrantRecord
<1>4. QED
  BY <1>1, <1>2, <1>3, NoRecordAssumption DEF SweptGrant, Known, Held, GrantRecord, Times

\* A code survives the sweep until it is due to be forgotten, with its record unchanged.
LEMMA SweepCodes ==
  ASSUME NEW s \in StoreType, NEW t \in Nat, NEW c \in Codes
  PROVE  /\ Known(Sweep(s, t).codes, c) <=> Known(s.codes, c) /\ s.codes[c].forgetAt > t
         /\ Known(Sweep(s, t).codes, c) => Sweep(s, t).codes[c] = s.codes[c]
<1>1. Sweep(s, t).codes[c] = SweptCode(s, c, t)
  BY SweepFields
<1>2. s.codes[c] \in CodeRecord \cup {NoRecord}
  BY DEF StoreType
<1>3. QED
  BY <1>1, <1>2 DEF SweptCode, Known, CodeRecord, Times

-----------------------------------------------------------------------------
(* Each store function preserves the invariant.                            *)

(* A code forgotten by sweep takes none of its grant's other codes' proof  *)
(* with it: the redeemed code is the last of them to go.                   *)
LEMMA SweepInv ==
  ASSUME NEW s, NEW t \in Nat, StoreInv(s, t)
  PROVE  StoreInv(Sweep(s, t), t)
<1> DEFINE sw == Sweep(s, t)
<1>0. s \in StoreType /\ sw \in StoreType
  BY SweepType DEF StoreInv
<1> HIDE DEF sw
<1>g. \A g \in Grants :
        /\ Known(sw.grants, g) <=> Known(s.grants, g) /\ s.grants[g].forgetAt > t
        /\ Held(sw, g) <=> Held(s, g) /\ s.grants[g].expiresAt > t /\ s.grants[g].forgetAt > t
        /\ Known(sw.grants, g) => /\ sw.grants[g].expiresAt = s.grants[g].expiresAt
                                  /\ sw.grants[g].forgetAt = s.grants[g].forgetAt
  BY <1>0, SweepGrants DEF sw
<1>c. \A c \in Codes :
        /\ Known(sw.codes, c) <=> Known(s.codes, c) /\ s.codes[c].forgetAt > t
        /\ Known(sw.codes, c) => sw.codes[c] = s.codes[c]
  BY <1>0, SweepCodes DEF sw
<1>r. /\ \A g \in Grants : Known(s.grants, g) =>
           /\ s.grants[g].expiresAt \in Nat
           /\ s.grants[g].forgetAt \in Nat
      /\ \A c \in Codes : Known(s.codes, c) =>
           /\ s.codes[c].expiresAt \in Nat
           /\ s.codes[c].forgetAt \in Nat
           /\ s.codes[c].grantId \in Grants
  BY <1>0 DEF StoreType, Known, GrantRecord, CodeRecord, Times
<1>f. /\ sw.statusIndex = {c \in s.statusIndex : ~ (Known(s.codes, c) /\ s.codes[c].forgetAt <= t)}
      /\ sw.issued = s.issued /\ sw.minted = s.minted /\ sw.handed = s.handed
      /\ sw.disposed = s.disposed \cup {g \in Grants : Held(s, g) /\ s.grants[g].expiresAt <= t}
  BY <1>0, SweepFields DEF sw
<1>1. RecordsInv(sw, t)
  <2>1. \A g \in Grants : Known(sw.grants, g) =>
          g \in sw.minted /\ sw.grants[g].forgetAt = sw.grants[g].expiresAt + TombstoneTTL
    BY <1>g, <1>f DEF StoreInv, RecordsInv
  <2>2. ASSUME NEW c \in Codes, Known(sw.codes, c)
        PROVE  /\ c <= sw.issued
               /\ Known(sw.grants, sw.codes[c].grantId)
               /\ sw.codes[c].forgetAt = sw.codes[c].expiresAt + TombstoneTTL
               /\ sw.codes[c].expiresAt <= sw.grants[sw.codes[c].grantId].expiresAt
               /\ sw.codes[c].expiresAt <= t + CodeTTL
    BY <2>2, <1>g, <1>c, <1>f, <1>r, TTLAssumption DEF StoreInv, RecordsInv
  <2>3. sw.statusIndex = {c \in Codes : Known(sw.codes, c)}
    BY <1>c, <1>f, <1>r DEF StoreInv, RecordsInv
  <2>4. QED
    BY <2>1, <2>2, <2>3 DEF RecordsInv
<1>2. FatesInv(sw)
  <2>1. \A g \in Grants : HandedOut(sw, g) <=> HandedOut(s, g)
    BY <1>f DEF HandedOut
  <2>2. \A g \in Grants : Held(s, g) => Known(s.grants, g)
    BY DEF Held
  <2>3. \A g \in Grants : Held(s, g) /\ s.grants[g].expiresAt > t => s.grants[g].forgetAt > t
    BY <2>2, <1>r, TTLAssumption DEF StoreInv, RecordsInv
  <2>4. QED
    BY <1>f, <1>g, <1>r, <2>1, <2>2, <2>3 DEF StoreInv, FatesInv
<1>3. OrderInv(sw)
  BY <1>c DEF StoreInv, OrderInv
<1>4. HandedInv(sw)
  <2>1. ASSUME NEW g \in Grants, NEW c \in Codes, <<g, c>> \in sw.handed
        PROVE  /\ c <= sw.issued
               /\ Known(sw.codes, c) => sw.codes[c].grantId = g /\ sw.codes[c].state = "redeemed"
               /\ \A d \in Codes : Known(sw.codes, d) /\ sw.codes[d].grantId = g =>
                    d <= c /\ Known(sw.codes, c)
    <3>1. <<g, c>> \in s.handed /\ c <= s.issued
      BY <2>1, <1>f DEF StoreInv, HandedInv
    <3>2. Known(s.codes, c) => s.codes[c].grantId = g /\ s.codes[c].state = "redeemed"
      BY <3>1 DEF StoreInv, HandedInv
    <3>3. ASSUME NEW d \in Codes, Known(sw.codes, d), sw.codes[d].grantId = g
          PROVE  d <= c /\ Known(sw.codes, c)
      <4>1. Known(s.codes, d) /\ s.codes[d].grantId = g /\ s.codes[d].forgetAt > t
        BY <3>3, <1>c
      <4>2. d <= c /\ Known(s.codes, c) /\ s.codes[c].grantId = g
        BY <4>1, <3>1, <3>2 DEF StoreInv, HandedInv
      <4>3. s.codes[d].expiresAt <= s.codes[c].expiresAt
        BY <4>1, <4>2, <1>r DEF StoreInv, OrderInv, Codes
      <4>4. s.codes[c].forgetAt > t
        BY <4>1, <4>2, <4>3, <1>r, TTLAssumption DEF StoreInv, RecordsInv
      <4>5. QED
        BY <4>2, <4>4, <1>c
    <3>4. QED
      BY <1>c, <1>f, <3>1, <3>2, <3>3
  <2>2. \A c \in Codes : Known(sw.codes, c) /\ sw.codes[c].state = "redeemed" =>
          <<sw.codes[c].grantId, c>> \in sw.handed
    BY <1>c, <1>f DEF StoreInv, HandedInv
  <2>3. QED
    BY <2>1, <2>2 DEF HandedInv
<1>5. QED
  BY <1>0, <1>1, <1>2, <1>3, <1>4 DEF StoreInv, sw

(* A new grant has no codes, and neither fate has befallen it.              *)
LEMMA StashInv ==
  ASSUME NEW s, NEW t \in Nat, StoreInv(s, t), NEW g \in Grants \ s.minted, NEW o \in Owners
  PROVE  StoreInv(Stash(s, g, o, t), t)
<1> DEFINE sw == Sweep(s, t)
           n == Stash(s, g, o, t)
           rec == [grant |-> "held", owner |-> o, expiresAt |-> t + GrantTTL,
                   forgetAt |-> t + GrantTTL + TombstoneTTL]
<1>0. sw \in StoreType /\ RecordsInv(sw, t) /\ FatesInv(sw) /\ OrderInv(sw) /\ HandedInv(sw)
  BY SweepInv DEF StoreInv
<1>m. g \notin sw.minted
  BY SweepFields DEF StoreInv
<1>1. n = [sw EXCEPT !.grants[g] = rec, !.minted = @ \cup {g}]
  BY DEF Stash
<1> HIDE DEF sw, n
<1>2. /\ n.codes = sw.codes /\ n.statusIndex = sw.statusIndex /\ n.issued = sw.issued
      /\ n.minted = sw.minted \cup {g} /\ n.handed = sw.handed /\ n.disposed = sw.disposed
  BY <1>0, <1>1 DEF StoreType
<1>3. /\ rec \in GrantRecord /\ rec.grant = "held"
      /\ rec.forgetAt = rec.expiresAt + TombstoneTTL
  BY TTLAssumption DEF GrantRecord, Times
<1> HIDE DEF rec
<1>4. n \in StoreType
  BY <1>0, <1>1, <1>3 DEF StoreType
<1>5. n.grants[g] = rec /\ \A h \in Grants : h # g => n.grants[h] = sw.grants[h]
  BY <1>0, <1>1 DEF StoreType
<1>k. ~ Known(sw.grants, g) /\ ~ Held(sw, g)
  BY <1>0, <1>m DEF RecordsInv, Held
<1>6. Known(n.grants, g) /\ Held(n, g)
  BY <1>3, <1>5, NoRecordAssumption DEF Known, Held
<1>7. \A h \in Grants : h # g =>
        /\ Known(n.grants, h) <=> Known(sw.grants, h)
        /\ Held(n, h) <=> Held(sw, h)
  BY <1>5 DEF Known, Held
<1>8. \A c \in Codes : Known(sw.codes, c) => sw.codes[c].grantId \in Grants \ {g}
  BY <1>0, <1>k DEF RecordsInv, StoreType, CodeRecord, Known
<1>9. RecordsInv(n, t)
  <2>1. ASSUME NEW h \in Grants, Known(n.grants, h)
        PROVE  h \in n.minted /\ n.grants[h].forgetAt = n.grants[h].expiresAt + TombstoneTTL
    <3>1. CASE h = g
      BY <3>1, <1>2, <1>3, <1>5
    <3>2. CASE h # g
      <4>1. n.grants[h] = sw.grants[h] /\ Known(sw.grants, h)
        BY <3>2, <2>1, <1>5 DEF Known
      <4>2. QED
        BY <4>1, <1>0, <1>2 DEF RecordsInv
    <3>3. QED
      BY <3>1, <3>2
  <2>2. QED
    BY <2>1, <1>0, <1>2, <1>5, <1>7, <1>8 DEF RecordsInv, Known
<1>10. FatesInv(n)
  <2>1. \A h \in Grants : HandedOut(n, h) <=> HandedOut(sw, h)
    BY <1>2 DEF HandedOut
  <2>2. ~ HandedOut(sw, g) /\ g \notin sw.disposed
    BY <1>0, <1>m DEF FatesInv
  <2>3. QED
    BY <1>0, <1>2, <1>5, <1>6, <1>7, <2>1, <2>2 DEF FatesInv, Known, Held
<1>11. OrderInv(n) /\ HandedInv(n)
  BY <1>0, <1>2 DEF OrderInv, HandedInv
<1>12. QED
  BY <1>4, <1>9, <1>10, <1>11 DEF StoreInv, n

(* Discarding moves a grant from "held" to "disposed" and touches no code. *)
LEMMA DiscardInv ==
  ASSUME NEW s, NEW t \in Nat, StoreInv(s, t), NEW g \in Grants
  PROVE  StoreInv(Discard(s, g, t), t)
<1> DEFINE sw == Sweep(s, t)
           n == Wipe(sw, g)
<1>0. sw \in StoreType /\ RecordsInv(sw, t) /\ FatesInv(sw) /\ OrderInv(sw) /\ HandedInv(sw)
  BY SweepInv DEF StoreInv
<1>1. CASE ~ Known(sw.grants, g)
  BY <1>0, <1>1 DEF Discard, StoreInv
<1>2. CASE Known(sw.grants, g)
  <2>0. Discard(s, g, t) = n
    BY <1>2 DEF Discard
  <2> HIDE DEF sw
  <2> DEFINE rec == [sw.grants[g] EXCEPT !.grant = "wiped"]
  <2>1. sw.grants[g] \in GrantRecord
    BY <1>0, <1>2 DEF StoreType, Known
  <2>2. /\ rec \in GrantRecord /\ rec.grant = "wiped" /\ rec.expiresAt = sw.grants[g].expiresAt
        /\ rec.forgetAt = sw.grants[g].forgetAt
    BY <2>1 DEF GrantRecord
  <2>g. n.grants = [sw.grants EXCEPT ![g] = rec]
    BY <1>0 DEF StoreType, Wipe
  <2>3. /\ n.codes = sw.codes /\ n.statusIndex = sw.statusIndex /\ n.issued = sw.issued
        /\ n.minted = sw.minted /\ n.handed = sw.handed
        /\ n.disposed = IF Held(sw, g) THEN sw.disposed \cup {g} ELSE sw.disposed
    BY <1>0 DEF StoreType, Wipe
  <2> HIDE DEF n, rec
  <2>4. n.grants \in [Grants -> GrantRecord \cup {NoRecord}]
    BY <2>2, <2>g, <1>0 DEF StoreType
  <2>5. n \in StoreType
    <3>1. n = [sw EXCEPT !.grants = n.grants, !.disposed = n.disposed]
      BY <1>0, <2>g, <2>3 DEF StoreType, Wipe, n
    <3>2. n.disposed \subseteq Grants
      BY <1>0, <2>3 DEF StoreType
    <3>3. QED
      BY <1>0, <2>4, <3>1, <3>2 DEF StoreType
  <2>6. \A h \in Grants : h # g => n.grants[h] = sw.grants[h]
    BY <2>g, <1>0 DEF StoreType
  <2>7. n.grants[g] = rec
    BY <2>g, <1>0 DEF StoreType
  <2>8. \A h \in Grants :
          /\ Known(n.grants, h) <=> Known(sw.grants, h)
          /\ Known(sw.grants, h) =>
               /\ n.grants[h].expiresAt = sw.grants[h].expiresAt
               /\ n.grants[h].forgetAt = sw.grants[h].forgetAt
          /\ Held(n, h) <=> h # g /\ Held(sw, h)
    BY <1>2, <2>2, <2>6, <2>7, NoRecordAssumption DEF Known, Held
  <2>9. \A c \in Codes : Known(sw.codes, c) => sw.codes[c].grantId \in Grants
    BY <1>0 DEF StoreType, CodeRecord, Known
  <2>10. RecordsInv(n, t)
    <3>1. ASSUME NEW h \in Grants, Known(n.grants, h)
          PROVE  h \in n.minted /\ n.grants[h].forgetAt = n.grants[h].expiresAt + TombstoneTTL
      BY <3>1, <1>0, <2>3, <2>8 DEF RecordsInv
    <3>2. ASSUME NEW c \in Codes, Known(n.codes, c)
          PROVE  /\ c <= n.issued
                 /\ Known(n.grants, n.codes[c].grantId)
                 /\ n.codes[c].forgetAt = n.codes[c].expiresAt + TombstoneTTL
                 /\ n.codes[c].expiresAt <= n.grants[n.codes[c].grantId].expiresAt
                 /\ n.codes[c].expiresAt <= t + CodeTTL
      BY <3>2, <1>0, <2>3, <2>8, <2>9 DEF RecordsInv
    <3>3. n.statusIndex = {c \in Codes : Known(n.codes, c)}
      BY <1>0, <2>3 DEF RecordsInv
    <3>4. QED
      BY <3>1, <3>2, <3>3 DEF RecordsInv
  <2>11. FatesInv(n)
    <3>1. \A h \in Grants : HandedOut(n, h) <=> HandedOut(sw, h)
      BY <2>3 DEF HandedOut
    <3>2. \A h \in Grants : h \in n.disposed <=> h \in sw.disposed \/ (h = g /\ Held(sw, g))
      BY <2>3
    <3>3. ASSUME NEW h \in Grants
          PROVE  /\ h \in n.minted <=> Held(n, h) \/ HandedOut(n, h) \/ h \in n.disposed
                 /\ Held(n, h) => ~ HandedOut(n, h) /\ h \notin n.disposed
                 /\ HandedOut(n, h) => h \notin n.disposed
      <4>1. n.minted = sw.minted
        BY <2>3
      <4>2. QED
        BY <1>0, <2>8, <3>1, <3>2, <4>1 DEF FatesInv
    <3>4. QED
      BY <1>0, <2>3, <3>3 DEF FatesInv
  <2>12. OrderInv(n) /\ HandedInv(n)
    BY <1>0, <2>3 DEF OrderInv, HandedInv
  <2>13. QED
    BY <2>0, <2>5, <2>10, <2>11, <2>12 DEF StoreInv, n
<1>3. QED
  BY <1>1, <1>2

(* A new code supersedes the codes of its grant, none of which got the     *)
(* grant (it is still held), and expires no earlier than they do.          *)
LEMMA CreateInv ==
  ASSUME NEW s, NEW t \in Nat, StoreInv(s, t), NEW g \in Grants, NEW o \in Owners,
         s.issued < MaxCodes
  PROVE  StoreInv(CreateCode(s, g, o, t), t)
<1> DEFINE sw == Sweep(s, t)
           n == CreateCode(s, g, o, t)
           new == NextCode(s)
           expiry == CodeExpiry(sw, g, t)
           rec == [grantId |-> g, expiresAt |-> expiry, state |-> "pending",
                   forgetAt |-> expiry + TombstoneTTL]
           F == Forgotten(sw, g)
           R == Replaced(sw, g)
<1>0. sw \in StoreType /\ RecordsInv(sw, t) /\ FatesInv(sw) /\ OrderInv(sw) /\ HandedInv(sw)
  BY SweepInv DEF StoreInv
<1>1. CASE ~ IsAvailable(s, g, o, t)
  BY <1>0, <1>1 DEF CreateCode, StoreInv
<1>2. CASE IsAvailable(s, g, o, t)
  <2>1. Held(sw, g) /\ Known(sw.grants, g)
    BY <1>2 DEF IsAvailable, Held
  <2>2. sw.issued = s.issued /\ s.issued \in Nat
    BY SweepFields, BoundAssumption DEF StoreInv, StoreType
  <2>3. new \in Codes /\ new = sw.issued + 1 /\ sw.issued \in Nat
    BY <2>2, BoundAssumption DEF NextCode, Codes
  <2>4. ~ Known(sw.codes, new) /\ \A h \in Grants : <<h, new>> \notin sw.handed
    BY <1>0, <2>3 DEF RecordsInv, HandedInv
  <2>5. n = [sw EXCEPT
               !.issued = new,
               !.codes = [c \in Codes |->
                  IF c = new THEN rec ELSE IF c \in F THEN NoRecord
                  ELSE IF c \in R THEN [sw.codes[c] EXCEPT !.state = "superseded"]
                  ELSE sw.codes[c]],
               !.statusIndex = (@ \ F) \cup {new}]
    BY <1>2, Zenon DEF CreateCode
  <2>r. sw.grants[g] \in GrantRecord
    BY <1>0, <2>1 DEF StoreType, Known
  <2>6. /\ expiry \in Nat
        /\ expiry <= sw.grants[g].expiresAt /\ expiry <= t + CodeTTL
        /\ expiry = t + CodeTTL \/ expiry = sw.grants[g].expiresAt
    BY <2>r, TTLAssumption DEF CodeExpiry, Earlier, GrantRecord, Times
  <2> HIDE DEF expiry
  <2>7. /\ rec \in CodeRecord /\ rec.grantId = g /\ rec.state = "pending" /\ rec.expiresAt = expiry
        /\ rec.forgetAt = expiry + TombstoneTTL
    BY <2>6, TTLAssumption DEF CodeRecord, Times
  <2>8. /\ F \subseteq R
        /\ \A c \in Codes : c \in R <=>
             Known(sw.codes, c) /\ sw.codes[c].grantId = g /\ sw.codes[c].state # "redeemed"
    BY DEF Forgotten, Replaced, CodesOf
  <2> HIDE DEF sw, n, new, rec, F, R
  <2>9. /\ n.grants = sw.grants /\ n.minted = sw.minted /\ n.handed = sw.handed
        /\ n.disposed = sw.disposed /\ n.issued = new
        /\ n.statusIndex = (sw.statusIndex \ F) \cup {new}
    BY <1>0, <2>5 DEF StoreType
  <2>10. \A c \in Codes : n.codes[c] =
           IF c = new THEN rec ELSE IF c \in F THEN NoRecord
           ELSE IF c \in R THEN [sw.codes[c] EXCEPT !.state = "superseded"]
           ELSE sw.codes[c]
    BY <1>0, <2>5 DEF StoreType
  <2>11. \A c \in Codes : Known(sw.codes, c) =>
           /\ sw.codes[c] \in CodeRecord
           /\ [sw.codes[c] EXCEPT !.state = "superseded"] \in CodeRecord
           /\ [sw.codes[c] EXCEPT !.state = "superseded"].state = "superseded"
           /\ [sw.codes[c] EXCEPT !.state = "superseded"].grantId = sw.codes[c].grantId
           /\ [sw.codes[c] EXCEPT !.state = "superseded"].expiresAt = sw.codes[c].expiresAt
           /\ [sw.codes[c] EXCEPT !.state = "superseded"].forgetAt = sw.codes[c].forgetAt
    BY <1>0 DEF StoreType, Known, CodeRecord
  <2>12. n \in StoreType
    <3>1. \A c \in Codes : n.codes[c] \in CodeRecord \cup {NoRecord}
      BY <1>0, <2>7, <2>8, <2>10, <2>11 DEF StoreType
    <3>2. n.issued \in 0 .. MaxCodes /\ n.statusIndex \subseteq Codes
      BY <1>0, <2>3, <2>9 DEF StoreType, Codes
    <3>3. n = [sw EXCEPT !.issued = n.issued, !.codes = [c \in Codes |-> n.codes[c]],
                         !.statusIndex = n.statusIndex]
      BY <1>0, <2>5, <2>9 DEF StoreType
    <3>4. QED
      BY <1>0, <3>1, <3>2, <3>3 DEF StoreType
  <2>13. Known(n.codes, new) /\ n.codes[new] = rec
    BY <2>3, <2>7, <2>10, NoRecordAssumption DEF Known
  <2>14. \A c \in Codes : c # new =>
           /\ Known(n.codes, c) <=> Known(sw.codes, c) /\ c \notin F
           /\ Known(n.codes, c) =>
                /\ n.codes[c].grantId = sw.codes[c].grantId
                /\ n.codes[c].expiresAt = sw.codes[c].expiresAt
                /\ n.codes[c].forgetAt = sw.codes[c].forgetAt
                /\ sw.codes[c].grantId # g => n.codes[c] = sw.codes[c]
    <3> SUFFICES ASSUME NEW c \in Codes, c # new
                 PROVE  /\ Known(n.codes, c) <=> Known(sw.codes, c) /\ c \notin F
                        /\ Known(n.codes, c) =>
                             /\ n.codes[c].grantId = sw.codes[c].grantId
                             /\ n.codes[c].expiresAt = sw.codes[c].expiresAt
                             /\ n.codes[c].forgetAt = sw.codes[c].forgetAt
                             /\ sw.codes[c].grantId # g => n.codes[c] = sw.codes[c]
      OBVIOUS
    <3>1. CASE c \in R /\ c \notin F
      BY <3>1, <2>8, <2>10, <2>11, NoRecordAssumption DEF Known
    <3>2. CASE c \in F
      BY <3>2, <2>10 DEF Known
    <3>3. CASE c \notin R /\ c \notin F
      BY <3>3, <2>10 DEF Known
    <3>4. QED
      BY <3>1, <3>2, <3>3
  <2>15. \A c \in Codes : Known(sw.codes, c) /\ sw.codes[c].grantId = g => c \in R
    <3>1. ~ HandedOut(sw, g)
      BY <1>0, <2>1 DEF FatesInv
    <3>2. QED
      BY <1>0, <2>8, <3>1 DEF HandedInv, HandedOut
  <2>16. \A c \in Codes : c # new /\ Known(n.codes, c) /\ n.codes[c].grantId = g =>
           n.codes[c].state = "superseded"
    BY <2>10, <2>11, <2>14, <2>15
  <2>17. RecordsInv(n, t)
    <3>1. ASSUME NEW c \in Codes, Known(n.codes, c)
          PROVE  /\ c <= n.issued
                 /\ Known(n.grants, n.codes[c].grantId)
                 /\ n.codes[c].forgetAt = n.codes[c].expiresAt + TombstoneTTL
                 /\ n.codes[c].expiresAt <= n.grants[n.codes[c].grantId].expiresAt
                 /\ n.codes[c].expiresAt <= t + CodeTTL
      <4>1. CASE c = new
        BY <4>1, <2>1, <2>3, <2>6, <2>7, <2>9, <2>13
      <4>2. CASE c # new
        <5>1. Known(sw.codes, c)
          BY <3>1, <4>2, <2>14
        <5>2. c <= sw.issued
          BY <5>1, <1>0 DEF RecordsInv
        <5>3. c <= n.issued
          BY <5>2, <2>3, <2>9 DEF Codes
        <5>4. QED
          BY <3>1, <4>2, <5>1, <5>3, <1>0, <2>9, <2>14 DEF RecordsInv
      <4>3. QED
        BY <4>1, <4>2
    <3>2. n.statusIndex = {c \in Codes : Known(n.codes, c)}
      BY <1>0, <2>3, <2>9, <2>13, <2>14 DEF RecordsInv
    <3>3. QED
      BY <1>0, <2>9, <3>1, <3>2 DEF RecordsInv
  <2>18. FatesInv(n)
    BY <1>0, <2>9 DEF FatesInv, Held, HandedOut
  <2>19. OrderInv(n)
    <3> SUFFICES ASSUME NEW c \in Codes, NEW d \in Codes, Known(n.codes, c), Known(n.codes, d),
                        c < d, n.codes[c].grantId = n.codes[d].grantId
                 PROVE  /\ n.codes[c].state = "superseded"
                        /\ n.codes[c].expiresAt <= n.codes[d].expiresAt
      BY DEF OrderInv
    <3>1. c # new
      <4>1. d <= new
        BY <2>9, <2>17 DEF RecordsInv
      <4>2. QED
        BY <4>1, <2>3 DEF Codes
    <3>2. Known(sw.codes, c) /\ sw.codes[c] \in CodeRecord
      BY <3>1, <2>11, <2>14
    <3>3. CASE d = new
      <4>1. sw.codes[c].grantId = g
        BY <3>1, <3>3, <2>7, <2>13, <2>14
      <4>2. /\ sw.codes[c].expiresAt <= sw.grants[g].expiresAt
            /\ sw.codes[c].expiresAt <= t + CodeTTL
        BY <3>2, <4>1, <1>0 DEF RecordsInv
      <4>3. n.codes[d].expiresAt = expiry /\ n.codes[c].expiresAt = sw.codes[c].expiresAt
        BY <3>1, <3>3, <2>7, <2>13, <2>14
      <4>4. QED
        BY <3>1, <4>1, <4>2, <4>3, <2>6, <2>14, <2>16
    <3>4. CASE d # new
      <4>1. /\ Known(sw.codes, d) /\ sw.codes[c].grantId = sw.codes[d].grantId
            /\ n.codes[c].expiresAt = sw.codes[c].expiresAt
            /\ n.codes[d].expiresAt = sw.codes[d].expiresAt
        BY <3>1, <3>4, <2>14
      <4>2. sw.codes[c].state = "superseded" /\ sw.codes[c].expiresAt <= sw.codes[d].expiresAt
        BY <3>2, <4>1, <1>0 DEF OrderInv
      <4>3. n.codes[c].state = "superseded"
        BY <3>1, <4>2, <2>14, <2>16
      <4>4. QED
        BY <4>1, <4>2, <4>3
    <3>5. QED
      BY <3>3, <3>4
  <2>20. HandedInv(n)
    <3>1. ASSUME NEW h \in Grants, NEW c \in Codes, <<h, c>> \in n.handed
          PROVE  /\ c <= n.issued
                 /\ Known(n.codes, c) => n.codes[c].grantId = h /\ n.codes[c].state = "redeemed"
                 /\ \A d \in Codes : Known(n.codes, d) /\ n.codes[d].grantId = h =>
                      d <= c /\ Known(n.codes, c)
      <4>1. <<h, c>> \in sw.handed /\ c # new /\ c <= sw.issued
        BY <3>1, <1>0, <2>4, <2>9 DEF HandedInv
      <4>2. h # g
        BY <4>1, <1>0, <2>1 DEF FatesInv, HandedOut
      <4>3. Known(sw.codes, c) => sw.codes[c].grantId = h /\ sw.codes[c].state = "redeemed"
        BY <4>1, <1>0 DEF HandedInv
      <4>4. ASSUME NEW d \in Codes, Known(n.codes, d), n.codes[d].grantId = h
            PROVE  d <= c /\ Known(n.codes, c)
        <5>1. d # new /\ Known(sw.codes, d) /\ sw.codes[d].grantId = h
          BY <4>2, <4>4, <2>7, <2>13, <2>14
        <5>2. d <= c /\ Known(sw.codes, c)
          BY <4>1, <5>1, <1>0 DEF HandedInv
        <5>3. c \notin F
          BY <4>2, <4>3, <5>2, <2>8
        <5>4. QED
          BY <4>1, <5>2, <5>3, <2>14
      <4>5. c <= n.issued
        BY <4>1, <2>3, <2>9 DEF Codes
      <4>6. QED
        BY <4>1, <4>2, <4>3, <4>4, <4>5, <2>14
    <3>2. ASSUME NEW c \in Codes, Known(n.codes, c), n.codes[c].state = "redeemed"
          PROVE  <<n.codes[c].grantId, c>> \in n.handed
      <4>1. c # new /\ n.codes[c].grantId # g
        BY <3>2, <2>7, <2>13, <2>16
      <4>2. Known(sw.codes, c) /\ n.codes[c] = sw.codes[c]
        BY <3>2, <4>1, <2>14
      <4>3. QED
        BY <3>2, <4>2, <1>0, <2>9 DEF HandedInv
    <3>3. QED
      BY <3>1, <3>2 DEF HandedInv
  <2>21. QED
    BY <2>12, <2>17, <2>18, <2>19, <2>20 DEF StoreInv, n
<1>3. QED
  BY <1>1, <1>2

(* Redemption takes the grant and marks its one pending code, the newest.  *)
LEMMA RedeemInv ==
  ASSUME NEW s, NEW t \in Nat, StoreInv(s, t), NEW c \in Codes
  PROVE  StoreInv(Redeem(s, c, t), t)
<1> DEFINE sw == Sweep(s, t)
           n == Redeem(s, c, t)
           g == sw.codes[c].grantId
           wiped == [sw.grants[g] EXCEPT !.grant = "wiped"]
<1>0. sw \in StoreType /\ RecordsInv(sw, t) /\ FatesInv(sw) /\ OrderInv(sw) /\ HandedInv(sw)
  BY SweepInv DEF StoreInv
<1>1. CASE RedeemAnswer(s, c, t) # "ok"
  BY <1>0, <1>1 DEF Redeem, StoreInv
<1>2. CASE RedeemAnswer(s, c, t) = "ok"
  <2>1. Known(sw.codes, c) /\ sw.codes[c].state # "redeemed" /\ sw.codes[c].state # "superseded"
    BY <1>2 DEF RedeemAnswer
  <2>2. Held(sw, g)
    BY <1>2 DEF RedeemAnswer
  <2>3. Known(sw.grants, g)
    BY <2>2 DEF Held
  <2>4. sw.codes[c] \in CodeRecord /\ g \in Grants /\ sw.codes[c].state = "pending"
    BY <1>0, <2>1 DEF StoreType, Known, CodeRecord
  <2>5. n = [sw EXCEPT
              !.grants[g].grant = "wiped",
              !.codes = [d \in Codes |->
                 IF d = c THEN [sw.codes[d] EXCEPT !.state = "redeemed"]
                 ELSE IF d \in CodesOf(sw, g) /\ sw.codes[d].state = "pending"
                      THEN [sw.codes[d] EXCEPT !.state = "superseded"]
                 ELSE sw.codes[d]],
              !.handed = @ \cup {<<g, c>>}]
    BY <1>2, Zenon DEF Redeem
  <2>6. ASSUME NEW d \in Codes, d \in CodesOf(sw, g), d # c
        PROVE  d < c /\ sw.codes[d].state = "superseded"
    <3>1. Known(sw.codes, d) /\ sw.codes[d].grantId = g
      BY <2>6 DEF CodesOf
    <3>2. ~ c < d
      BY <3>1, <1>0, <2>1, <2>4 DEF OrderInv
    <3>3. d < c
      BY <3>2, <2>6 DEF Codes
    <3>4. QED
      BY <3>1, <3>3, <1>0, <2>1 DEF OrderInv
  <2>7. ~ HandedOut(sw, g) /\ g \notin sw.disposed /\ g \in sw.minted
    BY <1>0, <2>2, <2>4 DEF FatesInv
  <2>8. sw.grants[g] \in GrantRecord
    BY <1>0, <2>3, <2>4 DEF StoreType, Known
  <2>9. /\ wiped \in GrantRecord /\ wiped.grant = "wiped"
        /\ wiped.expiresAt = sw.grants[g].expiresAt /\ wiped.forgetAt = sw.grants[g].forgetAt
    BY <2>8 DEF GrantRecord
  <2> DEFINE red == [sw.codes[c] EXCEPT !.state = "redeemed"]
  <2>10. /\ red \in CodeRecord /\ red.state = "redeemed" /\ red.grantId = g
         /\ red.expiresAt = sw.codes[c].expiresAt /\ red.forgetAt = sw.codes[c].forgetAt
    BY <2>4 DEF CodeRecord
  <2>f. /\ n.grants = [sw.grants EXCEPT ![g] = wiped]
        /\ n.codes = [d \in Codes |->
                 IF d = c THEN red
                 ELSE IF d \in CodesOf(sw, g) /\ sw.codes[d].state = "pending"
                      THEN [sw.codes[d] EXCEPT !.state = "superseded"]
                 ELSE sw.codes[d]]
        /\ n.handed = sw.handed \cup {<<g, c>>}
        /\ n.minted = sw.minted /\ n.disposed = sw.disposed /\ n.issued = sw.issued
        /\ n.statusIndex = sw.statusIndex
    <3> HIDE DEF sw, n, g
    <3>1. QED
      BY <1>0, <2>5 DEF StoreType
  <2> HIDE DEF sw, n, g, red, wiped
  <2>11. n.codes[c] = red /\ \A d \in Codes : d # c => n.codes[d] = sw.codes[d]
    BY <2>f, <2>6
  <2>12. n.grants[g] = wiped /\ \A h \in Grants : h # g => n.grants[h] = sw.grants[h]
    BY <1>0, <2>4, <2>f DEF StoreType
  <2>13. \A d \in Codes :
           /\ Known(n.codes, d) <=> Known(sw.codes, d)
           /\ Known(sw.codes, d) =>
                /\ n.codes[d].grantId = sw.codes[d].grantId
                /\ n.codes[d].expiresAt = sw.codes[d].expiresAt
                /\ n.codes[d].forgetAt = sw.codes[d].forgetAt
    BY <2>1, <2>10, <2>11, NoRecordAssumption DEF Known, g
  <2>14. \A h \in Grants :
           /\ Known(n.grants, h) <=> Known(sw.grants, h)
           /\ Known(sw.grants, h) =>
                /\ n.grants[h].expiresAt = sw.grants[h].expiresAt
                /\ n.grants[h].forgetAt = sw.grants[h].forgetAt
           /\ Held(n, h) <=> h # g /\ Held(sw, h)
    BY <2>3, <2>9, <2>12, NoRecordAssumption DEF Known, Held
  <2>15. n \in StoreType
    <3>1. \A d \in Codes : n.codes[d] \in CodeRecord \cup {NoRecord}
      BY <1>0, <2>10, <2>11 DEF StoreType
    <3>2. \A h \in Grants : n.grants[h] \in GrantRecord \cup {NoRecord}
      BY <1>0, <2>9, <2>12 DEF StoreType
    <3>3. n.handed \subseteq Grants \X Codes
      BY <1>0, <2>4, <2>f DEF StoreType
    <3>4. n = [sw EXCEPT !.grants = [h \in Grants |-> n.grants[h]],
                         !.codes = [d \in Codes |-> n.codes[d]], !.handed = n.handed]
      BY <1>0, <2>5, <2>f DEF StoreType
    <3>5. QED
      BY <1>0, <3>1, <3>2, <3>3, <3>4 DEF StoreType
  <2>16. RecordsInv(n, t)
    <3>1. ASSUME NEW h \in Grants, Known(n.grants, h)
          PROVE  h \in n.minted /\ n.grants[h].forgetAt = n.grants[h].expiresAt + TombstoneTTL
      BY <3>1, <1>0, <2>14, <2>f DEF RecordsInv
    <3>2. ASSUME NEW d \in Codes, Known(n.codes, d)
          PROVE  /\ d <= n.issued
                 /\ Known(n.grants, n.codes[d].grantId)
                 /\ n.codes[d].forgetAt = n.codes[d].expiresAt + TombstoneTTL
                 /\ n.codes[d].expiresAt <= n.grants[n.codes[d].grantId].expiresAt
                 /\ n.codes[d].expiresAt <= t + CodeTTL
      <4>1. Known(sw.codes, d) /\ sw.codes[d].grantId \in Grants
        BY <3>2, <1>0, <2>13 DEF StoreType, Known, CodeRecord
      <4>2. QED
        BY <4>1, <1>0, <2>13, <2>14, <2>f DEF RecordsInv
    <3>3. n.statusIndex = {d \in Codes : Known(n.codes, d)}
      BY <1>0, <2>13, <2>f DEF RecordsInv
    <3>4. QED
      BY <3>1, <3>2, <3>3 DEF RecordsInv
  <2>17. FatesInv(n)
    <3>1. \A h \in Grants : HandedOut(n, h) <=> HandedOut(sw, h) \/ h = g
      BY <2>f DEF HandedOut
    <3>2. \A h \in Grants, d, e \in Codes :
            <<h, d>> \in n.handed /\ <<h, e>> \in n.handed => d = e
      <4>1. \A d \in Codes : <<g, d>> \notin sw.handed
        BY <2>7 DEF HandedOut
      <4>2. QED
        BY <4>1, <1>0, <2>f DEF FatesInv
    <3>3. n.minted = sw.minted /\ n.disposed = sw.disposed
      BY <2>f
    <3>4. QED
      BY <1>0, <2>7, <2>14, <3>1, <3>2, <3>3 DEF FatesInv
  <2>18. OrderInv(n)
    <3> SUFFICES ASSUME NEW d \in Codes, NEW e \in Codes, Known(n.codes, d), Known(n.codes, e),
                        d < e, n.codes[d].grantId = n.codes[e].grantId
                 PROVE  /\ n.codes[d].state = "superseded"
                        /\ n.codes[d].expiresAt <= n.codes[e].expiresAt
      BY DEF OrderInv
    <3>1. /\ Known(sw.codes, d) /\ Known(sw.codes, e) /\ sw.codes[d].grantId = sw.codes[e].grantId
          /\ n.codes[d].expiresAt = sw.codes[d].expiresAt
          /\ n.codes[e].expiresAt = sw.codes[e].expiresAt
      BY <2>13
    <3>2. sw.codes[d].state = "superseded" /\ sw.codes[d].expiresAt <= sw.codes[e].expiresAt
      BY <3>1, <1>0 DEF OrderInv
    <3>3. d # c
      BY <3>2, <2>4
    <3>4. QED
      BY <3>1, <3>2, <3>3, <2>11
  <2>19. HandedInv(n)
    <3>1. ASSUME NEW h \in Grants, NEW d \in Codes, <<h, d>> \in n.handed
          PROVE  /\ d <= n.issued
                 /\ Known(n.codes, d) => n.codes[d].grantId = h /\ n.codes[d].state = "redeemed"
                 /\ \A e \in Codes : Known(n.codes, e) /\ n.codes[e].grantId = h =>
                      e <= d /\ Known(n.codes, d)
      <4>1. CASE h = g /\ d = c
        <5>1. ASSUME NEW e \in Codes, Known(n.codes, e), n.codes[e].grantId = h
              PROVE  e <= d
          <6>1. e \in CodesOf(sw, g)
            BY <4>1, <5>1, <2>13 DEF CodesOf
          <6>2. QED
            BY <4>1, <6>1, <2>6 DEF Codes
        <5>2. c <= n.issued
          BY <1>0, <2>1, <2>f DEF RecordsInv
        <5>3. QED
          BY <4>1, <5>1, <5>2, <2>1, <2>10, <2>11, <2>13
      <4>2. CASE <<h, d>> \in sw.handed
        <5>1. h # g
          BY <4>2, <2>7 DEF HandedOut
        <5>2. Known(sw.codes, d) => sw.codes[d].grantId = h
          BY <4>2, <1>0 DEF HandedInv
        <5>3. d # c
          BY <5>1, <5>2, <2>1 DEF g
        <5>4. ASSUME NEW e \in Codes, Known(n.codes, e), n.codes[e].grantId = h
              PROVE  e <= d /\ Known(n.codes, d)
          BY <4>2, <5>4, <1>0, <2>13 DEF HandedInv
        <5>5. QED
          BY <4>2, <5>3, <5>4, <1>0, <2>11, <2>13, <2>f DEF HandedInv
      <4>3. QED
        BY <3>1, <4>1, <4>2, <2>f
    <3>2. ASSUME NEW d \in Codes, Known(n.codes, d), n.codes[d].state = "redeemed"
          PROVE  <<n.codes[d].grantId, d>> \in n.handed
      <4>1. CASE d = c
        BY <4>1, <2>10, <2>11, <2>f
      <4>2. CASE d # c
        BY <3>2, <4>2, <1>0, <2>11, <2>13, <2>f DEF HandedInv
      <4>3. QED
        BY <4>1, <4>2
    <3>3. QED
      BY <3>1, <3>2 DEF HandedInv
  <2>20. QED
    BY <2>15, <2>16, <2>17, <2>18, <2>19 DEF StoreInv, n
<1>3. QED
  BY <1>1, <1>2

-----------------------------------------------------------------------------
(* The invariant of every behaviour.                                       *)

\* The empty store satisfies the invariant.
LEMMA InitInv == Init => Inv
<1> SUFFICES ASSUME Init PROVE Inv
  OBVIOUS
<1>1. store = EmptyStore /\ now = 0
  BY DEF Init
<1>2. EmptyStore \in StoreType
  BY BoundAssumption DEF EmptyStore, StoreType
<1>3. RecordsInv(EmptyStore, 0) /\ FatesInv(EmptyStore)
  BY DEF EmptyStore, RecordsInv, FatesInv, Known, Held, HandedOut
<1>4. OrderInv(EmptyStore) /\ HandedInv(EmptyStore)
  BY DEF EmptyStore, OrderInv, HandedInv, Known
<1>5. QED
  BY <1>1, <1>2, <1>3, <1>4 DEF Inv, StoreInv

\* Every operation, and the passing of time, keeps the invariant.
LEMMA NextInv == Inv /\ [Next]_vars => Inv'
<1> SUFFICES ASSUME Inv, [Next]_vars PROVE Inv'
  OBVIOUS
<1>0. now \in Nat /\ StoreInv(store, now)
  BY DEF Inv
<1>1. ASSUME NEW g \in Grants, NEW o \in Owners, StashGrant(g, o) PROVE Inv'
  <2>1. g \in Grants \ store.minted /\ store' = Stash(store, g, o, now) /\ now' = now
    BY <1>1 DEF StashGrant
  <2>2. StoreInv(Stash(store, g, o, now), now)
    BY <1>0, <2>1, StashInv
  <2>3. QED
    BY <1>0, <2>1, <2>2 DEF Inv
<1>2. ASSUME NEW g \in Grants, NEW o \in Owners, CreatePairingCode(g, o) PROVE Inv'
  <2>1. store.issued < MaxCodes /\ store' = CreateCode(store, g, o, now) /\ now' = now
    BY <1>2 DEF CreatePairingCode
  <2>2. StoreInv(CreateCode(store, g, o, now), now)
    BY <1>0, <2>1, CreateInv
  <2>3. QED
    BY <1>0, <2>1, <2>2 DEF Inv
<1>3. ASSUME NEW g \in Grants, DiscardGrant(g) PROVE Inv'
  <2>1. StoreInv(Discard(store, g, now), now)
    BY <1>0, DiscardInv
  <2>2. QED
    BY <1>0, <1>3, <2>1 DEF Inv, DiscardGrant
<1>4. ASSUME NEW c \in Codes, RedeemPairingCode(c) PROVE Inv'
  <2>1. StoreInv(Redeem(store, c, now), now)
    BY <1>0, RedeemInv
  <2>2. QED
    BY <1>0, <1>4, <2>1 DEF Inv, RedeemPairingCode
<1>5. CASE Query
  <2>1. StoreInv(Sweep(store, now), now)
    BY <1>0, SweepInv
  <2>2. QED
    BY <1>0, <1>5, <2>1 DEF Inv, Query
<1>6. CASE Tick
  <2>1. now' = now + 1 /\ store' = store
    BY <1>6 DEF Tick
  <2>2. RecordsInv(store, now + 1)
    <3>1. \A c \in Codes : Known(store.codes, c) => store.codes[c].expiresAt \in Nat
      BY <1>0 DEF StoreInv, StoreType, CodeRecord, Known, Times
    <3>2. \A c \in Codes : Known(store.codes, c) => store.codes[c].expiresAt <= now + 1 + CodeTTL
      BY <1>0, <3>1, TTLAssumption DEF StoreInv, RecordsInv
    <3>3. QED
      BY <1>0, <3>2 DEF StoreInv, RecordsInv
  <2>3. StoreInv(store, now + 1)
    BY <1>0, <2>2 DEF StoreInv
  <2>4. QED
    BY <1>0, <2>1, <2>3 DEF Inv
<1>7. CASE UNCHANGED vars
  BY <1>0, <1>7 DEF Inv, vars
<1>8. QED
  BY <1>1, <1>2, <1>3, <1>4, <1>5, <1>6, <1>7 DEF Next

(* Every reachable store satisfies the invariant.                          *)
THEOREM Invariance == Spec => []Inv
<1>1. Init => Inv
  BY InitInv
<1>2. Inv /\ [Next]_vars => Inv'
  BY NextInv
<1>3. QED
  BY <1>1, <1>2, PTL DEF Spec

(* The store's Maps are well formed and indexed.                           *)
THEOREM TypeCorrect == Spec => []TypeOK
<1>1. Inv => TypeOK
  BY DEF Inv, StoreInv, RecordsInv, TypeOK
<1>2. QED
  BY <1>1, Invariance, PTL

(* However many codes are issued and scanned, one phone gets the grant.    *)
THEOREM HandedOnce == Spec => []HandedOutAtMostOnce
<1>1. Inv => HandedOutAtMostOnce
  BY DEF Inv, StoreInv, FatesInv, HandedOutAtMostOnce
<1>2. QED
  BY <1>1, Invariance, PTL

(* No minted credential is lost, and none a phone uses is deleted.         *)
THEOREM AccountedFor == Spec => []EveryGrantAccountedFor
<1>1. Inv => EveryGrantAccountedFor
  BY DEF Inv, StoreInv, FatesInv, EveryGrantAccountedFor
<1>2. QED
  BY <1>1, Invariance, PTL

(* A code is never remembered without its grant's record, nor outlives it. *)
THEOREM GrantOutlivesCodes == Spec => []CodesHaveTheirGrant
<1>1. Inv => CodesHaveTheirGrant
  BY DEF Inv, StoreInv, RecordsInv, CodesHaveTheirGrant
<1>2. QED
  BY <1>1, Invariance, PTL

(* Only the QR on screen can be redeemed.                                  *)
THEOREM NewestOnly == Spec => []OnlyNewestCodeWorks
<1>1. Inv => OnlyNewestCodeWorks
  <2> SUFFICES ASSUME Inv, NEW g \in Grants, NEW c \in CodesOf(store, g),
                      NEW d \in CodesOf(store, g), c < d
               PROVE  <<g, c>> \notin store.handed /\ RedeemAnswer(store, c, now) # "ok"
    BY DEF OnlyNewestCodeWorks
  <2>1. /\ c \in Codes /\ Known(store.codes, c) /\ store.codes[c].grantId = g
        /\ d \in Codes /\ Known(store.codes, d) /\ store.codes[d].grantId = g
    BY DEF CodesOf
  <2>2. store.codes[c].state = "superseded"
    BY <2>1 DEF Inv, StoreInv, OrderInv
  <2>3. <<g, c>> \notin store.handed
    BY <2>1, <2>2 DEF Inv, StoreInv, HandedInv
  <2>4. store \in StoreType /\ now \in Nat
    BY DEF Inv, StoreInv
  <2>5. Known(Sweep(store, now).codes, c) =>
          Sweep(store, now).codes[c].state = "superseded"
    BY <2>1, <2>2, <2>4, SweepCodes
  <2>6. RedeemAnswer(store, c, now) # "ok"
    BY <2>5 DEF RedeemAnswer
  <2>7. QED
    BY <2>3, <2>6
<1>2. QED
  BY <1>1, Invariance, PTL

(* Within a store satisfying the invariant, "a remembered code of g was    *)
(* redeemed" is the same as "a phone has g", while any code of g remains.  *)
LEMMA RedeemedIsHanded ==
  ASSUME NEW s, NEW t \in Nat, StoreInv(s, t), NEW c \in Codes, Known(s.codes, c)
  PROVE  WasRedeemed(s, s.codes[c].grantId) <=> HandedOut(s, s.codes[c].grantId)
<1> DEFINE g == s.codes[c].grantId
<1>1. g \in Grants
  BY DEF StoreInv, StoreType, CodeRecord, Known
<1>2. ASSUME WasRedeemed(s, g) PROVE HandedOut(s, g)
  <2>1. PICK d \in CodesOf(s, g) : s.codes[d].state = "redeemed"
    BY <1>2 DEF WasRedeemed
  <2>2. d \in Codes /\ Known(s.codes, d) /\ s.codes[d].grantId = g
    BY DEF CodesOf
  <2>3. <<g, d>> \in s.handed
    BY <2>1, <2>2 DEF StoreInv, HandedInv
  <2>4. QED
    BY <2>2, <2>3 DEF HandedOut
<1>3. ASSUME HandedOut(s, g) PROVE WasRedeemed(s, g)
  <2>1. PICK d \in Codes : <<g, d>> \in s.handed
    BY <1>3 DEF HandedOut
  <2>2. Known(s.codes, d) /\ s.codes[d].grantId = g /\ s.codes[d].state = "redeemed"
    BY <1>1, <2>1 DEF StoreInv, HandedInv
  <2>3. QED
    BY <2>2 DEF WasRedeemed, CodesOf
<1>4. QED
  BY <1>2, <1>3

(* Any remembered code is answered "used" exactly when a phone has the grant. *)
THEOREM LateScan == Spec => []LateScanToldUsed
<1>1. Inv => LateScanToldUsed
  <2> DEFINE sw == Sweep(store, now)
  <2> SUFFICES ASSUME Inv, NEW c \in Codes,
                      RedeemAnswer(store, c, now) \in {"used", "expired"}
               PROVE  RedeemAnswer(store, c, now) = "used"
                        <=> HandedOut(store, store.codes[c].grantId)
    BY DEF LateScanToldUsed
  <2> DEFINE g == sw.codes[c].grantId
  <2>1. now \in Nat /\ store \in StoreType /\ StoreInv(sw, now)
    BY SweepInv DEF Inv, StoreInv
  <2>2. Known(sw.codes, c)
    BY DEF RedeemAnswer
  <2>3. sw.codes[c] = store.codes[c] /\ sw.handed = store.handed
    BY <2>1, <2>2, SweepCodes, SweepFields
  <2>4. g \in Grants /\ Known(sw.grants, g)
    BY <2>1, <2>2 DEF StoreInv, StoreType, CodeRecord, Known, RecordsInv
  <2>5. WasRedeemed(sw, g) <=> HandedOut(sw, g)
    BY <2>1, <2>2, RedeemedIsHanded
  <2>6. HandedOut(sw, g) => ~ Held(sw, g)
    BY <2>1, <2>4 DEF StoreInv, FatesInv
  <2>7. sw.codes[c].state = "redeemed" => HandedOut(sw, g)
    BY <2>1, <2>2 DEF StoreInv, HandedInv, HandedOut
  <2>8. RedeemAnswer(store, c, now) = "used" <=> HandedOut(sw, g)
    <3> HIDE DEF sw, g
    <3>1. RedeemAnswer(store, c, now) =
            IF ~ Known(sw.codes, c) THEN "invalid"
            ELSE IF sw.codes[c].state = "redeemed" THEN "used"
            ELSE IF sw.codes[c].state = "superseded" \/ sw.codes[c].expiresAt <= now
                 THEN IF Known(sw.grants, g) /\ ~ Held(sw, g) /\ WasRedeemed(sw, g)
                      THEN "used" ELSE "expired"
            ELSE IF ~ Held(sw, g) THEN IF WasRedeemed(sw, g) THEN "used" ELSE "expired"
            ELSE "ok"
      BY DEF RedeemAnswer, sw, g
    <3>2. QED
      BY <3>1, <2>2, <2>4, <2>5, <2>6, <2>7
  <2>9. HandedOut(sw, g) <=> HandedOut(store, store.codes[c].grantId)
    BY <2>3 DEF HandedOut
  <2>10. QED
    BY <2>8, <2>9
<1>2. QED
  BY <1>1, Invariance, PTL

-----------------------------------------------------------------------------
(* The refinement of GrantLifecycle.                                       *)

(* A store satisfying the invariant loses no grant.                        *)
LEMMA FatesOfStore ==
  ASSUME NEW s, FatesInv(s), NEW g \in Grants
  PROVE  /\ FateOf(s, g) = "unminted" <=> g \notin s.minted
         /\ FateOf(s, g) = "withdrawn" <=> g \in s.disposed
         /\ FateOf(s, g) = "phone" <=> HandedOut(s, g)
         /\ FateOf(s, g) = "held" <=> Held(s, g)
         /\ FateOf(s, g) \in {"unminted", "withdrawn", "phone", "held"}
BY DEF FatesInv, FateOf

(* A step that mints and hands out nothing, and takes back nothing from    *)
(* the disposer, only withdraws grants.                                    *)
LEMMA WithdrawStep ==
  ASSUME FatesInv(store), FatesInv(store'),
         store'.minted = store.minted,
         store'.handed = store.handed,
         store.disposed \subseteq store'.disposed
  PROVE  Lifecycle!Withdraw
<1> DEFINE lapsed == {g \in Grants : FateOf(store, g) = "held" /\ FateOf(store', g) = "withdrawn"}
<1>1. lapsed \in SUBSET Lifecycle!With("held")
  BY DEF Lifecycle!With
<1>2. ASSUME NEW g \in Grants
      PROVE  FateOf(store', g) = IF g \in lapsed THEN "withdrawn" ELSE FateOf(store, g)
  <2>1. HandedOut(store', g) <=> HandedOut(store, g)
    BY DEF HandedOut
  <2>2. QED
    BY <2>1, FatesOfStore DEF FatesInv
<1>3. [g \in Grants |-> FateOf(store', g)]
        = [g \in Grants |-> IF g \in lapsed THEN "withdrawn"
                            ELSE [h \in Grants |-> FateOf(store, h)][g]]
  BY <1>2
<1>4. QED
  BY <1>1, <1>3 DEF Lifecycle!Withdraw

(* Stashing mints its grant.                                               *)
LEMMA StashStep ==
  ASSUME FatesInv(store), FatesInv(store'), NEW g \in Grants, g \notin store.minted,
         store'.minted = store.minted \cup {g},
         store'.handed = store.handed,
         store.disposed \subseteq store'.disposed, g \notin store'.disposed
  PROVE  Lifecycle!Mint(g)
<1> DEFINE lapsed == {h \in Grants : FateOf(store, h) = "held" /\ FateOf(store', h) = "withdrawn"}
<1>1. lapsed \in SUBSET Lifecycle!With("held")
  BY DEF Lifecycle!With
<1>2. \A h \in Grants : HandedOut(store', h) <=> HandedOut(store, h)
  BY DEF HandedOut
<1>3. FateOf(store, g) = "unminted" /\ FateOf(store', g) = "held"
  BY <1>2, FatesOfStore DEF FatesInv
<1>4. ASSUME NEW h \in Grants
      PROVE  FateOf(store', h) = IF h = g THEN "held"
                                 ELSE IF h \in lapsed THEN "withdrawn" ELSE FateOf(store, h)
  <2>1. CASE h # g
    BY <2>1, <1>2, FatesOfStore DEF FatesInv
  <2>2. QED
    BY <2>1, <1>3
<1>5. [h \in Grants |-> FateOf(store', h)]
        = [h \in Grants |-> IF h = g THEN "held"
                            ELSE IF h \in lapsed THEN "withdrawn"
                            ELSE [k \in Grants |-> FateOf(store, k)][h]]
  BY <1>4
<1>6. QED
  BY <1>1, <1>3, <1>5 DEF Lifecycle!Mint

(* A redemption that is answered with the grant hands it out.              *)
LEMMA RedeemStep ==
  ASSUME FatesInv(store), FatesInv(store'), NEW g \in Grants, NEW c \in Codes,
         Held(store, g),
         store'.minted = store.minted,
         store'.handed = store.handed \cup {<<g, c>>},
         store.disposed \subseteq store'.disposed
  PROVE  Lifecycle!HandOut(g)
<1> DEFINE lapsed == {h \in Grants : FateOf(store, h) = "held" /\ FateOf(store', h) = "withdrawn"}
<1>1. \A h \in Grants : h # g => (HandedOut(store', h) <=> HandedOut(store, h))
  BY DEF HandedOut
<1>2. HandedOut(store', g)
  BY DEF HandedOut
<1>3. FateOf(store, g) = "held" /\ FateOf(store', g) = "phone"
  BY <1>2, FatesOfStore
<1>4. lapsed \in SUBSET (Lifecycle!With("held") \ {g})
  BY <1>3 DEF Lifecycle!With
<1>5. ASSUME NEW h \in Grants
      PROVE  FateOf(store', h) = IF h = g THEN "phone"
                                 ELSE IF h \in lapsed THEN "withdrawn" ELSE FateOf(store, h)
  <2>1. CASE h # g
    BY <2>1, <1>1, FatesOfStore DEF FatesInv
  <2>2. QED
    BY <2>1, <1>3
<1>6. [h \in Grants |-> FateOf(store', h)]
        = [h \in Grants |-> IF h = g THEN "phone"
                            ELSE IF h \in lapsed THEN "withdrawn"
                            ELSE [k \in Grants |-> FateOf(store, k)][h]]
  BY <1>5
<1>7. QED
  BY <1>3, <1>4, <1>6 DEF Lifecycle!HandOut

\* A store sweeping away nothing but expired grants keeps what was minted, handed and disposed.
LEMMA SweepOnly ==
  ASSUME NEW s \in StoreType, NEW t \in Nat
  PROVE  /\ Sweep(s, t).minted = s.minted /\ Sweep(s, t).handed = s.handed
         /\ s.disposed \subseteq Sweep(s, t).disposed
BY SweepFields

\* Every step of the store is a step of the grants' lives, or none.
LEMMA LifecycleStep ==
  ASSUME Inv, [Next]_vars
  PROVE  [Lifecycle!Next]_([g \in Grants |-> FateOf(store, g)])
<1> DEFINE sw == Sweep(store, now)
<1>0. now \in Nat /\ store \in StoreType /\ FatesInv(store) /\ FatesInv(store') /\ sw \in StoreType
  BY NextInv, SweepType DEF Inv, StoreInv
<1>s. sw.minted = store.minted /\ sw.handed = store.handed /\ store.disposed \subseteq sw.disposed
  BY <1>0, SweepOnly
<1>f. FatesInv(sw)
  BY SweepInv DEF Inv, StoreInv
<1> HIDE DEF sw
<1>1. ASSUME NEW g \in Grants, NEW o \in Owners, StashGrant(g, o)
      PROVE  Lifecycle!Next
  <2>1. g \notin store.minted /\ store' = Stash(store, g, o, now)
    BY <1>1 DEF StashGrant
  <2>2. /\ store'.minted = store.minted \cup {g} /\ store'.handed = store.handed
        /\ store'.disposed = sw.disposed
    BY <2>1, <1>0, <1>s DEF Stash, StoreType, sw
  <2>3. g \notin sw.disposed
    BY <1>f, <1>s, <2>1 DEF FatesInv
  <2>4. Lifecycle!Mint(g)
    BY <1>0, <1>s, <2>1, <2>2, <2>3, StashStep
  <2>5. QED
    BY <2>4 DEF Lifecycle!Next
<1>2. ASSUME NEW g \in Grants, NEW o \in Owners, CreatePairingCode(g, o)
      PROVE  Lifecycle!Next
  <2>1. /\ store'.minted = store.minted /\ store'.handed = store.handed
        /\ store'.disposed = sw.disposed
    <3>1. store' = CreateCode(store, g, o, now)
      BY <1>2 DEF CreatePairingCode
    <3>2. QED
      BY <3>1, <1>0, <1>s DEF CreateCode, StoreType, sw
  <2>2. Lifecycle!Withdraw
    BY <1>0, <1>s, <2>1, WithdrawStep
  <2>3. QED
    BY <2>2 DEF Lifecycle!Next
<1>3. ASSUME NEW g \in Grants, DiscardGrant(g)
      PROVE  Lifecycle!Next
  <2>1. /\ store'.minted = store.minted /\ store'.handed = store.handed
        /\ sw.disposed \subseteq store'.disposed
    <3>1. store' = IF Known(sw.grants, g) THEN Wipe(sw, g) ELSE sw
      BY <1>3 DEF DiscardGrant, Discard, sw
    <3>2. QED
      BY <3>1, <1>0, <1>s DEF Wipe, StoreType
  <2>2. Lifecycle!Withdraw
    BY <1>0, <1>s, <2>1, WithdrawStep
  <2>3. QED
    BY <2>2 DEF Lifecycle!Next
<1>4. ASSUME NEW c \in Codes, RedeemPairingCode(c)
      PROVE  Lifecycle!Next
  <2>0. store' = Redeem(store, c, now)
    BY <1>4 DEF RedeemPairingCode
  <2>1. CASE RedeemAnswer(store, c, now) # "ok"
    <3>1. store' = sw
      BY <2>0, <2>1 DEF Redeem, sw
    <3>2. Lifecycle!Withdraw
      BY <1>0, <1>s, <3>1, WithdrawStep
    <3>3. QED
      BY <3>2 DEF Lifecycle!Next
  <2>2. CASE RedeemAnswer(store, c, now) = "ok"
    <3> DEFINE g == sw.codes[c].grantId
    <3>1. Known(sw.codes, c) /\ Held(sw, g)
      BY <2>2 DEF RedeemAnswer, sw
    <3>2. g \in Grants
      BY <3>1, <1>0 DEF StoreType, CodeRecord, Known
    <3>3. Held(store, g)
      BY <3>1, <3>2, <1>0, SweepGrants DEF sw
    <3>4. /\ store'.minted = store.minted /\ store'.disposed = sw.disposed
          /\ store'.handed = store.handed \cup {<<g, c>>}
      BY <2>0, <2>2, <1>0, <1>s DEF Redeem, StoreType, sw
    <3>5. Lifecycle!HandOut(g)
      BY <1>0, <1>s, <3>2, <3>3, <3>4, RedeemStep
    <3>6. QED
      BY <3>2, <3>5 DEF Lifecycle!Next
  <2>3. QED
    BY <2>1, <2>2
<1>5. CASE Query
  <2>1. store' = sw
    BY <1>5 DEF Query, sw
  <2>2. Lifecycle!Withdraw
    BY <1>0, <1>s, <2>1, WithdrawStep
  <2>3. QED
    BY <2>2 DEF Lifecycle!Next
<1>6. CASE Tick \/ UNCHANGED vars
  BY <1>6 DEF Tick, vars
<1>7. QED
  BY <1>1, <1>2, <1>3, <1>4, <1>5, <1>6 DEF Next

(* The store implements the life of a grant: at every step each grant is    *)
(* held, with one phone, or withdrawn, and never goes back.                 *)
THEOREM Refinement == Spec => ImplementsLifecycle
<1>1. Init => Lifecycle!Init
  <2> SUFFICES ASSUME Init PROVE Lifecycle!Init
    OBVIOUS
  <2>1. \A g \in Grants : FateOf(store, g) = "unminted"
    BY DEF Init, EmptyStore, FateOf
  <2>2. QED
    BY <2>1 DEF Lifecycle!Init
<1>2. Inv /\ [Next]_vars => [Lifecycle!Next]_([g \in Grants |-> FateOf(store, g)])
  BY LifecycleStep
<1>3. QED
  BY <1>1, <1>2, Invariance, PTL DEF Spec, ImplementsLifecycle, Lifecycle!Spec

-----------------------------------------------------------------------------
(* How a store may change from s to n.                                     *)

(* A grant a phone could still get at time t.                              *)
Usable(s, g, t) == Held(s, g) /\ s.grants[g].expiresAt > t

GrantsEvolve(s, n) ==
  \A g \in s.minted :
    /\ Known(n.grants, g) =>
         /\ Known(s.grants, g)
         /\ n.grants[g].expiresAt = s.grants[g].expiresAt
         /\ n.grants[g].owner = s.grants[g].owner
    /\ Held(n, g) => Held(s, g)

CodesEvolve(s, n) ==
  \A c \in Codes : c <= s.issued /\ Known(n.codes, c) =>
    Known(s.codes, c) /\ n.codes[c].grantId = s.codes[c].grantId

Evolves(s, n) ==
  /\ s.minted \subseteq n.minted
  /\ s.handed \subseteq n.handed
  /\ s.issued <= n.issued
  /\ GrantsEvolve(s, n)
  /\ CodesEvolve(s, n)

(* Sweeping forgets, wipes and expires, nothing else.                      *)
LEMMA SweepEvolves ==
  ASSUME NEW s \in StoreType, NEW t \in Nat
  PROVE  Evolves(s, Sweep(s, t))
<1>1. s.minted \subseteq Grants /\ s.issued \in Nat
  BY BoundAssumption DEF StoreType
<1>2. GrantsEvolve(s, Sweep(s, t))
  BY <1>1, SweepGrants DEF GrantsEvolve
<1>3. CodesEvolve(s, Sweep(s, t))
  BY SweepCodes DEF CodesEvolve
<1>4. QED
  BY <1>1, <1>2, <1>3, SweepFields DEF Evolves

(* Changes add up.                                                         *)
LEMMA EvolvesOn ==
  ASSUME NEW s \in StoreType, NEW m \in StoreType, NEW n \in StoreType,
         Evolves(s, m), Evolves(m, n)
  PROVE  Evolves(s, n)
<1>1. s.issued \in Nat /\ m.issued \in Nat /\ n.issued \in Nat
  BY BoundAssumption DEF StoreType
<1>2. s.minted \subseteq n.minted /\ s.handed \subseteq n.handed /\ s.issued <= n.issued
  BY <1>1 DEF Evolves
<1>3. GrantsEvolve(s, n)
  BY DEF Evolves, GrantsEvolve
<1>4. CodesEvolve(s, n)
  BY <1>1 DEF Evolves, CodesEvolve, Codes
<1>5. QED
  BY <1>2, <1>3, <1>4 DEF Evolves

(* Stashing writes one fresh grant, which may be redeemed for GrantTTL.    *)
LEMMA StashEvolves ==
  ASSUME NEW s \in StoreType, NEW t \in Nat, NEW g \in Grants \ s.minted, NEW o \in Owners
  PROVE  /\ Evolves(s, Stash(s, g, o, t))
         /\ Held(Stash(s, g, o, t), g)
         /\ Stash(s, g, o, t).grants[g].owner = o
         /\ Stash(s, g, o, t).grants[g].expiresAt = t + GrantTTL
         /\ Stash(s, g, o, t).grants[g].forgetAt > t
         /\ Stash(s, g, o, t).minted = s.minted \cup {g}
         /\ Stash(s, g, o, t).issued = s.issued
<1> DEFINE sw == Sweep(s, t)
           n == Stash(s, g, o, t)
           rec == [grant |-> "held", owner |-> o, expiresAt |-> t + GrantTTL,
                   forgetAt |-> t + GrantTTL + TombstoneTTL]
<1>0. sw \in StoreType /\ sw.minted = s.minted /\ sw.issued = s.issued /\ sw.handed = s.handed
  BY SweepType, SweepFields
<1>e. Evolves(s, sw)
  BY SweepEvolves
<1>1. n = [sw EXCEPT !.grants[g] = rec, !.minted = @ \cup {g}]
  BY DEF Stash
<1> HIDE DEF sw, n
<1>2. /\ n.codes = sw.codes /\ n.issued = sw.issued
      /\ n.minted = sw.minted \cup {g} /\ n.handed = sw.handed
  BY <1>0, <1>1 DEF StoreType
<1>3. n.grants[g] = rec /\ \A h \in Grants : h # g => n.grants[h] = sw.grants[h]
  BY <1>0, <1>1 DEF StoreType
<1>4. rec \in GrantRecord /\ rec.forgetAt > t
  BY TTLAssumption DEF GrantRecord, Times
<1>5. Held(n, g)
  BY <1>3, <1>4, NoRecordAssumption DEF Held, Known
<1>6. s.minted \subseteq Grants \ {g} /\ s.issued \in Nat
  BY BoundAssumption DEF StoreType
<1>7. GrantsEvolve(s, n)
  BY <1>e, <1>3, <1>6 DEF Evolves, GrantsEvolve, Known, Held
<1>8. CodesEvolve(s, n)
  BY <1>e, <1>2 DEF Evolves, CodesEvolve
<1>9. QED
  BY <1>0, <1>2, <1>3, <1>4, <1>5, <1>6, <1>7, <1>8 DEF Evolves, n

(* A discarded grant is not held any more; other grants only get swept.    *)
LEMMA DiscardEvolves ==
  ASSUME NEW s \in StoreType, NEW t \in Nat, NEW g \in Grants
  PROVE  /\ Evolves(s, Discard(s, g, t))
         /\ ~ Held(Discard(s, g, t), g)
         /\ \A h \in Grants : h # g => Discard(s, g, t).grants[h] = Sweep(s, t).grants[h]
         /\ Discard(s, g, t).minted = s.minted
         /\ Discard(s, g, t).issued = s.issued
<1> DEFINE sw == Sweep(s, t)
           n == Discard(s, g, t)
<1>0. sw \in StoreType /\ sw.minted = s.minted /\ sw.issued = s.issued /\ sw.handed = s.handed
  BY SweepType, SweepFields
<1>e. Evolves(s, sw)
  BY SweepEvolves
<1>1. n = IF Known(sw.grants, g) THEN Wipe(sw, g) ELSE sw
  BY DEF Discard
<1> HIDE DEF sw, n
<1>2. /\ n.codes = sw.codes /\ n.issued = sw.issued
      /\ n.minted = sw.minted /\ n.handed = sw.handed
  BY <1>0, <1>1 DEF StoreType, Wipe
<1>3. \A h \in Grants : h # g => n.grants[h] = sw.grants[h]
  BY <1>0, <1>1 DEF StoreType, Wipe
<1>4. CASE ~ Known(sw.grants, g)
  <2>1. n = sw
    BY <1>1, <1>4
  <2>2. ~ Held(n, g)
    BY <2>1, <1>4 DEF Held
  <2>3. QED
    BY <2>1, <2>2, <1>0, <1>e DEF n, sw
<1>5. CASE Known(sw.grants, g)
  <2>1. n.grants[g] = [sw.grants[g] EXCEPT !.grant = "wiped"]
    BY <1>0, <1>1, <1>5 DEF StoreType, Wipe
  <2>2. sw.grants[g] \in GrantRecord
    BY <1>0, <1>5 DEF StoreType, Known
  <2>3. /\ n.grants[g].grant = "wiped"
        /\ n.grants[g].expiresAt = sw.grants[g].expiresAt
        /\ n.grants[g].owner = sw.grants[g].owner
    BY <2>1, <2>2 DEF GrantRecord
  <2>4. ~ Held(n, g)
    BY <2>3 DEF Held
  <2>5. s.minted \subseteq Grants /\ s.issued \in Nat
    BY BoundAssumption DEF StoreType
  <2>6. GrantsEvolve(s, n)
    <3> SUFFICES ASSUME NEW h \in s.minted
                 PROVE  /\ Known(n.grants, h) =>
                             /\ Known(s.grants, h)
                             /\ n.grants[h].expiresAt = s.grants[h].expiresAt
                             /\ n.grants[h].owner = s.grants[h].owner
                        /\ Held(n, h) => Held(s, h)
      BY DEF GrantsEvolve
    <3>1. CASE h = g
      BY <3>1, <1>5, <1>e, <2>3, <2>4 DEF Evolves, GrantsEvolve
    <3>2. CASE h # g
      BY <3>2, <1>3, <1>e, <2>5 DEF Evolves, GrantsEvolve, Known, Held
    <3>3. QED
      BY <3>1, <3>2
  <2>7. CodesEvolve(s, n)
    BY <1>e, <1>2 DEF Evolves, CodesEvolve
  <2>8. Evolves(s, n)
    BY <1>0, <1>2, <2>5, <2>6, <2>7 DEF Evolves
  <2>9. QED
    BY <1>0, <1>2, <1>3, <2>4, <2>8 DEF n, sw
<1>6. QED
  BY <1>4, <1>5

(* A new code of an available grant takes the next number.                 *)
LEMMA CreateEvolves ==
  ASSUME NEW s \in StoreType, NEW t \in Nat, NEW g \in Grants, NEW o \in Owners,
         s.issued < MaxCodes, IsAvailable(s, g, o, t)
  PROVE  /\ Evolves(s, CreateCode(s, g, o, t))
         /\ CreateCode(s, g, o, t).issued = NextCode(s)
         /\ NextCode(s) \in Codes
         /\ CreateCode(s, g, o, t).codes[NextCode(s)].grantId = g
         /\ CreateCode(s, g, o, t).grants = Sweep(s, t).grants
         /\ CreateCode(s, g, o, t).minted = s.minted
<1> DEFINE sw == Sweep(s, t)
           n == CreateCode(s, g, o, t)
           new == NextCode(s)
           expiry == CodeExpiry(sw, g, t)
<1>0. sw \in StoreType /\ sw.minted = s.minted /\ sw.issued = s.issued /\ sw.handed = s.handed
  BY SweepType, SweepFields
<1>e. Evolves(s, sw)
  BY SweepEvolves
<1>i. s.issued \in Nat /\ new = s.issued + 1 /\ new \in Codes
  BY BoundAssumption DEF StoreType, NextCode, Codes
<1>1. n = [sw EXCEPT
            !.issued = new,
            !.codes = [c \in Codes |->
               IF c = new THEN [grantId |-> g, expiresAt |-> expiry, state |-> "pending",
                                forgetAt |-> expiry + TombstoneTTL]
               ELSE IF c \in Forgotten(sw, g) THEN NoRecord
               ELSE IF c \in Replaced(sw, g) THEN [sw.codes[c] EXCEPT !.state = "superseded"]
               ELSE sw.codes[c]],
            !.statusIndex = (@ \ Forgotten(sw, g)) \cup {new}]
  BY DEF CreateCode
<1> HIDE DEF sw, n, new, expiry
<1>2. /\ n.grants = sw.grants /\ n.issued = new
      /\ n.minted = sw.minted /\ n.handed = sw.handed
  BY <1>0, <1>1 DEF StoreType
<1>3. n.codes = [c \in Codes |->
               IF c = new THEN [grantId |-> g, expiresAt |-> expiry, state |-> "pending",
                                forgetAt |-> expiry + TombstoneTTL]
               ELSE IF c \in Forgotten(sw, g) THEN NoRecord
               ELSE IF c \in Replaced(sw, g) THEN [sw.codes[c] EXCEPT !.state = "superseded"]
               ELSE sw.codes[c]]
  BY <1>0, <1>1 DEF StoreType
<1>4. n.codes[new].grantId = g
  BY <1>3, <1>i
<1>5. ASSUME NEW c \in Codes, c <= s.issued, Known(n.codes, c)
      PROVE  Known(sw.codes, c) /\ n.codes[c].grantId = sw.codes[c].grantId
  <2>1. c # new
    BY <1>5, <1>i DEF Codes
  <2>2. \/ n.codes[c] = sw.codes[c]
        \/ c \in Replaced(sw, g) /\ n.codes[c] = [sw.codes[c] EXCEPT !.state = "superseded"]
    BY <2>1, <1>3, <1>5 DEF Known
  <2>3. c \in Replaced(sw, g) => Known(sw.codes, c)
    BY DEF Replaced, CodesOf
  <2>4. Known(sw.codes, c) => sw.codes[c] \in CodeRecord
    BY <1>0 DEF StoreType, Known
  <2>5. QED
    BY <1>5, <2>2, <2>3, <2>4 DEF Known, CodeRecord
<1>6. CodesEvolve(s, n)
  BY <1>e, <1>5 DEF Evolves, CodesEvolve
<1>7. GrantsEvolve(s, n)
  BY <1>e, <1>2 DEF Evolves, GrantsEvolve, Held
<1>8. Evolves(s, n)
  BY <1>0, <1>2, <1>6, <1>7, <1>i DEF Evolves
<1>9. QED
  BY <1>0, <1>2, <1>4, <1>8, <1>i DEF n, sw, new

(* Redeeming wipes the grant of a code and marks codes.                    *)
LEMMA RedeemEvolves ==
  ASSUME NEW s \in StoreType, NEW t \in Nat, NEW c \in Codes
  PROVE  Evolves(s, Redeem(s, c, t))
<1> DEFINE sw == Sweep(s, t)
           n == Redeem(s, c, t)
           g == sw.codes[c].grantId
<1>0. sw \in StoreType /\ sw.minted = s.minted /\ sw.issued = s.issued /\ sw.handed = s.handed
  BY SweepType, SweepFields
<1>e. Evolves(s, sw)
  BY SweepEvolves
<1>k. RedeemAnswer(s, c, t) = "ok" => Known(sw.codes, c) /\ Held(sw, g)
  BY DEF RedeemAnswer
<1>1. n = IF RedeemAnswer(s, c, t) # "ok" THEN sw ELSE
          [sw EXCEPT
            !.grants[g].grant = "wiped",
            !.codes = [d \in Codes |->
               IF d = c THEN [sw.codes[d] EXCEPT !.state = "redeemed"]
               ELSE IF d \in CodesOf(sw, g) /\ sw.codes[d].state = "pending"
                    THEN [sw.codes[d] EXCEPT !.state = "superseded"]
               ELSE sw.codes[d]],
            !.handed = @ \cup {<<g, c>>}]
  BY DEF Redeem
<1> HIDE DEF sw, n, g
<1>2. CASE RedeemAnswer(s, c, t) # "ok"
  BY <1>1, <1>2, <1>e DEF n
<1>3. CASE RedeemAnswer(s, c, t) = "ok"
  <2>1. sw.codes[c] \in CodeRecord /\ g \in Grants
    BY <1>0, <1>k, <1>3 DEF StoreType, Known, CodeRecord, g
  <2>2. sw.grants[g] \in GrantRecord
    BY <1>0, <1>k, <1>3, <2>1 DEF StoreType, Known, Held
  <2>3. /\ n.issued = sw.issued /\ n.minted = sw.minted
        /\ n.handed = sw.handed \cup {<<g, c>>}
    BY <1>0, <1>1, <1>3 DEF StoreType
  <2>4. /\ n.grants[g] = [sw.grants[g] EXCEPT !.grant = "wiped"]
        /\ \A h \in Grants : h # g => n.grants[h] = sw.grants[h]
    BY <1>0, <1>1, <1>3, <2>1 DEF StoreType
  <2>5. n.codes = [d \in Codes |->
               IF d = c THEN [sw.codes[d] EXCEPT !.state = "redeemed"]
               ELSE IF d \in CodesOf(sw, g) /\ sw.codes[d].state = "pending"
                    THEN [sw.codes[d] EXCEPT !.state = "superseded"]
               ELSE sw.codes[d]]
    BY <1>0, <1>1, <1>3 DEF StoreType
  <2>6. s.minted \subseteq Grants /\ s.issued \in Nat
    BY BoundAssumption DEF StoreType
  <2>7. /\ n.grants[g].grant = "wiped"
        /\ n.grants[g].expiresAt = sw.grants[g].expiresAt
        /\ n.grants[g].owner = sw.grants[g].owner
    BY <2>2, <2>4 DEF GrantRecord
  <2>8. GrantsEvolve(s, n)
    <3> SUFFICES ASSUME NEW h \in s.minted
                 PROVE  /\ Known(n.grants, h) =>
                             /\ Known(s.grants, h)
                             /\ n.grants[h].expiresAt = s.grants[h].expiresAt
                             /\ n.grants[h].owner = s.grants[h].owner
                        /\ Held(n, h) => Held(s, h)
      BY DEF GrantsEvolve
    <3>1. CASE h = g
      BY <3>1, <1>k, <1>3, <1>e, <2>7 DEF Evolves, GrantsEvolve, Held
    <3>2. CASE h # g
      BY <3>2, <1>e, <2>4, <2>6 DEF Evolves, GrantsEvolve, Known, Held
    <3>3. QED
      BY <3>1, <3>2
  <2>9. ASSUME NEW d \in Codes, Known(n.codes, d)
        PROVE  Known(sw.codes, d) /\ n.codes[d].grantId = sw.codes[d].grantId
    <3>1. d \in CodesOf(sw, g) => Known(sw.codes, d)
      BY DEF CodesOf
    <3>2. Known(sw.codes, d) => sw.codes[d] \in CodeRecord
      BY <1>0 DEF StoreType, Known
    <3>3. d = c \/ d \in CodesOf(sw, g) \/ n.codes[d] = sw.codes[d]
      BY <2>5
    <3>4. Known(sw.codes, d)
      BY <3>1, <3>3, <2>9, <1>k, <1>3 DEF Known
    <3>5. QED
      BY <3>2, <3>4, <2>5 DEF CodeRecord
  <2>10. CodesEvolve(s, n)
    BY <1>e, <2>9 DEF Evolves, CodesEvolve
  <2>11. QED
    BY <1>0, <2>3, <2>6, <2>8, <2>10 DEF Evolves, n
<1>4. QED
  BY <1>2, <1>3


-----------------------------------------------------------------------------
(* The routes' chains of store functions.                                  *)

(* A proof tells the truth about the grant it names, as long as there is a *)
(* record of it.                                                           *)
ProofTrue(s, p) ==
  /\ p.grant \in s.minted
  /\ Known(s.grants, p.grant) =>
       /\ s.grants[p.grant].expiresAt = p.createdAt + GrantTTL
       /\ s.grants[p.grant].owner = p.owner

(* A true proof stays true.                                                *)
LEMMA ProofStaysTrue ==
  ASSUME NEW s, NEW n, Evolves(s, n), NEW p, ProofTrue(s, p)
  PROVE  ProofTrue(n, p)
BY DEF ProofTrue, Evolves, GrantsEvolve

(* What no phone can get stays so.                                         *)
LEMMA UsableBefore ==
  ASSUME NEW s \in StoreType, NEW n \in StoreType, Evolves(s, n),
         NEW t \in Nat, NEW u \in Nat, t <= u, NEW g \in s.minted, Usable(n, g, u)
  PROVE  Usable(s, g, t)
<1>1. g \in Grants /\ Known(n.grants, g)
  BY DEF StoreType, Usable, Held
<1>2. Held(s, g) /\ n.grants[g].expiresAt = s.grants[g].expiresAt
  BY <1>1 DEF Evolves, GrantsEvolve, Usable
<1>3. n.grants[g].expiresAt \in Nat
  BY <1>1 DEF StoreType, GrantRecord, Known, Times
<1>4. QED
  BY <1>2, <1>3 DEF Usable

(* An expired proof names an expired grant.                                *)
LEMMA DeadProof ==
  ASSUME NEW s, NEW p \in Proof, ProofTrue(s, p), NEW t \in Nat, ~ Live(p, t), p # None
  PROVE  ~ Usable(s, p.grant, t)
<1>1. t - p.createdAt > GrantTTL /\ p.createdAt \in Nat
  BY TTLAssumption DEF Live, Proof, Times
<1>2. QED
  BY <1>1, TTLAssumption DEF ProofTrue, Usable, Held

(* A store that does not change evolves.                                   *)
LEMMA EvolvesSelf ==
  ASSUME NEW s \in StoreType
  PROVE  Evolves(s, s)
BY BoundAssumption DEF Evolves, GrantsEvolve, CodesEvolve, StoreType

(* A held grant that has not expired is available to its owner.            *)
LEMMA SweepKeepsAvailable ==
  ASSUME NEW s \in StoreType, NEW t \in Nat, NEW g \in Grants, NEW o,
         Held(s, g), s.grants[g].owner = o, s.grants[g].expiresAt > t, s.grants[g].forgetAt > t
  PROVE  IsAvailable(s, g, o, t)
BY SweepGrants DEF IsAvailable, Held

(* A step-up mints a grant that is ready for its first code, and leaves    *)
(* nothing of the grant whose proof the request carried.                   *)
LEMMA StepUpEvolves ==
  ASSUME NEW s, NEW t \in Nat, StoreInv(s, t), NEW carried \in CookieType,
         carried # None => ProofTrue(s, carried),
         NEW g \in Grants \ s.minted, NEW o \in Owners
  PROVE  /\ StoreInv(StepUp(s, carried, g, o, t), t)
         /\ Evolves(s, StepUp(s, carried, g, o, t))
         /\ StepUp(s, carried, g, o, t).minted = s.minted \cup {g}
         /\ StepUp(s, carried, g, o, t).issued = s.issued
         /\ StepUp(s, carried, g, o, t).grants[g].owner = o
         /\ StepUp(s, carried, g, o, t).grants[g].expiresAt = t + GrantTTL
         /\ IsAvailable(StepUp(s, carried, g, o, t), g, o, t)
         /\ carried # None => ~ Usable(StepUp(s, carried, g, o, t), carried.grant, t)
<1> DEFINE m == Stash(s, g, o, t)
           n == StepUp(s, carried, g, o, t)
<1>0. s \in StoreType /\ m \in StoreType /\ StoreInv(m, t)
  BY StashInv DEF StoreInv
<1>1. /\ Evolves(s, m) /\ Held(m, g) /\ m.grants[g].owner = o
      /\ m.grants[g].expiresAt = t + GrantTTL /\ m.grants[g].forgetAt > t
      /\ m.minted = s.minted \cup {g} /\ m.issued = s.issued
  BY <1>0, StashEvolves
<1>2. n = IF Live(carried, t) /\ carried.grant # g THEN Discard(m, carried.grant, t) ELSE m
  BY DEF StepUp
<1> HIDE DEF m, n
<1>3. t + GrantTTL > t
  BY TTLAssumption
<1>4. CASE Live(carried, t)
  <2>1. carried # None /\ carried \in Proof
    BY <1>4 DEF Live, CookieType
  <2>2. carried.grant \in Grants /\ carried.grant # g
    BY <2>1 DEF Proof, ProofTrue
  <2>3. n = Discard(m, carried.grant, t)
    BY <1>2, <1>4, <2>2
  <2>4. StoreInv(n, t) /\ n \in StoreType
    BY <1>0, <2>2, <2>3, DiscardInv DEF StoreInv
  <2>5. /\ Evolves(m, n) /\ ~ Held(n, carried.grant)
        /\ n.grants[g] = Sweep(m, t).grants[g]
        /\ n.minted = m.minted /\ n.issued = m.issued
    BY <1>0, <2>2, <2>3, DiscardEvolves
  <2>6. Evolves(s, n)
    BY <1>0, <1>1, <2>4, <2>5, EvolvesOn
  <2>7. /\ Held(Sweep(m, t), g) /\ Sweep(m, t).grants[g].owner = o
        /\ Sweep(m, t).grants[g].expiresAt = t + GrantTTL
        /\ Sweep(m, t).grants[g].forgetAt > t
    BY <1>0, <1>1, <1>3, SweepGrants DEF Held
  <2>8. Held(n, g)
    BY <2>5, <2>7 DEF Held, Known
  <2>9. IsAvailable(n, g, o, t)
    BY <1>3, <2>4, <2>5, <2>7, <2>8, SweepKeepsAvailable
  <2>10. ~ Usable(n, carried.grant, t)
    BY <2>5 DEF Usable
  <2>11. QED
    BY <1>1, <2>4, <2>5, <2>6, <2>7, <2>9, <2>10 DEF n
<1>5. CASE ~ Live(carried, t)
  <2>1. n = m
    BY <1>2, <1>5
  <2>2. IsAvailable(n, g, o, t)
    BY <1>0, <1>1, <1>3, <2>1, SweepKeepsAvailable
  <2>3. ASSUME carried # None
        PROVE  ~ Usable(n, carried.grant, t)
    <3>1. carried \in Proof /\ carried.grant \in s.minted
      BY <2>3 DEF CookieType, ProofTrue
    <3>2. ~ Usable(s, carried.grant, t)
      BY <1>5, <2>3, <3>1, DeadProof
    <3>3. QED
      BY <1>0, <1>1, <2>1, <3>1, <3>2, UsableBefore
  <2>4. QED
    BY <1>0, <1>1, <2>1, <2>2, <2>3 DEF n
<1>6. QED
  BY <1>4, <1>5

(* Forgetting a proof leaves nothing of its grant.                         *)
LEMMA ClearEvolves ==
  ASSUME NEW s, NEW t \in Nat, StoreInv(s, t), NEW carried \in CookieType,
         carried # None => ProofTrue(s, carried), NEW kind, NEW o
  PROVE  /\ StoreInv(ClearProof(s, kind, carried, o, t), t)
         /\ Evolves(s, ClearProof(s, kind, carried, o, t))
         /\ Clears(kind, carried, o, t) =>
              ~ Usable(ClearProof(s, kind, carried, o, t), carried.grant, t)
<1>0. s \in StoreType
  BY DEF StoreInv
<1>1. CASE Clears(kind, carried, o, t) /\ Live(carried, t)
  <2>1. carried.grant \in Grants
    BY <1>1 DEF Live, CookieType, Proof
  <2>2. ClearProof(s, kind, carried, o, t) = Discard(s, carried.grant, t)
    BY <1>1 DEF ClearProof
  <2>3. QED
    BY <1>0, <2>1, <2>2, DiscardInv, DiscardEvolves DEF Usable
<1>2. CASE ~ (Clears(kind, carried, o, t) /\ Live(carried, t))
  <2>1. ClearProof(s, kind, carried, o, t) = s
    BY <1>2 DEF ClearProof
  <2>2. ASSUME Clears(kind, carried, o, t)
        PROVE  ~ Usable(s, carried.grant, t)
    BY <1>2, <2>2, DeadProof DEF Clears, CookieType
  <2>3. QED
    BY <1>0, <2>1, <2>2, EvolvesSelf
<1>3. QED
  BY <1>1, <1>2

-----------------------------------------------------------------------------
(* The invariant.                                                          *)

(* The proof an answered code was issued on.                               *)
Behind(q) == IF q.answer.cookie = Kept THEN q.carried ELSE q.answer.cookie

(* A code on its way to a section is one of that account's grant, and the  *)
(* browser holds, or is about to hold, its proof.                          *)
CodeTrue(s, q) ==
  /\ q.kind \in {"password", "again", "resume"}
  /\ q.answer.code \in Codes
  /\ q.answer.code <= s.issued
  /\ Behind(q) # None
  /\ Behind(q).owner = q.owner
  /\ Known(s.codes, q.answer.code) => s.codes[q.answer.code].grantId = Behind(q).grant

(* An answer that replaces or deletes the proof its request carried comes  *)
(* from a server that let no phone have that proof's grant any more.       *)
AnswerTrue(s, t, q) ==
  /\ q.answer.cookie \in Proof => ProofTrue(s, q.answer.cookie)
  /\ q.answer.cookie # Kept /\ q.carried # None => ~ Usable(s, q.carried.grant, t)
  /\ q.answer.result = "code" => CodeTrue(s, q)

RequestTrue(s, t, q) ==
  /\ q.carried # None => ProofTrue(s, q.carried)
  /\ q.answer # None => AnswerTrue(s, t, q)

(* What a section shows was on a screen before, and is its account's.      *)
SectionTrue(s, shown, x) ==
  /\ x.phase = "code" =>
       /\ x.code \in shown
       /\ Known(s.codes, x.code) => s.grants[s.codes[x.code].grantId].owner = x.account
  /\ x.phase = "redeemed" => \E g \in Grants : <<g, x.code>> \in s.handed

(* The browser holds the proof of grant g, or lost it to a late answer.    *)
Covered(g) == g \in overtaken \/ (cookie # None /\ cookie.grant = g)
CoveredNext(g) == g \in overtaken' \/ (cookie' # None /\ cookie'.grant = g)

CookieTrue(s) == cookie # None => ProofTrue(s, cookie)

RequestsTrue(s, t) == \A r \in Requests : request[r] # None => RequestTrue(s, t, request[r])

CarriedCovered(s, t) ==
  \A r \in Requests :
    request[r] # None /\ request[r].carried # None /\ Usable(s, request[r].carried.grant, t)
      => Covered(request[r].carried.grant)

DisplayedCovered(s, t) ==
  \A c \in displayed :
    /\ c <= s.issued
    /\ Known(s.codes, c) /\ Usable(s, s.codes[c].grantId, t) => Covered(s.codes[c].grantId)

SectionsTrue(s) == \A sec \in Sections : SectionTrue(s, displayed, section[sec])

(* The browser fits the store s at time t.                                 *)
Fits(s, t) ==
  /\ CookieTrue(s)
  /\ RequestsTrue(s, t)
  /\ CarriedCovered(s, t)
  /\ DisplayedCovered(s, t)
  /\ SectionsTrue(s)

(* A section waits only for what was asked for the account it shows.       *)
Shows(q) == q.wanted /\ q.kind \in {"password", "again", "resume"}

WaitedFor ==
  \A r \in Requests :
    request[r] # None /\ Shows(request[r]) => section[request[r].section].account = request[r].owner

BrowserType ==
  /\ cookie \in CookieType
  /\ section \in [Sections -> SectionRecord]
  /\ request \in [Requests -> RequestRecord \cup {None}]
  /\ sent \in 0 .. MaxSent
  /\ displayed \subseteq Codes
  /\ overtaken \subseteq Grants

PairingInv == Inv /\ BrowserType /\ Fits(store, now) /\ WaitedFor

-----------------------------------------------------------------------------
(* The markers None and Kept are no data.                                  *)
LEMMA Markers ==
  /\ None \notin Proof /\ None \notin Answer /\ None \notin RequestRecord
  /\ Kept \notin Proof /\ Kept # None
BY MarkersAssumption DEF CookieType

(* The fields of a request.                                                *)
LEMMA RequestFields ==
  ASSUME NEW q \in RequestRecord
  PROVE  /\ q.kind \in Kinds /\ q.section \in Sections /\ q.owner \in Owners
         /\ q.carried \in CookieType /\ q.wanted \in BOOLEAN
         /\ q.answer \in Answer \cup {None}
         /\ q.carried # None => q.carried \in Proof /\ q.carried.grant \in Grants
BY DEF RequestRecord, CookieType, Proof

(* What holds of a request keeps holding as the store moves on.            *)
LEMMA RequestStaysTrue ==
  ASSUME NEW s \in StoreType, NEW n \in StoreType, Evolves(s, n),
         NEW t \in Nat, NEW u \in Nat, t <= u,
         NEW q \in RequestRecord, RequestTrue(s, t, q)
  PROVE  RequestTrue(n, u, q)
<1>1. q.carried # None => ProofTrue(n, q.carried)
  BY ProofStaysTrue DEF RequestTrue
<1>2. ASSUME q.answer # None
      PROVE  AnswerTrue(n, u, q)
  <2>1. AnswerTrue(s, t, q)
    BY <1>2 DEF RequestTrue
  <2>2. q.answer.cookie \in Proof => ProofTrue(n, q.answer.cookie)
    BY <2>1, ProofStaysTrue DEF AnswerTrue
  <2>3. ASSUME q.answer.cookie # Kept, q.carried # None
        PROVE  ~ Usable(n, q.carried.grant, u)
    <3>1. q.carried.grant \in s.minted /\ ~ Usable(s, q.carried.grant, t)
      BY <2>1, <2>3 DEF RequestTrue, AnswerTrue, ProofTrue
    <3>2. QED
      BY <3>1, UsableBefore
  <2>4. ASSUME q.answer.result = "code"
        PROVE  CodeTrue(n, q)
    <3>1. CodeTrue(s, q)
      BY <2>1, <2>4 DEF AnswerTrue
    <3>2. s.issued \in Nat /\ n.issued \in Nat /\ q.answer.code \in Nat
      BY <3>1, BoundAssumption DEF CodeTrue, StoreType, Codes
    <3>3. QED
      BY <3>1, <3>2 DEF CodeTrue, Evolves, CodesEvolve
  <2>5. QED
    BY <2>2, <2>3, <2>4 DEF AnswerTrue
<1>3. QED
  BY <1>1, <1>2 DEF RequestTrue

(* What a section shows keeps being true: a code does not change grants,   *)
(* nor a grant its account.                                                *)
LEMMA SectionStaysTrue ==
  ASSUME NEW s, NEW t \in Nat, StoreInv(s, t), NEW n, NEW u \in Nat, StoreInv(n, u),
         Evolves(s, n), NEW shown \in SUBSET Codes, \A c \in shown : c <= s.issued,
         NEW x, SectionTrue(s, shown, x)
  PROVE  SectionTrue(n, shown, x)
<1>1. ASSUME x.phase = "code", Known(n.codes, x.code)
      PROVE  n.grants[n.codes[x.code].grantId].owner = x.account
  <2>1. x.code \in Codes /\ x.code <= s.issued
    BY <1>1 DEF SectionTrue
  <2>2. Known(s.codes, x.code) /\ n.codes[x.code].grantId = s.codes[x.code].grantId
    BY <1>1, <2>1 DEF Evolves, CodesEvolve
  <2>3. s.codes[x.code].grantId \in Grants
    BY <2>1, <2>2 DEF StoreInv, StoreType, CodeRecord, Known
  <2>4. s.codes[x.code].grantId \in s.minted
    BY <2>1, <2>2, <2>3 DEF StoreInv, RecordsInv
  <2>5. Known(n.grants, n.codes[x.code].grantId)
    BY <1>1, <2>1 DEF StoreInv, RecordsInv
  <2>6. QED
    BY <1>1, <2>2, <2>4, <2>5 DEF SectionTrue, Evolves, GrantsEvolve
<1>2. QED
  BY <1>1 DEF SectionTrue, Evolves

(* The browser goes on fitting a store that evolves as time passes.        *)
LEMMA StillFits ==
  ASSUME PairingInv, NEW n, NEW u \in Nat, now <= u, StoreInv(n, u), Evolves(store, n)
  PROVE  Fits(n, u)
<1>0. /\ now \in Nat /\ StoreInv(store, now) /\ store \in StoreType /\ n \in StoreType
      /\ BrowserType /\ Fits(store, now)
  BY DEF PairingInv, Inv, StoreInv
<1>1. CookieTrue(n)
  BY <1>0, ProofStaysTrue DEF Fits, CookieTrue
<1>2. RequestsTrue(n, u)
  <2>1. \A r \in Requests : request[r] # None => request[r] \in RequestRecord
    BY <1>0 DEF BrowserType
  <2>2. QED
    BY <1>0, <2>1, RequestStaysTrue DEF Fits, RequestsTrue
<1>3. CarriedCovered(n, u)
  <2> SUFFICES ASSUME NEW r \in Requests, request[r] # None, request[r].carried # None,
                      Usable(n, request[r].carried.grant, u)
               PROVE  Covered(request[r].carried.grant)
    BY DEF CarriedCovered
  <2>1. request[r].carried.grant \in store.minted
    BY <1>0 DEF Fits, RequestsTrue, RequestTrue, ProofTrue
  <2>2. Usable(store, request[r].carried.grant, now)
    BY <1>0, <2>1, UsableBefore
  <2>3. QED
    BY <1>0, <2>2 DEF Fits, CarriedCovered
<1>4. DisplayedCovered(n, u)
  <2> SUFFICES ASSUME NEW c \in displayed
               PROVE  /\ c <= n.issued
                      /\ Known(n.codes, c) /\ Usable(n, n.codes[c].grantId, u)
                           => Covered(n.codes[c].grantId)
    BY DEF DisplayedCovered
  <2>1. c \in Codes /\ c <= store.issued
    BY <1>0 DEF BrowserType, Fits, DisplayedCovered
  <2>2. store.issued \in Nat /\ n.issued \in Nat /\ c \in Nat
    BY <1>0, <2>1, BoundAssumption DEF StoreType, Codes
  <2>3. c <= n.issued
    BY <2>1, <2>2 DEF Evolves
  <2>4. ASSUME Known(n.codes, c), Usable(n, n.codes[c].grantId, u)
        PROVE  Covered(n.codes[c].grantId)
    <3>1. Known(store.codes, c) /\ n.codes[c].grantId = store.codes[c].grantId
      BY <2>1, <2>4 DEF Evolves, CodesEvolve
    <3>2. store.codes[c].grantId \in Grants
      BY <1>0, <2>1, <3>1 DEF StoreType, CodeRecord, Known
    <3>3. store.codes[c].grantId \in store.minted
      BY <1>0, <2>1, <3>1, <3>2 DEF StoreInv, RecordsInv
    <3>4. Usable(store, store.codes[c].grantId, now)
      BY <1>0, <2>4, <3>1, <3>3, UsableBefore
    <3>5. QED
      BY <1>0, <3>1, <3>4 DEF Fits, DisplayedCovered
  <2>5. QED
    BY <2>3, <2>4
<1>5. SectionsTrue(n)
  <2>1. \A c \in displayed : c <= store.issued
    BY <1>0 DEF Fits, DisplayedCovered
  <2>2. displayed \in SUBSET Codes
    BY <1>0 DEF BrowserType
  <2>3. QED
    BY <1>0, <2>1, <2>2, SectionStaysTrue DEF Fits, SectionsTrue
<1>6. QED
  BY <1>1, <1>2, <1>3, <1>4, <1>5 DEF Fits

(* How a request may change in a step: only what its section waits for,    *)
(* and an answer that is true.  Or it is new, and carries today's cookie.  *)
Continues(r) ==
  /\ request[r] # None
  /\ request'[r].kind = request[r].kind
  /\ request'[r].section = request[r].section
  /\ request'[r].owner = request[r].owner
  /\ request'[r].carried = request[r].carried
  /\ \/ request'[r].answer = request[r].answer
     \/ AnswerTrue(store', now', request'[r])
  /\ Shows(request'[r]) =>
       /\ Shows(request[r])
       /\ section'[request[r].section].account = section[request[r].section].account

Starts(r) ==
  /\ request'[r].carried = cookie
  /\ request'[r].answer = None
  /\ Shows(request'[r]) => section'[request'[r].section].account = request'[r].owner

(* A step that leaves the cookie and the screens' history alone keeps the  *)
(* invariant if the store evolves, requests continue or start, and the     *)
(* sections show what is true.                                             *)
LEMMA QuietStep ==
  ASSUME PairingInv, Inv', Evolves(store, store'), now <= now', BrowserType',
         cookie' = cookie, displayed' = displayed, overtaken' = overtaken,
         \A r \in Requests : request'[r] # None => Continues(r) \/ Starts(r),
         \A sec \in Sections : SectionTrue(store', displayed, section'[sec])
  PROVE  PairingInv'
<1>0. /\ now' \in Nat /\ StoreInv(store', now') /\ store' \in StoreType
      /\ BrowserType /\ request' \in [Requests -> RequestRecord \cup {None}]
  BY DEF Inv, StoreInv, PairingInv, BrowserType
<1>f. Fits(store', now')
  BY <1>0, StillFits
<1>1. CookieTrue(store)'
  BY <1>f DEF Fits, CookieTrue
<1>2. RequestsTrue(store, now)'
  <2> SUFFICES ASSUME NEW r \in Requests, request'[r] # None
               PROVE  RequestTrue(store', now', request'[r])
    BY DEF RequestsTrue
  <2>1. CASE Starts(r)
    BY <2>1, <1>f DEF Starts, RequestTrue, Fits, CookieTrue
  <2>2. CASE Continues(r)
    <3>1. request[r] # None /\ RequestTrue(store', now', request[r])
      BY <2>2, <1>f DEF Fits, RequestsTrue, Continues
    <3>2. request'[r].carried # None => ProofTrue(store', request'[r].carried)
      BY <2>2, <3>1 DEF Continues, RequestTrue
    <3>3. CASE request'[r].answer = request[r].answer
      <4>1. /\ request'[r].kind = request[r].kind /\ request'[r].owner = request[r].owner
            /\ request'[r].carried = request[r].carried
        BY <2>2 DEF Continues
      <4>2. AnswerTrue(store', now', request[r]) => AnswerTrue(store', now', request'[r])
        BY <4>1, <3>3 DEF AnswerTrue, CodeTrue, Behind
      <4>3. QED
        BY <3>1, <3>2, <3>3, <4>2 DEF RequestTrue
    <3>4. CASE AnswerTrue(store', now', request'[r])
      BY <3>2, <3>4 DEF RequestTrue
    <3>5. QED
      BY <2>2, <3>3, <3>4 DEF Continues
  <2>3. QED
    BY <2>1, <2>2
<1>3. CarriedCovered(store, now)'
  <2> SUFFICES ASSUME NEW r \in Requests, request'[r] # None, request'[r].carried # None,
                      Usable(store', request'[r].carried.grant, now')
               PROVE  Covered(request'[r].carried.grant)
    BY DEF CarriedCovered, Covered
  <2>1. CASE Starts(r)
    BY <2>1 DEF Starts, Covered
  <2>2. CASE Continues(r)
    BY <2>2, <1>f DEF Continues, Fits, CarriedCovered
  <2>3. QED
    BY <2>1, <2>2
<1>4. DisplayedCovered(store, now)'
  BY <1>f DEF Fits, DisplayedCovered, Covered
<1>5. SectionsTrue(store)'
  BY DEF SectionsTrue
<1>6. WaitedFor'
  <2> SUFFICES ASSUME NEW r \in Requests, request'[r] # None, Shows(request'[r])
               PROVE  section'[request'[r].section].account = request'[r].owner
    BY DEF WaitedFor, Shows
  <2>1. CASE Starts(r)
    BY <2>1 DEF Starts
  <2>2. CASE Continues(r)
    BY <2>2 DEF Continues, PairingInv, WaitedFor
  <2>3. QED
    BY <2>1, <2>2
<1>7. QED
  BY <1>1, <1>2, <1>3, <1>4, <1>5, <1>6 DEF PairingInv, Fits

-----------------------------------------------------------------------------
(* The server's steps.                                                     *)

(* Answering a request keeps the invariant if the answer is true.          *)
LEMMA ServeInv ==
  ASSUME PairingInv, NEW r \in Requests, Waiting(r), NEW n, NEW a \in Answer, Serve(r, n, a),
         StoreInv(n, now), Evolves(store, n),
         AnswerTrue(n, now, [request[r] EXCEPT !.answer = a])
  PROVE  PairingInv'
<1>0. /\ now \in Nat /\ BrowserType /\ Fits(store, now)
      /\ request[r] # None /\ request[r] \in RequestRecord
  BY DEF PairingInv, Inv, BrowserType, Waiting
<1>1. /\ store' = n /\ now' = now /\ cookie' = cookie /\ section' = section /\ sent' = sent
      /\ displayed' = displayed /\ overtaken' = overtaken
      /\ request' = [request EXCEPT ![r].answer = a]
  BY DEF Serve
<1>2. /\ request'[r] = [request[r] EXCEPT !.answer = a]
      /\ \A q \in Requests : q # r => request'[q] = request[q]
  BY <1>0, <1>1 DEF BrowserType
<1>3. [request[r] EXCEPT !.answer = a] \in RequestRecord
  BY <1>0 DEF RequestRecord
<1>4. BrowserType'
  BY <1>0, <1>1, <1>3 DEF BrowserType
<1>5. Inv' /\ now <= now'
  BY <1>0, <1>1 DEF Inv
<1>6. Continues(r)
  <2>1. /\ request'[r].kind = request[r].kind /\ request'[r].section = request[r].section
        /\ request'[r].owner = request[r].owner /\ request'[r].carried = request[r].carried
        /\ request'[r].wanted = request[r].wanted
    BY <1>0, <1>2 DEF RequestRecord
  <2>2. QED
    BY <2>1, <1>0, <1>1, <1>2 DEF Continues, Shows
<1>7. \A q \in Requests : request'[q] # None => Continues(q)
  BY <1>1, <1>2, <1>6 DEF Continues, Shows
<1>8. \A sec \in Sections : SectionTrue(store', displayed, section'[sec])
  BY <1>0, <1>1, StillFits DEF Fits, SectionsTrue
<1>9. QED
  BY <1>1, <1>4, <1>5, <1>7, <1>8, QuietStep

(* The server learns from a request in flight only what is true.           *)
LEMMA CarriedTrue ==
  ASSUME PairingInv, NEW r \in Requests, Waiting(r)
  PROVE  /\ now \in Nat /\ StoreInv(store, now) /\ store \in StoreType
         /\ request[r] # None /\ request[r] \in RequestRecord
         /\ request[r].carried \in CookieType /\ request[r].owner \in Owners
         /\ request[r].carried # None =>
              ProofTrue(store, request[r].carried) /\ request[r].carried.grant \in Grants
BY RequestFields DEF PairingInv, Inv, StoreInv, BrowserType, Waiting, Fits, RequestsTrue, RequestTrue

(* There is a grant id left to mint.                                       *)
LEMMA NewGrantIsNew ==
  ASSUME store \in StoreType, CanStash
  PROVE  NewGrant \in Grants \ store.minted
BY DEF CanStash, NewGrant, StoreType

(* The proof of a new step-up, field by field.                             *)
LEMMA NewProof ==
  ASSUME NEW g \in Grants, NEW o \in Owners, NEW t \in Nat
  PROVE  /\ ProofOf(g, o, t) \in Proof /\ ProofOf(g, o, t) \notin {None, Kept}
         /\ ProofOf(g, o, t).grant = g /\ ProofOf(g, o, t).owner = o
         /\ ProofOf(g, o, t).createdAt = t
BY Markers DEF ProofOf, Proof, Times

(* The answer with a code is well formed: its grant still has time.        *)
LEMMA CodeReplyType ==
  ASSUME now \in Nat, NEW s, NextCode(s) \in Codes, NEW g,
         s.grants[g].expiresAt \in Nat, s.grants[g].expiresAt > now,
         NEW k \in CookieType \cup {Kept}
  PROVE  CodeReply(s, g, k) \in Answer
<1>1. CodeExpiry(s, g, now) - now \in Nat
  BY TTLAssumption DEF CodeExpiry, Earlier
<1>2. QED
  BY <1>1 DEF CodeReply, Answer, Results, Times

(* So is an answer without.                                                *)
LEMMA ReplyType ==
  ASSUME NEW result \in Results, NEW k \in CookieType \cup {Kept}
  PROVE  Reply(result, k) \in Answer
BY DEF Reply, Answer, Times

(* pair/create with a password.                                            *)
LEMMA ServePasswordInv ==
  ASSUME PairingInv, NEW r \in Requests, ServePassword(r)
  PROVE  PairingInv'
<1> DEFINE q == request[r]
           g == NewGrant
           m == StepUp(store, q.carried, g, q.owner, now)
           n == CreateCode(m, g, q.owner, now)
           k == ProofOf(g, q.owner, now)
           a == CodeReply(m, g, k)
<1>1. Waiting(r) /\ q.kind = "password" /\ CanStash /\ store.issued < MaxCodes /\ Serve(r, n, a)
  BY DEF ServePassword
<1>2. /\ now \in Nat /\ StoreInv(store, now) /\ store \in StoreType
      /\ q \in RequestRecord /\ q.carried \in CookieType /\ q.owner \in Owners
      /\ q.carried # None => ProofTrue(store, q.carried) /\ q.carried.grant \in Grants
  BY <1>1, CarriedTrue
<1>3. g \in Grants \ store.minted
  BY <1>1, <1>2, NewGrantIsNew
<1>4. /\ k \in Proof /\ k \notin {None, Kept}
      /\ k.grant = g /\ k.owner = q.owner /\ k.createdAt = now
  BY <1>2, <1>3, NewProof
<1> HIDE DEF q, g, k
<1>5. /\ StoreInv(m, now) /\ Evolves(store, m) /\ m.minted = store.minted \cup {g}
      /\ m.issued = store.issued
      /\ m.grants[g].owner = q.owner /\ m.grants[g].expiresAt = now + GrantTTL
      /\ IsAvailable(m, g, q.owner, now)
      /\ q.carried # None => ~ Usable(m, q.carried.grant, now)
  BY <1>2, <1>3, StepUpEvolves
<1> HIDE DEF m
<1>6. m \in StoreType
  BY <1>5 DEF StoreInv
<1>7. /\ Evolves(m, n) /\ n.issued = NextCode(m) /\ NextCode(m) \in Codes
      /\ n.codes[NextCode(m)].grantId = g
  BY <1>1, <1>2, <1>3, <1>5, <1>6, CreateEvolves
<1>8. StoreInv(n, now)
  BY <1>1, <1>2, <1>3, <1>5, CreateInv
<1> HIDE DEF n
<1>9. n \in StoreType
  BY <1>8 DEF StoreInv
<1>10. Evolves(store, n)
  BY <1>2, <1>5, <1>6, <1>7, <1>9, EvolvesOn
<1>11. a \in Answer
  BY <1>2, <1>3, <1>4, <1>5, <1>7, CodeReplyType, TTLAssumption DEF CookieType
<1>12. a.result = "code" /\ a.code = NextCode(m) /\ a.cookie = k
  BY DEF CodeReply
<1> HIDE DEF a
<1> DEFINE p == [q EXCEPT !.answer = a]
<1>13. /\ p.answer = a /\ p.kind = "password" /\ p.carried = q.carried /\ p.owner = q.owner
  BY <1>1, <1>2 DEF RequestRecord
<1> HIDE DEF p
<1>14. ProofTrue(n, k)
  <2>1. ProofTrue(m, k)
    BY <1>3, <1>4, <1>5 DEF ProofTrue
  <2>2. QED
    BY <2>1, <1>7, ProofStaysTrue
<1>15. q.carried # None => ~ Usable(n, q.carried.grant, now)
  <2>1. ASSUME q.carried # None
        PROVE  ~ Usable(n, q.carried.grant, now)
    <3>1. q.carried.grant \in m.minted
      BY <2>1, <1>2, <1>5 DEF ProofTrue
    <3>2. QED
      BY <2>1, <3>1, <1>2, <1>5, <1>6, <1>7, <1>9, UsableBefore
  <2>2. QED
    BY <2>1
<1>16. CodeTrue(n, p)
  <2>1. Behind(p) = k
    BY <1>4, <1>12, <1>13 DEF Behind
  <2>2. NextCode(m) <= n.issued
    BY <1>7 DEF Codes
  <2>3. QED
    BY <2>1, <2>2, <1>4, <1>7, <1>12, <1>13 DEF CodeTrue
<1>17. AnswerTrue(n, now, p)
  BY <1>12, <1>13, <1>14, <1>15, <1>16 DEF AnswerTrue
<1>18. QED
  BY <1>1, <1>8, <1>10, <1>11, <1>17, ServeInv DEF p, q

(* reauth/sso/complete.                                                    *)
LEMMA ServeSsoInv ==
  ASSUME PairingInv, NEW r \in Requests, ServeSso(r)
  PROVE  PairingInv'
<1> DEFINE q == request[r]
           g == NewGrant
           n == StepUp(store, q.carried, g, q.owner, now)
           k == ProofOf(g, q.owner, now)
           a == Reply("done", k)
<1>1. Waiting(r) /\ CanStash /\ Serve(r, n, a)
  BY DEF ServeSso
<1>2. /\ now \in Nat /\ StoreInv(store, now) /\ store \in StoreType
      /\ q \in RequestRecord /\ q.carried \in CookieType /\ q.owner \in Owners
      /\ q.carried # None => ProofTrue(store, q.carried) /\ q.carried.grant \in Grants
  BY <1>1, CarriedTrue
<1>3. g \in Grants \ store.minted
  BY <1>1, <1>2, NewGrantIsNew
<1>4. /\ k \in Proof /\ k \notin {None, Kept}
      /\ k.grant = g /\ k.owner = q.owner /\ k.createdAt = now
  BY <1>2, <1>3, NewProof
<1> HIDE DEF q, g, k
<1>5. /\ StoreInv(n, now) /\ Evolves(store, n) /\ n.minted = store.minted \cup {g}
      /\ n.grants[g].owner = q.owner /\ n.grants[g].expiresAt = now + GrantTTL
      /\ q.carried # None => ~ Usable(n, q.carried.grant, now)
  BY <1>2, <1>3, StepUpEvolves
<1> HIDE DEF n
<1>6. a \in Answer /\ a.result = "done" /\ a.cookie = k
  BY <1>4, ReplyType DEF Reply, Results, CookieType
<1> HIDE DEF a
<1> DEFINE p == [q EXCEPT !.answer = a]
<1>7. p.answer = a /\ p.carried = q.carried
  BY <1>2 DEF RequestRecord
<1> HIDE DEF p
<1>8. ProofTrue(n, k)
  BY <1>3, <1>4, <1>5 DEF ProofTrue
<1>9. AnswerTrue(n, now, p)
  BY <1>5, <1>6, <1>7, <1>8 DEF AnswerTrue
<1>10. QED
  BY <1>1, <1>5, <1>6, <1>9, ServeInv DEF p, q

(* pair/create without a password.                                         *)
LEMMA ServeAgainInv ==
  ASSUME PairingInv, NEW r \in Requests, ServeAgain(r)
  PROVE  PairingInv'
<1> DEFINE q == request[r]
           g == q.carried.grant
<1>1. Waiting(r) /\ q.kind \in {"again", "resume"}
  BY DEF ServeAgain
<1>2. /\ now \in Nat /\ StoreInv(store, now) /\ store \in StoreType
      /\ q \in RequestRecord /\ q.carried \in CookieType /\ q.owner \in Owners
      /\ q.carried # None => ProofTrue(store, q.carried) /\ q.carried.grant \in Grants
  BY <1>1, CarriedTrue
<1>3. CASE MayShowAgain(q.carried, q.owner)
  <2> DEFINE n == CreateCode(store, g, q.carried.owner, now)
             a == CodeReply(store, g, Kept)
             p == [q EXCEPT !.answer = a]
  <2>1. store.issued < MaxCodes /\ Serve(r, n, a)
    BY <1>3 DEF ServeAgain
  <2>2. /\ q.carried # None /\ q.carried.owner = q.owner
        /\ IsAvailable(store, g, q.carried.owner, now)
    BY <1>3 DEF MayShowAgain, Live
  <2>3. g \in Grants
    BY <1>2, <2>2
  <2>4. store.grants[g].expiresAt \in Nat /\ store.grants[g].expiresAt > now
    <3>1. Held(store, g) /\ store.grants[g].expiresAt > now
      BY <1>2, <2>2, <2>3, SweepGrants DEF IsAvailable
    <3>2. QED
      BY <1>2, <2>3, <3>1 DEF Held, Known, StoreType, GrantRecord, Times
  <2> HIDE DEF g
  <2>5. /\ Evolves(store, n) /\ n.issued = NextCode(store) /\ NextCode(store) \in Codes
        /\ n.codes[NextCode(store)].grantId = g
    BY <1>2, <2>1, <2>2, <2>3, CreateEvolves
  <2>6. StoreInv(n, now)
    BY <1>2, <2>1, <2>2, <2>3, CreateInv
  <2> HIDE DEF n
  <2>7. a \in Answer /\ a.result = "code" /\ a.code = NextCode(store) /\ a.cookie = Kept
    BY <1>2, <2>4, <2>5, CodeReplyType DEF CodeReply
  <2> HIDE DEF a
  <2>8. p.answer = a /\ p.kind = q.kind /\ p.carried = q.carried /\ p.owner = q.owner
    BY <1>2 DEF RequestRecord
  <2> HIDE DEF p
  <2>9. NextCode(store) <= n.issued
    BY <2>5 DEF Codes
  <2>10. Behind(p) = q.carried
    BY <2>7, <2>8 DEF Behind
  <2>11. CodeTrue(n, p)
    BY <1>1, <2>2, <2>5, <2>7, <2>8, <2>9, <2>10 DEF CodeTrue, g
  <2>12. AnswerTrue(n, now, p)
    BY <2>7, <2>8, <2>11, Markers DEF AnswerTrue
  <2>13. QED
    BY <1>1, <2>1, <2>5, <2>6, <2>7, <2>12, ServeInv DEF p
<1>4. CASE ~ MayShowAgain(q.carried, q.owner)
  <2> DEFINE n == Sweep(store, now)
             a == Reply("reauth_required", Kept)
             p == [q EXCEPT !.answer = a]
  <2>1. Serve(r, n, a)
    BY <1>4 DEF ServeAgain
  <2>2. StoreInv(n, now) /\ Evolves(store, n)
    BY <1>2, SweepInv, SweepEvolves
  <2>3. a \in Answer /\ a.result = "reauth_required" /\ a.cookie = Kept
    BY ReplyType DEF Reply, Results
  <2> HIDE DEF a, n
  <2>4. p.answer = a
    BY <1>2 DEF RequestRecord
  <2>5. AnswerTrue(n, now, p)
    BY <2>3, <2>4, Markers DEF AnswerTrue
  <2>6. QED
    BY <1>1, <2>1, <2>2, <2>3, <2>5, ServeInv
<1>5. QED
  BY <1>3, <1>4

(* The session route forgets a proof.                                      *)
LEMMA ServeSignOutInv ==
  ASSUME PairingInv, NEW r \in Requests, ServeSignOut(r)
  PROVE  PairingInv'
<1> DEFINE q == request[r]
           n == ClearProof(store, q.kind, q.carried, q.owner, now)
           k == IF Clears(q.kind, q.carried, q.owner, now) THEN None ELSE Kept
           a == Reply("done", k)
           p == [q EXCEPT !.answer = a]
<1>1. Waiting(r) /\ Serve(r, n, a)
  BY DEF ServeSignOut
<1>2. /\ now \in Nat /\ StoreInv(store, now) /\ store \in StoreType
      /\ q \in RequestRecord /\ q.carried \in CookieType
      /\ q.carried # None => ProofTrue(store, q.carried)
  BY <1>1, CarriedTrue
<1>3. /\ StoreInv(n, now) /\ Evolves(store, n)
      /\ Clears(q.kind, q.carried, q.owner, now) => ~ Usable(n, q.carried.grant, now)
  BY <1>2, ClearEvolves
<1>4. /\ k \in {None, Kept}
      /\ k # Kept => Clears(q.kind, q.carried, q.owner, now)
  OBVIOUS
<1> HIDE DEF n, k
<1>5. a \in Answer /\ a.result = "done" /\ a.cookie = k
  BY <1>4, ReplyType DEF Reply, Results, CookieType
<1> HIDE DEF a
<1>6. p.answer = a /\ p.carried = q.carried
  BY <1>2 DEF RequestRecord
<1> HIDE DEF p
<1>7. AnswerTrue(n, now, p)
  BY <1>3, <1>4, <1>5, <1>6, Markers DEF AnswerTrue
<1>8. QED
  BY <1>1, <1>3, <1>5, <1>7, ServeInv DEF p

-----------------------------------------------------------------------------
(* The browser's steps.                                                    *)

(* A section that shows no code and no success shows nothing untrue.       *)
Says(x) == x.phase \in {"code", "redeemed"}

(* A step within the browser that shows no new code.                       *)
LEMMA QuietBrowser ==
  ASSUME PairingInv, store' = store, now' = now, cookie' = cookie,
         displayed' = displayed, overtaken' = overtaken,
         sent' \in 0 .. MaxSent,
         section' \in [Sections -> SectionRecord],
         request' \in [Requests -> RequestRecord \cup {None}],
         \A r \in Requests : request'[r] # None => Continues(r) \/ Starts(r),
         \A sec \in Sections : section'[sec] = section[sec] \/ ~ Says(section'[sec])
  PROVE  PairingInv'
<1>1. Inv' /\ Evolves(store, store') /\ now <= now' /\ BrowserType'
  BY EvolvesSelf DEF PairingInv, Inv, StoreInv, BrowserType
<1>2. \A sec \in Sections : SectionTrue(store', displayed, section'[sec])
  BY DEF PairingInv, Fits, SectionsTrue, SectionTrue, Says
<1>3. QED
  BY <1>1, <1>2, QuietStep

(* What making a section's requests unwanted does to each.                 *)
LEMMA UnwantedRequests ==
  ASSUME BrowserType, NEW sec \in Sections
  PROVE  /\ Unwanted(sec) \in [Requests -> RequestRecord \cup {None}]
         /\ \A q \in Requests :
              /\ request[q] = None => Unwanted(sec)[q] = None
              /\ request[q] # None =>
                   /\ Unwanted(sec)[q] \in RequestRecord
                   /\ Unwanted(sec)[q].kind = request[q].kind
                   /\ Unwanted(sec)[q].section = request[q].section
                   /\ Unwanted(sec)[q].owner = request[q].owner
                   /\ Unwanted(sec)[q].carried = request[q].carried
                   /\ Unwanted(sec)[q].answer = request[q].answer
                   /\ Unwanted(sec)[q].wanted =>
                        request[q].wanted /\ request[q].section # sec
<1>1. \A q \in Requests : request[q] \in RequestRecord \cup {None}
  BY DEF BrowserType
<1>2. \A q \in Requests : Unwanted(sec)[q] =
        IF request[q] # None /\ request[q].section = sec THEN [request[q] EXCEPT !.wanted = FALSE]
        ELSE request[q]
  BY DEF Unwanted
<1>3. \A x \in RequestRecord :
        /\ [x EXCEPT !.wanted = FALSE] \in RequestRecord
        /\ [x EXCEPT !.wanted = FALSE].kind = x.kind
        /\ [x EXCEPT !.wanted = FALSE].section = x.section
        /\ [x EXCEPT !.wanted = FALSE].owner = x.owner
        /\ [x EXCEPT !.wanted = FALSE].carried = x.carried
        /\ [x EXCEPT !.wanted = FALSE].answer = x.answer
        /\ ~ [x EXCEPT !.wanted = FALSE].wanted
  BY DEF RequestRecord
<1>4. \A q \in Requests : Unwanted(sec)[q] \in RequestRecord \cup {None}
  BY <1>1, <1>2, <1>3
<1>5. Unwanted(sec) \in [Requests -> RequestRecord \cup {None}]
  BY <1>4 DEF Unwanted
<1>6. \A q \in Requests : request[q] = None => Unwanted(sec)[q] = None
  BY <1>2
<1>7. ASSUME NEW q \in Requests, request[q] # None
      PROVE  /\ Unwanted(sec)[q] \in RequestRecord
             /\ Unwanted(sec)[q].kind = request[q].kind
             /\ Unwanted(sec)[q].section = request[q].section
             /\ Unwanted(sec)[q].owner = request[q].owner
             /\ Unwanted(sec)[q].carried = request[q].carried
             /\ Unwanted(sec)[q].answer = request[q].answer
             /\ Unwanted(sec)[q].wanted => request[q].wanted /\ request[q].section # sec
  <2>1. request[q] \in RequestRecord
    BY <1>1, <1>7
  <2>2. CASE request[q].section = sec
    <3>1. Unwanted(sec)[q] = [request[q] EXCEPT !.wanted = FALSE]
      BY <1>2, <1>7, <2>2
    <3>2. QED
      BY <3>1, <2>1, <1>3
  <2>3. CASE request[q].section # sec
    BY <1>2, <2>1, <2>3
  <2>4. QED
    BY <2>2, <2>3
<1>8. QED
  BY <1>5, <1>6, <1>7

(* A section that sends a request, showing the same account or, signing    *)
(* out, any other.                                                         *)
LEMMA SendInv ==
  ASSUME PairingInv, NEW r \in Requests, NEW sec \in Sections, NEW kind \in Kinds,
         Send(r, sec, kind),
         section' \in [Sections -> SectionRecord],
         \A x \in Sections : section'[x] = section[x] \/ (x = sec /\ ~ Says(section'[x])),
         kind \in {"password", "again", "resume"} => section'[sec].account = section[sec].account
  PROVE  PairingInv'
<1> DEFINE new == [kind |-> kind, section |-> sec, owner |-> section[sec].account,
                   carried |-> cookie, wanted |-> TRUE, answer |-> None]
<1>0. BrowserType
  BY DEF PairingInv
<1>1. /\ request' = Sent(r, sec, kind) /\ request[r] = None
      /\ sent < MaxSent /\ sent' = sent + 1
      /\ store' = store /\ now' = now /\ cookie' = cookie
      /\ displayed' = displayed /\ overtaken' = overtaken
  BY DEF Send, FreeRequests
<1>2. sent' \in 0 .. MaxSent
  BY <1>0, <1>1, PairingAssumption DEF BrowserType
<1>3. new \in RequestRecord
  BY <1>0 DEF BrowserType, SectionRecord, RequestRecord
<1>u. /\ Unwanted(sec) \in [Requests -> RequestRecord \cup {None}]
      /\ \A q \in Requests :
           /\ request[q] = None => Unwanted(sec)[q] = None
           /\ request[q] # None =>
                /\ Unwanted(sec)[q].kind = request[q].kind
                /\ Unwanted(sec)[q].section = request[q].section
                /\ Unwanted(sec)[q].owner = request[q].owner
                /\ Unwanted(sec)[q].carried = request[q].carried
                /\ Unwanted(sec)[q].answer = request[q].answer
                /\ Unwanted(sec)[q].wanted => request[q].wanted /\ request[q].section # sec
  BY <1>0, UnwantedRequests
<1>4. request' = [Unwanted(sec) EXCEPT ![r] = new]
  BY <1>1 DEF Sent
<1>5. /\ request' \in [Requests -> RequestRecord \cup {None}]
      /\ request'[r] = new
      /\ \A q \in Requests : q # r => request'[q] = Unwanted(sec)[q]
  BY <1>3, <1>4, <1>u
<1>6. Starts(r)
  <2>1. /\ request'[r].carried = cookie /\ request'[r].answer = None
        /\ request'[r].kind = kind /\ request'[r].section = sec
        /\ request'[r].owner = section[sec].account
    BY <1>5
  <2>2. QED
    BY <2>1 DEF Starts, Shows
<1>7. ASSUME NEW q \in Requests, q # r, request'[q] # None
      PROVE  Continues(q)
  <2>1. request[q] # None /\ request[q] \in RequestRecord
    BY <1>0, <1>5, <1>7, <1>u DEF BrowserType
  <2>2. request[q].section \in Sections
    BY <2>1, RequestFields
  <2>3. /\ request'[q].kind = request[q].kind /\ request'[q].section = request[q].section
        /\ request'[q].owner = request[q].owner /\ request'[q].carried = request[q].carried
        /\ request'[q].answer = request[q].answer
        /\ request'[q].wanted => request[q].wanted /\ request[q].section # sec
    BY <1>5, <1>7, <1>u, <2>1
  <2>4. QED
    BY <2>1, <2>2, <2>3 DEF Continues, Shows
<1>8. QED
  BY <1>1, <1>2, <1>5, <1>6, <1>7, QuietBrowser

(* The records a section changes to.                                       *)
LEMMA SectionRecords ==
  ASSUME BrowserType, NEW sec \in Sections, NEW o \in Owners
  PROVE  /\ section[sec] \in SectionRecord
         /\ Blank(sec) \in SectionRecord /\ ~ Says(Blank(sec))
         /\ Blank(sec).account = section[sec].account
         /\ BlankFor(sec, o) \in SectionRecord /\ ~ Says(BlankFor(sec, o))
         /\ AtProvider(sec) \in SectionRecord /\ ~ Says(AtProvider(sec))
         /\ AtProvider(sec).account = section[sec].account
<1>1. section[sec] \in SectionRecord
  BY DEF BrowserType
<1>2. Blank(sec) \in SectionRecord /\ Blank(sec).phase = "idle"
      /\ Blank(sec).account = section[sec].account
  BY <1>1 DEF Blank, SectionRecord, Times
<1>3. BlankFor(sec, o) \in SectionRecord /\ BlankFor(sec, o).phase = "idle"
  BY <1>2 DEF BlankFor, SectionRecord
<1>4. AtProvider(sec) \in SectionRecord /\ AtProvider(sec).phase = "away"
      /\ AtProvider(sec).account = section[sec].account
  BY <1>2 DEF AtProvider, SectionRecord
<1>5. QED
  BY <1>1, <1>2, <1>3, <1>4 DEF Says

(* The five ways a section sends a request.                                *)
LEMMA SendingInv ==
  ASSUME PairingInv, NEW r \in Requests, NEW sec \in Sections,
         \/ SubmitPassword(r, sec) \/ AskAgain(r, sec) \/ Callback(r, sec) \/ Resume(r, sec)
         \/ SignOut(r, sec, "sign_out") \/ SignOut(r, sec, "sign_out_all")
  PROVE  PairingInv'
<1>0. BrowserType /\ section \in [Sections -> SectionRecord]
  BY DEF PairingInv, BrowserType
<1>1. ASSUME NEW kind \in {"password", "again", "resume"}, Send(r, sec, kind), section' = section
      PROVE  PairingInv'
  BY <1>0, <1>1, SendInv DEF Kinds
<1>2. CASE SubmitPassword(r, sec)
  BY <1>1, <1>2 DEF SubmitPassword
<1>3. CASE AskAgain(r, sec)
  BY <1>1, <1>3 DEF AskAgain
<1>4. CASE Resume(r, sec)
  BY <1>1, <1>4 DEF Resume
<1>5. CASE Callback(r, sec)
  <2>1. Send(r, sec, "sso") /\ section' = [section EXCEPT ![sec].phase = "callback"]
    BY <1>5 DEF Callback
  <2>2. section[sec] \in SectionRecord
    BY <1>0
  <2>3. /\ [section[sec] EXCEPT !.phase = "callback"] \in SectionRecord
        /\ [section[sec] EXCEPT !.phase = "callback"].phase = "callback"
    BY <2>2 DEF SectionRecord
  <2>4. /\ section' \in [Sections -> SectionRecord] /\ section'[sec].phase = "callback"
        /\ \A x \in Sections : x # sec => section'[x] = section[x]
    BY <1>0, <2>1, <2>3
  <2>5. QED
    BY <2>1, <2>4, SendInv DEF Says, Kinds
<1>6. ASSUME NEW kind \in {"sign_out", "sign_out_all"}, SignOut(r, sec, kind)
      PROVE  PairingInv'
  <2>1. PICK o \in Owners : section' = [section EXCEPT ![sec] = BlankFor(sec, o)]
    BY <1>6 DEF SignOut
  <2>2. Send(r, sec, kind) /\ kind \in Kinds
    BY <1>6 DEF SignOut, Kinds
  <2>3. /\ section' \in [Sections -> SectionRecord]
        /\ \A x \in Sections : section'[x] = section[x] \/ (x = sec /\ ~ Says(section'[x]))
    BY <1>0, <2>1, SectionRecords
  <2>4. kind \notin {"password", "again", "resume"}
    BY <1>6
  <2>5. QED
    BY <2>2, <2>3, <2>4, SendInv
<1>7. QED
  BY <1>2, <1>3, <1>4, <1>5, <1>6

(* A section goes away, or leaves for the provider: nothing it asked for   *)
(* is waited for any more.                                                 *)
LEMMA LeaveInv ==
  ASSUME PairingInv, NEW sec \in Sections, NEW x \in SectionRecord, ~ Says(x),
         section' = [section EXCEPT ![sec] = x], request' = Unwanted(sec),
         UNCHANGED <<store, now, cookie, sent, displayed, overtaken>>
  PROVE  PairingInv'
<1>0. BrowserType /\ section \in [Sections -> SectionRecord] /\ sent \in 0 .. MaxSent
  BY DEF PairingInv, BrowserType
<1>1. /\ section' \in [Sections -> SectionRecord] /\ section'[sec] = x
      /\ \A y \in Sections : y # sec => section'[y] = section[y]
  BY <1>0
<1>2. /\ request' \in [Requests -> RequestRecord \cup {None}]
      /\ \A q \in Requests :
           /\ request[q] = None => request'[q] = None
           /\ request[q] # None =>
                /\ request'[q].kind = request[q].kind
                /\ request'[q].section = request[q].section
                /\ request'[q].owner = request[q].owner
                /\ request'[q].carried = request[q].carried
                /\ request'[q].answer = request[q].answer
                /\ request'[q].wanted => request[q].wanted /\ request[q].section # sec
  BY <1>0, UnwantedRequests
<1>3. ASSUME NEW q \in Requests, request'[q] # None
      PROVE  Continues(q)
  <2>1. request[q] # None /\ request[q] \in RequestRecord
    BY <1>0, <1>2, <1>3 DEF BrowserType
  <2>2. request[q].section \in Sections
    BY <2>1, RequestFields
  <2>3. QED
    BY <1>1, <1>2, <2>1, <2>2 DEF Continues, Shows
<1>4. \A y \in Sections : section'[y] = section[y] \/ ~ Says(section'[y])
  BY <1>1
<1>5. QED
  BY <1>0, <1>1, <1>2, <1>3, <1>4, QuietBrowser

(* A request that comes to nothing.                                        *)
LEMMA FailInv ==
  ASSUME PairingInv, NEW r \in Requests, Fail(r) \/ FailToIdle(r)
  PROVE  PairingInv'
<1>0. /\ BrowserType /\ section \in [Sections -> SectionRecord] /\ sent \in 0 .. MaxSent
      /\ request \in [Requests -> RequestRecord \cup {None}]
  BY DEF PairingInv, BrowserType
<1>1. /\ request[r] # None /\ request' = [request EXCEPT ![r] = None]
      /\ UNCHANGED <<store, now, cookie, sent, displayed, overtaken>>
      /\ \/ section' = section
         \/ section' = [section EXCEPT ![request[r].section] = Blank(request[r].section)]
  BY DEF Fail, FailToIdle, Waiting
<1>2. /\ request' \in [Requests -> RequestRecord \cup {None}]
      /\ \A q \in Requests : request'[q] # None => request'[q] = request[q]
  BY <1>0, <1>1
<1>3. request[r].section \in Sections /\ request[r].owner \in Owners
  BY <1>0, <1>1, RequestFields
<1>4. /\ section' \in [Sections -> SectionRecord]
      /\ \A y \in Sections : /\ section'[y] = section[y] \/ ~ Says(section'[y])
                             /\ section'[y].account = section[y].account
  <2> DEFINE sec == request[r].section
  <2>1. Blank(sec) \in SectionRecord /\ ~ Says(Blank(sec))
        /\ Blank(sec).account = section[sec].account
    BY <1>0, <1>3, SectionRecords
  <2> HIDE DEF sec
  <2>2. CASE section' = section
    BY <1>0, <2>2
  <2>3. CASE section' = [section EXCEPT ![sec] = Blank(sec)]
    BY <1>0, <1>3, <2>1, <2>3
  <2>4. QED
    BY <1>1, <2>2, <2>3 DEF sec
<1>5. ASSUME NEW q \in Requests, request'[q] # None
      PROVE  Continues(q)
  <2>1. request'[q] = request[q] /\ request[q] \in RequestRecord
    BY <1>0, <1>2, <1>5
  <2>2. request[q].section \in Sections
    BY <2>1, RequestFields
  <2>3. QED
    BY <1>4, <1>5, <2>1, <2>2 DEF Continues
<1>6. QED
  BY <1>0, <1>1, <1>2, <1>4, <1>5, QuietBrowser

(* The countdown, and the poll: "linked" is shown only if the store says   *)
(* that code was redeemed.                                                 *)
LEMMA CountdownInv ==
  ASSUME PairingInv, NEW sec \in Sections, Countdown(sec)
  PROVE  PairingInv'
<1>0. /\ BrowserType /\ section \in [Sections -> SectionRecord] /\ sent \in 0 .. MaxSent
      /\ request \in [Requests -> RequestRecord \cup {None}] /\ section[sec] \in SectionRecord
  BY DEF PairingInv, BrowserType
<1>1. /\ section' = [section EXCEPT ![sec].phase = "expired"]
      /\ UNCHANGED <<store, now, cookie, request, sent, displayed, overtaken>>
  BY DEF Countdown
<1>2. /\ [section[sec] EXCEPT !.phase = "expired"] \in SectionRecord
      /\ [section[sec] EXCEPT !.phase = "expired"].phase = "expired"
      /\ [section[sec] EXCEPT !.phase = "expired"].account = section[sec].account
  BY <1>0 DEF SectionRecord
<1>3. /\ section' \in [Sections -> SectionRecord] /\ ~ Says(section'[sec])
      /\ \A y \in Sections : y # sec => section'[y] = section[y]
      /\ \A y \in Sections : section'[y].account = section[y].account
  BY <1>0, <1>1, <1>2 DEF Says
<1>4. ASSUME NEW q \in Requests, request'[q] # None
      PROVE  Continues(q)
  <2>1. request'[q] = request[q] /\ request[q] \in RequestRecord
    BY <1>0, <1>1, <1>4
  <2>2. request[q].section \in Sections
    BY <2>1, RequestFields
  <2>3. QED
    BY <1>3, <1>4, <2>1, <2>2 DEF Continues
<1>5. QED
  BY <1>0, <1>1, <1>3, <1>4, QuietBrowser

(* The poll sweeps the store and asks it about the code on screen.         *)
LEMMA PollInv ==
  ASSUME PairingInv, NEW sec \in Sections, Poll(sec)
  PROVE  PairingInv'
<1> DEFINE code == section[sec].code
           phase == PhaseFor(PairingStatus(store, code, now))
           sw == Sweep(store, now)
<1>0. /\ BrowserType /\ section \in [Sections -> SectionRecord] /\ sent \in 0 .. MaxSent
      /\ request \in [Requests -> RequestRecord \cup {None}] /\ section[sec] \in SectionRecord
      /\ now \in Nat /\ StoreInv(store, now) /\ store \in StoreType /\ Fits(store, now)
  BY DEF PairingInv, BrowserType, Inv, StoreInv
<1>1. /\ section[sec].phase = "code" /\ section' = [section EXCEPT ![sec].phase = phase]
      /\ store' = sw
      /\ UNCHANGED <<now, cookie, request, sent, displayed, overtaken>>
  BY DEF Poll
<1>2. phase \in {"code", "expired", "redeemed"} /\ section'[sec].phase # "code"
  BY DEF PhaseFor, Poll
<1>3. StoreInv(sw, now) /\ Evolves(store, sw)
  BY <1>0, SweepInv, SweepEvolves
<1>4. ASSUME phase = "redeemed"
      PROVE  \E g \in Grants : <<g, code>> \in sw.handed
  <2>1. PairingStatus(store, code, now) = "redeemed"
    BY <1>4 DEF PhaseFor
  <2>2. Known(sw.codes, code) /\ sw.codes[code].state = "redeemed"
    BY <2>1 DEF PairingStatus
  <2>3. code \in Codes
    BY <1>0, <1>1 DEF Fits, SectionsTrue, SectionTrue, BrowserType
  <2>4. <<sw.codes[code].grantId, code>> \in sw.handed
    BY <1>3, <2>2, <2>3 DEF StoreInv, HandedInv
  <2>5. sw.codes[code].grantId \in Grants
    BY <1>3, <2>2, <2>3 DEF StoreInv, StoreType, CodeRecord, Known
  <2>6. QED
    BY <2>4, <2>5
<1> HIDE DEF phase, code, sw
<1>5. /\ [section[sec] EXCEPT !.phase = phase] \in SectionRecord
      /\ [section[sec] EXCEPT !.phase = phase].phase = phase
      /\ [section[sec] EXCEPT !.phase = phase].code = code
      /\ [section[sec] EXCEPT !.phase = phase].account = section[sec].account
  BY <1>0, <1>2 DEF SectionRecord, code
<1>6. /\ section' \in [Sections -> SectionRecord]
      /\ section'[sec] = [section[sec] EXCEPT !.phase = phase]
      /\ \A y \in Sections : y # sec => section'[y] = section[y]
      /\ \A y \in Sections : section'[y].account = section[y].account
  BY <1>0, <1>1, <1>5
<1>7. SectionTrue(sw, displayed, section'[sec])
  BY <1>2, <1>4, <1>5, <1>6 DEF SectionTrue
<1>8. \A y \in Sections : SectionTrue(sw, displayed, section[y])
  BY <1>0, <1>3, StillFits DEF Fits, SectionsTrue
<1>9. \A y \in Sections : SectionTrue(store', displayed, section'[y])
  BY <1>1, <1>6, <1>7, <1>8
<1>10. ASSUME NEW q \in Requests, request'[q] # None
       PROVE  Continues(q)
  <2>1. request'[q] = request[q] /\ request[q] \in RequestRecord
    BY <1>0, <1>1, <1>10
  <2>2. request[q].section \in Sections
    BY <2>1, RequestFields
  <2>3. QED
    BY <1>6, <1>10, <2>1, <2>2 DEF Continues
<1>11. Inv' /\ now <= now' /\ BrowserType' /\ Evolves(store, store')
  BY <1>0, <1>1, <1>3, <1>6 DEF Inv, BrowserType
<1>12. QED
  BY <1>1, <1>9, <1>10, <1>11, QuietStep

-----------------------------------------------------------------------------
(* An answer arrives.                                                      *)

(* What the section shows after an answer: what it showed, or the code of  *)
(* an answer it still waited for.                                          *)
LEMMA ShownAfterTrue ==
  ASSUME PairingInv, NEW r \in Requests, request[r] # None, request[r].answer # None
  PROVE  LET q == request[r]
             x == section[q.section]
             y == [ShownAfter(r) EXCEPT !.resume = FlagAfter(r)]
         IN  /\ y \in SectionRecord
             /\ y.account = x.account
             /\ y.phase = "code" =>
                  \/ x.phase = "code" /\ y.code = x.code
                  \/ Shows(q) /\ q.answer.result = "code" /\ y.code = q.answer.code
             /\ y.phase = "redeemed" => x.phase = "redeemed" /\ y.code = x.code
<1> DEFINE q == request[r]
           x == section[q.section]
           a == q.answer
<1>0. /\ BrowserType /\ q \in RequestRecord /\ q.section \in Sections /\ a \in Answer
      /\ q.wanted \in BOOLEAN /\ x \in SectionRecord /\ now \in Nat
      /\ Blank(q.section) \in SectionRecord /\ ~ Says(Blank(q.section))
      /\ Blank(q.section).account = x.account
      /\ AtProvider(q.section) \in SectionRecord /\ ~ Says(AtProvider(q.section))
      /\ AtProvider(q.section).account = x.account
  <2>1. BrowserType /\ q \in RequestRecord /\ now \in Nat
    BY DEF PairingInv, BrowserType, Inv
  <2>2. /\ q.section \in Sections /\ a \in Answer \cup {None} /\ q.owner \in Owners
        /\ q.wanted \in BOOLEAN
    BY <2>1, RequestFields
  <2>3. QED
    BY <2>1, <2>2, SectionRecords
<1>1. AnswerTrue(store, now, q)
  BY DEF PairingInv, Fits, RequestsTrue, RequestTrue
<1> HIDE DEF q, x, a
<1>2. a.code \in Codes \cup {NoCode} /\ a.expiresIn \in Nat /\ a.result \in Results
  BY <1>0 DEF Answer, Times
<1> DEFINE showing == Showing(q.section, a)
           blank == Blank(q.section)
           asking == [blank EXCEPT !.phase = "password"]
           resuming == [blank EXCEPT !.resume = TRUE]
           shown == ShownOf(q.section, q.kind, a)
<1>3. /\ showing \in SectionRecord /\ showing.phase = "code" /\ showing.code = a.code
      /\ showing.account = x.account
  <2>1. showing = [x EXCEPT !.phase = "code", !.code = a.code, !.expiresAt = now + a.expiresIn]
    BY DEF Showing, x
  <2>2. now + a.expiresIn \in Nat
    BY <1>0, <1>2
  <2>3. QED
    BY <2>1, <2>2, <1>0, <1>2 DEF SectionRecord, Times
<1>4. /\ asking \in SectionRecord /\ asking.phase = "password" /\ asking.account = x.account
      /\ resuming \in SectionRecord /\ resuming.account = x.account
      /\ resuming.phase = blank.phase
  BY <1>0 DEF SectionRecord
<1>5. \/ a.result = "code" /\ shown = showing
      \/ shown \in {asking, resuming, AtProvider(q.section), x}
  BY DEF ShownOf, x
<1> HIDE DEF showing, blank, asking, resuming, shown
<1>6. /\ shown \in SectionRecord /\ shown.account = x.account
      /\ shown.phase = "code" =>
           \/ x.phase = "code" /\ shown.code = x.code
           \/ a.result = "code" /\ shown.code = a.code
      /\ shown.phase = "redeemed" => x.phase = "redeemed" /\ shown.code = x.code
  BY <1>0, <1>3, <1>4, <1>5 DEF Says, blank
<1>7. a.result = "code" => q.kind \in {"password", "again", "resume"}
  BY <1>1 DEF AnswerTrue, CodeTrue, a
<1> DEFINE after == ShownAfter(r)
           flag == FlagAfter(r)
<1>8. after = IF ~ q.wanted THEN x ELSE shown
  BY DEF ShownAfter, q, x, a, shown
<1>9. flag = IF q.wanted /\ q.kind = "resume" THEN FALSE ELSE after.resume
  BY DEF FlagAfter, q
<1> HIDE DEF after, flag
<1>10. after \in SectionRecord
  BY <1>0, <1>6, <1>8
<1>11. flag \in BOOLEAN
  <2>1. after.resume \in BOOLEAN
    BY <1>10 DEF SectionRecord
  <2>2. QED
    BY <2>1, <1>9
<1> DEFINE y == [after EXCEPT !.resume = flag]
<1>12. /\ y \in SectionRecord /\ y.phase = after.phase /\ y.code = after.code
       /\ y.account = after.account
  BY <1>10, <1>11 DEF SectionRecord
<1> HIDE DEF y
<1>13. /\ y.account = x.account
       /\ y.phase = "code" =>
            \/ x.phase = "code" /\ y.code = x.code
            \/ Shows(q) /\ a.result = "code" /\ y.code = a.code
       /\ y.phase = "redeemed" => x.phase = "redeemed" /\ y.code = x.code
  BY <1>0, <1>6, <1>7, <1>8, <1>12 DEF Shows
<1>14. QED
  BY <1>12, <1>13 DEF y, q, x, a, after, flag

(* The answer's cookie replaces what the browser held: either the request  *)
(* carried that very proof, and the server saw to its grant, or the grant  *)
(* counts as overtaken.  Its code is shown only where it is waited for.    *)
LEMMA ArriveInv ==
  ASSUME PairingInv, NEW r \in Requests, Arrive(r)
  PROVE  PairingInv'
<1> DEFINE q == request[r]
           a == q.answer
           new == a.cookie
           y == [ShownAfter(r) EXCEPT !.resume = FlagAfter(r)]
<1>0. /\ now \in Nat /\ StoreInv(store, now) /\ store \in StoreType
      /\ BrowserType /\ Fits(store, now) /\ WaitedFor
      /\ section \in [Sections -> SectionRecord]
      /\ request \in [Requests -> RequestRecord \cup {None}]
  BY DEF PairingInv, Inv, StoreInv, BrowserType
<1>1. /\ q # None /\ a # None
      /\ cookie' = (IF new = Kept THEN cookie ELSE new)
      /\ overtaken' = (IF new # Kept /\ cookie # None /\ cookie # q.carried
                       THEN overtaken \cup {cookie.grant} ELSE overtaken)
      /\ section' = [section EXCEPT ![q.section] = y]
      /\ displayed' = (IF section'[q.section].phase = "code"
                       THEN displayed \cup {section'[q.section].code} ELSE displayed)
      /\ request' = [request EXCEPT ![r] = None]
      /\ store' = store /\ now' = now /\ sent' = sent
  BY DEF Arrive
<1>2. /\ q \in RequestRecord /\ q.section \in Sections /\ a \in Answer
      /\ q.carried \in CookieType /\ q.owner \in Owners
      /\ q.carried # None => q.carried \in Proof /\ q.carried.grant \in Grants
  BY <1>0, <1>1, RequestFields
<1>3. AnswerTrue(store, now, q) /\ RequestTrue(store, now, q)
  BY <1>0, <1>1 DEF Fits, RequestsTrue, RequestTrue
<1>4. /\ y \in SectionRecord
      /\ y.account = section[q.section].account
      /\ y.phase = "code" =>
           \/ section[q.section].phase = "code" /\ y.code = section[q.section].code
           \/ Shows(q) /\ a.result = "code" /\ y.code = a.code
      /\ y.phase = "redeemed" =>
           section[q.section].phase = "redeemed" /\ y.code = section[q.section].code
  BY <1>1, ShownAfterTrue
<1>5. new \in Proof \cup {None, Kept}
  BY <1>2 DEF Answer, CookieType
<1>6. q.carried # None /\ new # Kept => ~ Usable(store, q.carried.grant, now)
  BY <1>3 DEF AnswerTrue
<1>7. a.result = "code" => CodeTrue(store, q)
  BY <1>3 DEF AnswerTrue
<1>8. CookieTrue(store) /\ SectionTrue(store, displayed, section[q.section])
  BY <1>0, <1>2 DEF Fits, SectionsTrue
<1> HIDE DEF y
<1>9. /\ section'[q.section] = y
      /\ \A z \in Sections : z # q.section => section'[z] = section[z]
      /\ \A z \in Sections : section'[z].account = section[z].account
      /\ section' \in [Sections -> SectionRecord]
  BY <1>0, <1>1, <1>2, <1>4
<1>10. \A p \in Requests : request'[p] # None => request'[p] = request[p]
  BY <1>0, <1>1
(* A grant a phone could get stays covered.                                *)
<1>11. ASSUME NEW g, Covered(g), Usable(store, g, now)
       PROVE  CoveredNext(g)
  <2>1. CASE g \in overtaken
    BY <2>1, <1>1 DEF CoveredNext
  <2>2. CASE cookie # None /\ cookie.grant = g
    <3>1. CASE new = Kept
      BY <3>1, <2>2, <1>1 DEF CoveredNext
    <3>2. CASE new # Kept /\ cookie # q.carried
      BY <3>2, <2>2, <1>1 DEF CoveredNext
    <3>3. CASE new # Kept /\ cookie = q.carried
      BY <3>3, <2>2, <1>6, <1>11
    <3>4. QED
      BY <3>1, <3>2, <3>3
  <2>3. QED
    BY <1>11, <2>1, <2>2 DEF Covered
(* The code shown is of a covered grant of the account that is shown.      *)
<1>12. ASSUME y.phase = "code", y.code \notin displayed
       PROVE  /\ y.code \in Codes /\ y.code <= store.issued
              /\ Known(store.codes, y.code) =>
                   store.grants[store.codes[y.code].grantId].owner = y.account
              /\ Known(store.codes, y.code) /\ Usable(store, store.codes[y.code].grantId, now)
                   => CoveredNext(store.codes[y.code].grantId)
  <2>1. Shows(q) /\ a.result = "code" /\ y.code = a.code
    BY <1>4, <1>8, <1>12 DEF SectionTrue
  <2>2. CodeTrue(store, q) /\ y.account = q.owner
    BY <2>1, <1>0, <1>1, <1>4, <1>7 DEF WaitedFor
  <2>3. y.code \in Codes /\ y.code <= store.issued
    BY <2>1, <2>2 DEF CodeTrue
  <2>4. Behind(q) # None /\ Behind(q).owner = q.owner
    BY <2>2 DEF CodeTrue
  <2>5. ProofTrue(store, Behind(q))
    <3>1. CASE new = Kept
      BY <3>1, <2>4, <1>3 DEF Behind, RequestTrue
    <3>2. CASE new # Kept
      BY <3>2, <2>4, <1>3, <1>5 DEF Behind, AnswerTrue
    <3>3. QED
      BY <3>1, <3>2
  <2>6. ASSUME Known(store.codes, y.code)
        PROVE  /\ store.grants[store.codes[y.code].grantId].owner = y.account
               /\ Usable(store, store.codes[y.code].grantId, now)
                    => CoveredNext(store.codes[y.code].grantId)
    <3>1. store.codes[y.code].grantId = Behind(q).grant
      BY <2>1, <2>2, <2>6 DEF CodeTrue
    <3>2. Known(store.grants, Behind(q).grant)
      BY <1>0, <2>3, <2>6, <3>1 DEF StoreInv, RecordsInv
    <3>3. store.grants[Behind(q).grant].owner = y.account
      BY <2>2, <2>4, <2>5, <3>2 DEF ProofTrue
    <3>4. CASE new = Kept
      <4>1. Behind(q) = q.carried
        BY <3>4 DEF Behind
      <4>2. Usable(store, q.carried.grant, now) => Covered(q.carried.grant)
        BY <1>0, <1>1, <2>4, <4>1 DEF Fits, CarriedCovered
      <4>3. QED
        BY <1>11, <3>1, <3>3, <4>1, <4>2
    <3>5. CASE new # Kept
      <4>1. cookie' = Behind(q)
        BY <1>1, <3>5 DEF Behind
      <4>2. QED
        BY <2>4, <3>1, <3>3, <4>1 DEF CoveredNext
    <3>6. QED
      BY <3>4, <3>5
  <2>7. QED
    BY <2>3, <2>6
<1>13. displayed \subseteq displayed' /\ \A c \in displayed' : c \in displayed \/ c = y.code
  BY <1>1, <1>9
<1>14. \A c \in displayed' : c \notin displayed => y.phase = "code" /\ c = y.code
  BY <1>1, <1>9
<1>15. y.phase = "code" => y.code \in displayed'
  BY <1>1, <1>9
<1>16. BrowserType'
  <2>1. cookie' \in CookieType
    BY <1>0, <1>1, <1>5 DEF BrowserType, CookieType
  <2>2. overtaken' \subseteq Grants
    BY <1>0, <1>1 DEF BrowserType, CookieType, Proof
  <2>3. displayed' \subseteq Codes
    BY <1>0, <1>12, <1>14 DEF BrowserType
  <2>4. sent' \in 0 .. MaxSent /\ request' \in [Requests -> RequestRecord \cup {None}]
    BY <1>0, <1>1 DEF BrowserType
  <2>5. QED
    BY <1>9, <2>1, <2>2, <2>3, <2>4 DEF BrowserType
<1>17. CookieTrue(store)'
  <2>1. CASE new = Kept
    BY <2>1, <1>1, <1>8 DEF CookieTrue
  <2>2. CASE new # Kept
    BY <2>2, <1>1, <1>3, <1>5 DEF CookieTrue, AnswerTrue
  <2>3. QED
    BY <2>1, <2>2
<1>18. RequestsTrue(store, now)'
  BY <1>0, <1>1, <1>10 DEF Fits, RequestsTrue
<1>19. CarriedCovered(store, now)'
  <2> SUFFICES ASSUME NEW p \in Requests, request'[p] # None, request'[p].carried # None,
                      Usable(store, request'[p].carried.grant, now)
               PROVE  CoveredNext(request'[p].carried.grant)
    BY <1>1 DEF CarriedCovered, Covered, CoveredNext
  <2>1. request'[p] = request[p]
    BY <1>10
  <2>2. Covered(request[p].carried.grant)
    BY <2>1, <1>0 DEF Fits, CarriedCovered
  <2>3. CoveredNext(request[p].carried.grant)
    BY <2>1, <2>2, <1>11
  <2>4. QED
    BY <2>1, <2>3
<1>20. DisplayedCovered(store, now)'
  <2> SUFFICES ASSUME NEW c \in displayed'
               PROVE  /\ c <= store.issued
                      /\ Known(store.codes, c) /\ Usable(store, store.codes[c].grantId, now)
                           => CoveredNext(store.codes[c].grantId)
    BY <1>1 DEF DisplayedCovered, Covered, CoveredNext
  <2>1. CASE c \in displayed
    BY <2>1, <1>0, <1>11 DEF Fits, DisplayedCovered
  <2>2. CASE c \notin displayed
    BY <2>2, <1>12, <1>14
  <2>3. QED
    BY <2>1, <2>2
<1>21. SectionsTrue(store)'
  <2> SUFFICES ASSUME NEW z \in Sections
               PROVE  SectionTrue(store, displayed', section'[z])
    BY <1>1 DEF SectionsTrue
  <2>1. CASE z # q.section
    <3>1. SectionTrue(store, displayed, section[z])
      BY <1>0 DEF Fits, SectionsTrue
    <3>2. QED
      BY <2>1, <3>1, <1>9, <1>13 DEF SectionTrue
  <2>2. CASE z = q.section
    <3>1. y.phase = "redeemed" => \E g \in Grants : <<g, y.code>> \in store.handed
      BY <1>4, <1>8 DEF SectionTrue
    <3>2. ASSUME y.phase = "code", Known(store.codes, y.code)
          PROVE  store.grants[store.codes[y.code].grantId].owner = y.account
      <4>1. CASE section[q.section].phase = "code" /\ y.code = section[q.section].code
        BY <3>2, <4>1, <1>4, <1>8 DEF SectionTrue
      <4>2. CASE Shows(q) /\ a.result = "code" /\ y.code = a.code
        <5>1. CodeTrue(store, q) /\ y.account = q.owner
          BY <4>2, <1>0, <1>1, <1>4, <1>7 DEF WaitedFor
        <5>2. /\ y.code \in Codes /\ Behind(q) # None /\ Behind(q).owner = q.owner
              /\ store.codes[y.code].grantId = Behind(q).grant
          BY <3>2, <4>2, <5>1 DEF CodeTrue
        <5>3. ProofTrue(store, Behind(q))
          <6>1. CASE new = Kept
            BY <6>1, <5>2, <1>3 DEF Behind, RequestTrue
          <6>2. CASE new # Kept
            BY <6>2, <5>2, <1>3, <1>5 DEF Behind, AnswerTrue
          <6>3. QED
            BY <6>1, <6>2
        <5>4. Known(store.grants, Behind(q).grant)
          BY <1>0, <3>2, <5>2 DEF StoreInv, RecordsInv
        <5>5. QED
          BY <5>1, <5>2, <5>3, <5>4 DEF ProofTrue
      <4>3. QED
        BY <3>2, <4>1, <4>2, <1>4
    <3>3. SectionTrue(store, displayed', y)
      BY <3>1, <3>2, <1>15 DEF SectionTrue
    <3>4. QED
      BY <2>2, <3>3, <1>9
  <2>3. QED
    BY <2>1, <2>2
<1>22. WaitedFor'
  <2> SUFFICES ASSUME NEW p \in Requests, request'[p] # None, Shows(request'[p])
               PROVE  section'[request'[p].section].account = request'[p].owner
    BY DEF WaitedFor, Shows
  <2>1. request'[p] = request[p] /\ request[p] \in RequestRecord
    BY <1>0, <1>10
  <2>2. request[p].section \in Sections
    BY <2>1, RequestFields
  <2>3. QED
    BY <2>1, <2>2, <1>0, <1>9 DEF WaitedFor
<1>23. Inv'
  BY <1>0, <1>1 DEF Inv
<1>24. QED
  BY <1>16, <1>17, <1>18, <1>19, <1>20, <1>21, <1>22, <1>23 DEF PairingInv, Fits

-----------------------------------------------------------------------------
(* A phone scans a code; time passes.                                      *)
LEMMA QuietStore ==
  ASSUME PairingInv, Inv', Evolves(store, store'), now <= now', UNCHANGED browserVars
  PROVE  PairingInv'
<1>1. /\ now' \in Nat /\ StoreInv(store', now') /\ BrowserType
      /\ cookie' = cookie /\ section' = section /\ request' = request /\ sent' = sent
      /\ displayed' = displayed /\ overtaken' = overtaken
  BY DEF Inv, PairingInv, browserVars
<1>2. BrowserType'
  BY <1>1 DEF BrowserType
<1>3. \A q \in Requests : request'[q] # None => Continues(q)
  BY <1>1 DEF Continues, Shows
<1>4. \A z \in Sections : SectionTrue(store', displayed, section'[z])
  BY <1>1, StillFits DEF Fits, SectionsTrue
<1>5. QED
  BY <1>1, <1>2, <1>3, <1>4, QuietStep

(* A phone scans a code.                                                   *)
LEMMA ScanInv ==
  ASSUME PairingInv, NEW c \in Codes, Scan(c)
  PROVE  PairingInv'
<1>1. Inv /\ now \in Nat /\ StoreInv(store, now) /\ store \in StoreType
  BY DEF PairingInv, Inv, StoreInv
<1>2. /\ RedeemPairingCode(c) /\ store' = Redeem(store, c, now) /\ now' = now
      /\ UNCHANGED browserVars
  BY DEF Scan, RedeemPairingCode
<1>3. Inv'
  BY <1>1, <1>2, RedeemInv DEF Inv
<1>4. QED
  BY <1>1, <1>2, <1>3, RedeemEvolves, QuietStore

(* Time passes.                                                            *)
LEMMA ClockInv ==
  ASSUME PairingInv, Clock
  PROVE  PairingInv'
<1>1. Inv /\ now \in Nat /\ store \in StoreType /\ store' = store /\ now' = now + 1
  BY DEF PairingInv, Inv, StoreInv, Clock, Tick
<1>2. [Next]_vars
  BY DEF Clock, Next
<1>3. Inv'
  BY <1>1, <1>2, NextInv
<1>4. QED
  BY <1>1, <1>3, EvolvesSelf, QuietStore DEF Clock

-----------------------------------------------------------------------------
(* Initially nothing was shown, asked or minted.                           *)
LEMMA PairingInitInv == PairingInit => PairingInv
<1> SUFFICES ASSUME PairingInit PROVE PairingInv
  OBVIOUS
<1>1. /\ Inv /\ cookie = None /\ request = [r \in Requests |-> None] /\ sent = 0
      /\ displayed = {} /\ overtaken = {}
  BY InitInv DEF PairingInit
<1>2. section \in [Sections -> SectionRecord] /\ \A z \in Sections : section[z].phase = "idle"
  <2> DEFINE S == [account : Owners, phase : {"idle"}, code : {NoCode}, expiresAt : {0},
                   resume : {FALSE}]
  <2>1. section \in [Sections -> S]
    BY DEF PairingInit
  <2>2. ASSUME NEW x \in S
        PROVE  x \in SectionRecord /\ x.phase = "idle"
    <3>1. /\ x.account \in Owners /\ x.phase = "idle" /\ x.code = NoCode /\ x.expiresAt = 0
          /\ x.resume \in BOOLEAN
          /\ x = [account |-> x.account, phase |-> x.phase, code |-> x.code,
                  expiresAt |-> x.expiresAt, resume |-> x.resume]
      OBVIOUS
    <3> HIDE DEF S
    <3>2. QED
      BY <3>1 DEF SectionRecord, Times
  <2> HIDE DEF S
  <2>3. QED
    BY <2>1, <2>2
<1>3. BrowserType
  BY <1>1, <1>2, PairingAssumption DEF BrowserType, CookieType
<1>4. Fits(store, now)
  BY <1>1, <1>2
  DEF Fits, CookieTrue, RequestsTrue, CarriedCovered, DisplayedCovered, SectionsTrue, SectionTrue
<1>5. WaitedFor
  BY <1>1 DEF WaitedFor
<1>6. QED
  BY <1>1, <1>3, <1>4, <1>5 DEF PairingInv

(* Every step keeps the invariant.                                         *)
LEMMA PairingNextInv == PairingInv /\ [PairingNext]_pairingVars => PairingInv'
<1> SUFFICES ASSUME PairingInv, [PairingNext]_pairingVars
             PROVE  PairingInv'
  OBVIOUS
<1>1. ASSUME NEW r \in Requests,
             \/ ServePassword(r) \/ ServeSso(r) \/ ServeAgain(r) \/ ServeSignOut(r)
             \/ Arrive(r) \/ Fail(r) \/ FailToIdle(r)
      PROVE  PairingInv'
  BY <1>1, ServePasswordInv, ServeSsoInv, ServeAgainInv, ServeSignOutInv, ArriveInv, FailInv
<1>2. ASSUME NEW r \in Requests, NEW sec \in Sections,
             \/ SubmitPassword(r, sec) \/ AskAgain(r, sec) \/ Callback(r, sec) \/ Resume(r, sec)
             \/ SignOut(r, sec, "sign_out") \/ SignOut(r, sec, "sign_out_all")
      PROVE  PairingInv'
  BY <1>2, SendingInv
<1>3. ASSUME NEW sec \in Sections, NEW o \in Owners, Leave(sec, o)
      PROVE  PairingInv'
  <2>1. BlankFor(sec, o) \in SectionRecord /\ ~ Says(BlankFor(sec, o))
    BY SectionRecords DEF PairingInv
  <2>2. QED
    BY <1>3, <2>1, LeaveInv DEF Leave
<1>4. ASSUME NEW sec \in Sections, StartReauth(sec)
      PROVE  PairingInv'
  <2>1. section[sec] \in SectionRecord /\ section[sec].account \in Owners
    BY DEF PairingInv, BrowserType, SectionRecord
  <2>2. AtProvider(sec) \in SectionRecord /\ ~ Says(AtProvider(sec))
    BY <2>1, SectionRecords DEF PairingInv
  <2>3. QED
    BY <1>4, <2>2, LeaveInv DEF StartReauth
<1>5. ASSUME NEW sec \in Sections, Poll(sec) \/ Countdown(sec)
      PROVE  PairingInv'
  BY <1>5, PollInv, CountdownInv
<1>6. ASSUME NEW c \in Codes, Scan(c)
      PROVE  PairingInv'
  BY <1>6, ScanInv
<1>7. CASE Clock
  BY <1>7, ClockInv
<1>8. CASE UNCHANGED pairingVars
  <2>1. Inv' /\ UNCHANGED browserVars /\ store' = store /\ now' = now
        /\ store \in StoreType /\ now \in Nat
    BY <1>8 DEF pairingVars, PairingInv, Inv, StoreInv
  <2>2. QED
    BY <2>1, EvolvesSelf, QuietStore
<1>9. QED
  BY <1>1, <1>2, <1>3, <1>4, <1>5, <1>6, <1>7, <1>8 DEF PairingNext

(* Every reachable state of browser and server satisfies the invariant.    *)
THEOREM PairingInvariance == PairingSpec => []PairingInv
<1>1. PairingInit => PairingInv
  BY PairingInitInv
<1>2. PairingInv /\ [PairingNext]_pairingVars => PairingInv'
  BY PairingNextInv
<1>3. QED
  BY <1>1, <1>2, PTL DEF PairingSpec

(* The browser, its requests and the store are well formed.                *)
THEOREM PairingTypeCorrect == PairingSpec => []PairingTypeOK
<1>1. PairingInv => PairingTypeOK
  BY DEF PairingInv, Inv, StoreInv, RecordsInv, TypeOK, BrowserType, PairingTypeOK
<1>2. QED
  BY <1>1, PairingInvariance, PTL

(* The store keeps its promises behind the routes, which chain its         *)
(* functions: one phone gets a grant, and no grant is dropped silently.    *)
THEOREM PairingKeepsStore == PairingSpec => [](HandedOutAtMostOnce /\ EveryGrantAccountedFor)
<1>1. PairingInv => HandedOutAtMostOnce /\ EveryGrantAccountedFor
  BY DEF PairingInv, Inv, StoreInv, FatesInv, HandedOutAtMostOnce, EveryGrantAccountedFor
<1>2. QED
  BY <1>1, PairingInvariance, PTL

(* A code that was on a screen is redeemed only while the browser holds    *)
(* the proof of its step-up, or lost it to an answer that overtook it.     *)
THEOREM QrDies == PairingSpec => []QrDiesWithProof
<1>1. PairingInv => QrDiesWithProof
  <2> SUFFICES ASSUME PairingInv, NEW c \in displayed, RedeemAnswer(store, c, now) = "ok"
               PROVE  Covered(store.codes[c].grantId)
    BY DEF QrDiesWithProof, Covered
  <2>1. /\ now \in Nat /\ store \in StoreType /\ c \in Codes /\ DisplayedCovered(store, now)
    BY DEF PairingInv, Inv, StoreInv, BrowserType, Fits
  <2>2. /\ Known(Sweep(store, now).codes, c)
        /\ Held(Sweep(store, now), Sweep(store, now).codes[c].grantId)
    BY DEF RedeemAnswer
  <2>3. Known(store.codes, c) /\ Sweep(store, now).codes[c] = store.codes[c]
    BY <2>1, <2>2, SweepCodes
  <2>4. store.codes[c].grantId \in Grants
    BY <2>1, <2>3 DEF StoreType, CodeRecord, Known
  <2>5. Usable(store, store.codes[c].grantId, now)
    BY <2>1, <2>2, <2>3, <2>4, SweepGrants DEF Usable
  <2>6. QED
    BY <2>1, <2>3, <2>5 DEF DisplayedCovered
<1>2. QED
  BY <1>1, PairingInvariance, PTL

(* The screen tells the truth about the account it is shown for.           *)
THEOREM Honest == PairingSpec => []ScreenHonest
<1>1. PairingInv => ScreenHonest
  BY DEF PairingInv, Fits, SectionsTrue, SectionTrue, ScreenHonest
<1>2. QED
  BY <1>1, PairingInvariance, PTL

-----------------------------------------------------------------------------
(* The routes implement the life of a grant, too.                          *)

(* A store function other than redemption hands nothing out and takes      *)
(* nothing back from the disposer.                                         *)
Withdraws(s, n) == n.handed = s.handed /\ s.disposed \subseteq n.disposed

(* Each of the store's functions, redemption apart, is such a one.         *)
LEMMA StoreFunctionsWithdraw ==
  ASSUME NEW s \in StoreType, NEW t \in Nat, NEW g \in Grants, NEW o \in Owners
  PROVE  /\ Withdraws(s, Sweep(s, t))
         /\ Withdraws(s, Stash(s, g, o, t))
         /\ Withdraws(s, Discard(s, g, t))
         /\ Withdraws(s, CreateCode(s, g, o, t))
<1> DEFINE sw == Sweep(s, t)
<1>1. sw \in StoreType /\ Withdraws(s, sw)
  BY SweepType, SweepOnly DEF Withdraws
<1>2. Withdraws(s, Stash(s, g, o, t))
  <2>1. Stash(s, g, o, t).handed = sw.handed /\ Stash(s, g, o, t).disposed = sw.disposed
    BY <1>1 DEF Stash, StoreType
  <2>2. QED
    BY <1>1, <2>1 DEF Withdraws
<1>3. Withdraws(s, Discard(s, g, t))
  <2>1. Discard(s, g, t) = IF Known(sw.grants, g) THEN Wipe(sw, g) ELSE sw
    BY DEF Discard
  <2>2. Wipe(sw, g).handed = sw.handed /\ sw.disposed \subseteq Wipe(sw, g).disposed
    BY <1>1 DEF Wipe, StoreType
  <2>3. QED
    BY <1>1, <2>1, <2>2 DEF Withdraws
<1>4. Withdraws(s, CreateCode(s, g, o, t))
  <2>1. /\ CreateCode(s, g, o, t).handed = sw.handed
        /\ CreateCode(s, g, o, t).disposed = sw.disposed
    BY <1>1 DEF CreateCode, StoreType
  <2>2. QED
    BY <1>1, <2>1 DEF Withdraws
<1>5. QED
  BY <1>1, <1>2, <1>3, <1>4

(* So do their chains.                                                     *)
LEMMA StepUpWithdraws ==
  ASSUME NEW s, NEW t \in Nat, StoreInv(s, t), NEW carried \in CookieType,
         NEW g \in Grants \ s.minted, NEW o \in Owners
  PROVE  Withdraws(s, StepUp(s, carried, g, o, t))
<1> DEFINE m == Stash(s, g, o, t)
<1>1. s \in StoreType /\ m \in StoreType
  BY StashInv DEF StoreInv
<1>2. Withdraws(s, m)
  BY <1>1, StoreFunctionsWithdraw
<1> HIDE DEF m
<1>3. Live(carried, t) => carried.grant \in Grants
  BY DEF Live, CookieType, Proof
<1>4. Live(carried, t) => Withdraws(m, Discard(m, carried.grant, t))
  BY <1>1, <1>3, StoreFunctionsWithdraw
<1>5. QED
  BY <1>2, <1>4 DEF StepUp, Withdraws, m

(* Nor does forgetting a proof hand anything out or mint.                  *)
LEMMA ClearWithdraws ==
  ASSUME NEW s \in StoreType, NEW t \in Nat, NEW carried \in CookieType, NEW o \in Owners, NEW kind
  PROVE  /\ Withdraws(s, ClearProof(s, kind, carried, o, t))
         /\ ClearProof(s, kind, carried, o, t).minted = s.minted
<1>1. Live(carried, t) => carried.grant \in Grants
  BY DEF Live, CookieType, Proof
<1>2. Live(carried, t) => /\ Withdraws(s, Discard(s, carried.grant, t))
                          /\ Discard(s, carried.grant, t).minted = s.minted
  BY <1>1, StoreFunctionsWithdraw, DiscardEvolves
<1>3. QED
  BY <1>2 DEF ClearProof, Withdraws

(* A step-up mints, and withdraws what its cookie named, in one step.      *)
LEMMA MintingStep ==
  ASSUME FatesInv(store), FatesInv(store'), NEW g \in Grants \ store.minted,
         store'.minted = store.minted \cup {g}, Held(store', g), Withdraws(store, store')
  PROVE  Lifecycle!Next
<1>1. g \notin store'.disposed
  BY DEF FatesInv
<1>2. Lifecycle!Mint(g)
  BY <1>1, StashStep DEF Withdraws
<1>3. QED
  BY <1>2 DEF Lifecycle!Next

(* A request that mints nothing only withdraws grants.                     *)
LEMMA WithdrawingStep ==
  ASSUME FatesInv(store), FatesInv(store'), store'.minted = store.minted, Withdraws(store, store')
  PROVE  Lifecycle!Next
<1>1. Lifecycle!Withdraw
  BY WithdrawStep DEF Withdraws
<1>2. QED
  BY <1>1 DEF Lifecycle!Next

(* Serving a request takes each grant at most one step of its life.        *)
LEMMA ServingLifecycle ==
  ASSUME PairingInv, PairingInv', NEW r \in Requests,
         ServePassword(r) \/ ServeSso(r) \/ ServeAgain(r) \/ ServeSignOut(r)
  PROVE  Lifecycle!Next
<1> DEFINE q == request[r]
           g == NewGrant
           m == StepUp(store, q.carried, g, q.owner, now)
<1>1. Waiting(r)
  BY DEF ServePassword, ServeSso, ServeAgain, ServeSignOut
<1>2. /\ now \in Nat /\ StoreInv(store, now) /\ store \in StoreType
      /\ q \in RequestRecord /\ q.carried \in CookieType /\ q.owner \in Owners
      /\ q.carried # None => ProofTrue(store, q.carried) /\ q.carried.grant \in Grants
  BY <1>1, CarriedTrue
<1>3. FatesInv(store) /\ FatesInv(store')
  BY DEF PairingInv, Inv, StoreInv
<1> HIDE DEF q, g
<1>m. ASSUME CanStash
      PROVE  /\ g \in Grants \ store.minted
             /\ m \in StoreType /\ m.minted = store.minted \cup {g} /\ m.issued = store.issued
             /\ IsAvailable(m, g, q.owner, now) /\ Withdraws(store, m)
  <2>1. g \in Grants \ store.minted
    BY <1>m, <1>2, NewGrantIsNew DEF g
  <2>2. QED
    BY <1>2, <2>1, StepUpEvolves, StepUpWithdraws DEF StoreInv
<1> HIDE DEF m
<1>4. CASE ServePassword(r)
  <2>1. /\ CanStash /\ store.issued < MaxCodes
        /\ store' = CreateCode(m, g, q.owner, now)
    BY <1>4 DEF ServePassword, Serve, m, q, g
  <2>2. /\ store'.minted = store.minted \cup {g} /\ store'.grants = Sweep(m, now).grants
        /\ Withdraws(m, store')
    BY <1>2, <1>m, <2>1, CreateEvolves, StoreFunctionsWithdraw
  <2>3. Held(store', g)
    BY <1>m, <2>1, <2>2 DEF IsAvailable, Held
  <2>4. Withdraws(store, store')
    BY <1>m, <2>1, <2>2 DEF Withdraws
  <2>5. QED
    BY <1>3, <1>m, <2>1, <2>2, <2>3, <2>4, MintingStep
<1>5. CASE ServeSso(r)
  <2>1. CanStash /\ store' = m
    BY <1>5 DEF ServeSso, Serve, m, q, g
  <2>2. Held(store', g)
    BY <1>2, <1>m, <2>1, SweepGrants DEF IsAvailable
  <2>3. QED
    BY <1>3, <1>m, <2>1, <2>2, MintingStep
<1>6. CASE ServeAgain(r)
  <2>1. CASE store' = Sweep(store, now)
    BY <1>2, <1>3, <2>1, SweepOnly, WithdrawingStep DEF Withdraws
  <2>2. CASE /\ MayShowAgain(q.carried, q.owner) /\ store.issued < MaxCodes
             /\ store' = CreateCode(store, q.carried.grant, q.carried.owner, now)
    <3>1. /\ q.carried # None /\ q.carried.owner = q.owner
          /\ IsAvailable(store, q.carried.grant, q.owner, now)
      BY <2>2 DEF MayShowAgain, Live
    <3>2. store'.minted = store.minted /\ Withdraws(store, store')
      BY <1>2, <2>2, <3>1, CreateEvolves, StoreFunctionsWithdraw
    <3>3. QED
      BY <1>3, <3>2, WithdrawingStep
  <2>3. QED
    BY <1>6, <2>1, <2>2 DEF ServeAgain, Serve, q
<1>7. CASE ServeSignOut(r)
  <2>1. store' = ClearProof(store, q.kind, q.carried, q.owner, now)
    BY <1>7 DEF ServeSignOut, Serve, q
  <2>2. QED
    BY <1>2, <1>3, <2>1, ClearWithdraws, WithdrawingStep
<1>8. QED
  BY <1>4, <1>5, <1>6, <1>7

(* The other steps are the store's own, or leave it alone.                 *)
LEMMA PairingLifecycleStep ==
  ASSUME PairingInv, [PairingNext]_pairingVars
  PROVE  [Lifecycle!Next]_([g \in Grants |-> FateOf(store, g)])
<1>1. Inv /\ PairingInv'
  BY PairingNextInv DEF PairingInv
<1>2. ASSUME NEW r \in Requests,
             ServePassword(r) \/ ServeSso(r) \/ ServeAgain(r) \/ ServeSignOut(r)
      PROVE  Lifecycle!Next
  BY <1>1, <1>2, ServingLifecycle
<1>3. ASSUME [Next]_vars
      PROVE  [Lifecycle!Next]_([g \in Grants |-> FateOf(store, g)])
  BY <1>1, <1>3, LifecycleStep
<1>4. ASSUME NEW r \in Requests, Arrive(r) \/ Fail(r) \/ FailToIdle(r)
      PROVE  [Next]_vars
  BY <1>4 DEF Arrive, Fail, FailToIdle, vars
<1>5. ASSUME NEW r \in Requests, NEW sec \in Sections,
             \/ SubmitPassword(r, sec) \/ AskAgain(r, sec) \/ Callback(r, sec) \/ Resume(r, sec)
             \/ SignOut(r, sec, "sign_out") \/ SignOut(r, sec, "sign_out_all")
      PROVE  [Next]_vars
  BY <1>5 DEF SubmitPassword, AskAgain, Callback, Resume, SignOut, Send, vars
<1>6. ASSUME NEW sec \in Sections, NEW o \in Owners, Leave(sec, o)
      PROVE  [Next]_vars
  BY <1>6 DEF Leave, vars
<1>7. ASSUME NEW sec \in Sections, StartReauth(sec) \/ Poll(sec) \/ Countdown(sec)
      PROVE  [Next]_vars
  BY <1>7 DEF StartReauth, Poll, Countdown, vars, Next, Query
<1>8. ASSUME NEW c \in Codes, Scan(c)
      PROVE  [Next]_vars
  BY <1>8 DEF Scan, Next
<1>9. CASE Clock
  BY <1>9, <1>3 DEF Clock, Next
<1>10. CASE UNCHANGED pairingVars
  BY <1>10, <1>3 DEF pairingVars, vars
<1>11. QED
  BY <1>2, <1>3, <1>4, <1>5, <1>6, <1>7, <1>8, <1>9, <1>10 DEF PairingNext

(* Behind the routes, too, each grant lives its life: one route's chain of *)
(* store functions takes it at most one step, and never back.              *)
THEOREM PairingRefinement == PairingSpec => ImplementsLifecycle
<1>1. PairingInit => Lifecycle!Init
  <2> SUFFICES ASSUME PairingInit PROVE Lifecycle!Init
    OBVIOUS
  <2>1. \A g \in Grants : FateOf(store, g) = "unminted"
    BY DEF PairingInit, Init, EmptyStore, FateOf
  <2>2. QED
    BY <2>1 DEF Lifecycle!Init
<1>2. PairingInv /\ [PairingNext]_pairingVars
        => [Lifecycle!Next]_([g \in Grants |-> FateOf(store, g)])
  BY PairingLifecycleStep
<1>3. QED
  BY <1>1, <1>2, PairingInvariance, PTL DEF PairingSpec, ImplementsLifecycle, Lifecycle!Spec

=============================================================================
