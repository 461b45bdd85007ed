---------------------------- MODULE PairingStore ----------------------------
(***************************************************************************)
(* lib/auth/pairing-store.ts: the in-process store behind "Link mobile     *)
(* app".  A step-up on the desktop stashes a *grant* (the phone's sign-in  *)
(* material); short-lived *codes* are issued for it and shown as QRs; the  *)
(* phone redeems one code for the grant, once.                             *)
(*                                                                         *)
(* Node runs each store function to completion, so one function call is    *)
(* one action.  The operators below are functions of a store value `s` and *)
(* a clock reading `t`, so that a route which makes several calls without  *)
(* awaiting in between (module Pairing) composes them into one step.       *)
(***************************************************************************)
EXTENDS Integers, FiniteSets

CONSTANTS
  Grants,          \* grant ids that may be minted
  Owners,          \* `<slot>:<username>` of the account a step-up was for
  MaxCodes,        \* bound: codes issued in one behaviour
  GrantTTL,        \* GRANT_TTL_MS
  CodeTTL,         \* CODE_TTL_MS
  TombstoneTTL,    \* TOMBSTONE_MS
  SupersededKept,  \* SUPERSEDED_KEPT
  MaxTime,         \* bound: the clock
  NoRecord         \* absent from a Map

ASSUME TTLAssumption ==
  /\ GrantTTL \in Nat \ {0}
  /\ CodeTTL \in Nat \ {0}
  /\ TombstoneTTL \in Nat \ {0}
ASSUME BoundAssumption ==
  /\ MaxCodes \in Nat
  /\ SupersededKept \in Nat
  /\ MaxTime \in Nat

(* Codes are random ids; numbering them in the order they are issued keeps *)
(* the insertion order of the Map, which decides which ones are forgotten. *)
Codes == 1 .. MaxCodes
Times == Nat

(* `grant` is "wiped" once the secret was consumed, expired or discarded.  *)
GrantRecord == [grant : {"held", "wiped"}, owner : Owners, expiresAt : Times, forgetAt : Times]
CodeRecord == [grantId : Grants, expiresAt : Times, forgetAt : Times,
               state : {"pending", "redeemed", "superseded"}]

ASSUME NoRecordAssumption == NoRecord \notin GrantRecord \cup CodeRecord

(* `grants`, `codes` and `statusIndex` are the three Maps (a status id     *)
(* stands for its code).  `issued` counts the codes made; `minted`,        *)
(* `handed` and `disposed` record what became of every grant: `handed`     *)
(* holds the pairs <<grant, code>> redemption answered with the grant,     *)
(* `disposed` the grants the registered disposer was called with.          *)
StoreType ==
  [grants : [Grants -> GrantRecord \cup {NoRecord}],
   codes : [Codes -> CodeRecord \cup {NoRecord}],
   statusIndex : SUBSET Codes,
   issued : 0 .. MaxCodes,
   minted : SUBSET Grants,
   handed : SUBSET (Grants \X Codes),
   disposed : SUBSET Grants]

EmptyStore ==
  [grants |-> [g \in Grants |-> NoRecord],
   codes |-> [c \in Codes |-> NoRecord],
   statusIndex |-> {}, issued |-> 0, minted |-> {}, handed |-> {}, disposed |-> {}]

Known(map, k) == map[k] # NoRecord
Held(s, g) == Known(s.grants, g) /\ s.grants[g].grant = "held"
CodesOf(s, g) == {c \in Codes : Known(s.codes, c) /\ s.codes[c].grantId = g}
HandedOut(s, g) == \E c \in Codes : <<g, c>> \in s.handed

-----------------------------------------------------------------------------
(* The store's functions.                                                  *)

(* sweep: wipe what expired (telling the disposer), forget old tombstones. *)
SweptGrant(s, g, t) ==
  IF ~ Known(s.grants, g) THEN NoRecord
  ELSE IF s.grants[g].forgetAt <= t THEN NoRecord
  ELSE IF s.grants[g].expiresAt <= t THEN [s.grants[g] EXCEPT !.grant = "wiped"]
  ELSE s.grants[g]

SweptCode(s, c, t) ==
  IF ~ Known(s.codes, c) THEN NoRecord
  ELSE IF s.codes[c].forgetAt <= t THEN NoRecord
  ELSE s.codes[c]

(* Mutants of Sweep: the status ids of forgotten codes stay; an expired    *)
(* grant is wiped without telling the disposer.                            *)
SweepKeepsStatusIds(s, t) ==
  [s EXCEPT
    !.grants = [g \in Grants |-> SweptGrant(s, g, t)],
    !.codes = [c \in Codes |-> SweptCode(s, c, t)],
    !.disposed = @ \cup {g \in Grants : Held(s, g) /\ s.grants[g].expiresAt <= t}]

SweepDisposesNothing(s, t) ==
  [s EXCEPT
    !.grants = [g \in Grants |-> SweptGrant(s, g, t)],
    !.codes = [c \in Codes |-> SweptCode(s, c, t)],
    !.statusIndex = {c \in @ : ~ (Known(s.codes, c) /\ s.codes[c].forgetAt <= t)}]

Sweep(s, t) ==
  [s EXCEPT
    !.grants = [g \in Grants |-> SweptGrant(s, g, t)],
    !.codes = [c \in Codes |-> SweptCode(s, c, t)],
    !.statusIndex = {c \in @ : ~ (Known(s.codes, c) /\ s.codes[c].forgetAt <= t)},
    !.disposed = @ \cup {g \in Grants : Held(s, g) /\ s.grants[g].expiresAt <= t}]

(* Mutant: wipe does not look whether the grant was still held.            *)
WipeAlways(s, g) ==
  [s EXCEPT !.grants[g].grant = "wiped", !.disposed = @ \cup {g}]

(* wipe: drop the secret; a grant that dies unredeemed goes to the disposer. *)
Wipe(s, g) ==
  [s EXCEPT !.grants[g].grant = "wiped",
            !.disposed = IF Held(s, g) THEN @ \cup {g} ELSE @]

Stash(s, g, o, t) ==
  [Sweep(s, t) EXCEPT
     !.grants[g] = [grant |-> "held", owner |-> o, expiresAt |-> t + GrantTTL,
                    forgetAt |-> t + GrantTTL + TombstoneTTL],
     !.minted = @ \cup {g}]

IsAvailable(s, g, o, t) ==
  LET sw == Sweep(s, t) IN
  Held(sw, g) /\ sw.grants[g].owner = o /\ sw.grants[g].expiresAt > t

Discard(s, g, t) ==
  LET sw == Sweep(s, t) IN IF Known(sw.grants, g) THEN Wipe(sw, g) ELSE sw

(* The replaced codes of g that createPairingCode keeps: the newest few.   *)
Replaced(s, g) == {c \in CodesOf(s, g) : s.codes[c].state # "redeemed"}

Forgotten(s, g) ==
  {c \in Replaced(s, g) :
     Cardinality({d \in Replaced(s, g) : d > c}) >= SupersededKept}

Earlier(a, b) == IF a <= b THEN a ELSE b
CodeExpiry(s, g, t) == Earlier(t + CodeTTL, s.grants[g].expiresAt)

NextCode(s) == s.issued + 1

(* Mutant: the earlier codes stay pending.                                 *)
CreateCodeBeside(s, g, o, t) ==
  LET sw == Sweep(s, t)
      new == NextCode(s)
      expiry == CodeExpiry(sw, g, t)
  IN  IF ~ IsAvailable(s, g, o, t) THEN sw ELSE
      [sw EXCEPT
        !.issued = new,
        !.codes = [c \in Codes |->
           IF c = new THEN [grantId |-> g, expiresAt |-> expiry, state |-> "pending",
                            forgetAt |-> expiry + TombstoneTTL]
           ELSE IF c \in Forgotten(sw, g) THEN NoRecord
           ELSE sw.codes[c]],
        !.statusIndex = (@ \ Forgotten(sw, g)) \cup {new}]

CreateCode(s, g, o, t) ==
  LET sw == Sweep(s, t)
      new == NextCode(s)
      expiry == CodeExpiry(sw, g, t)
  IN  IF ~ IsAvailable(s, g, o, t) THEN sw ELSE
      [sw EXCEPT
        !.issued = new,
        !.codes = [c \in Codes |->
           IF c = new THEN [grantId |-> g, expiresAt |-> expiry, state |-> "pending",
                            forgetAt |-> expiry + TombstoneTTL]
           ELSE IF c \in Forgotten(sw, g) THEN NoRecord
           ELSE IF c \in Replaced(sw, g) THEN [sw.codes[c] EXCEPT !.state = "superseded"]
           ELSE sw.codes[c]],
        !.statusIndex = (@ \ Forgotten(sw, g)) \cup {new}]

WasRedeemed(s, g) == \E c \in CodesOf(s, g) : s.codes[c].state = "redeemed"

(* What redeemPairingCode(c) would answer at time t.                       *)
RedeemAnswer(s, c, t) ==
  LET sw == Sweep(s, t)
      code == sw.codes[c]
      stale == code.state = "superseded" \/ code.expiresAt <= t
      gone == ~ Held(sw, code.grantId)
      tombstone == Known(sw.grants, code.grantId) /\ gone
  IN  IF ~ Known(sw.codes, c) THEN "invalid"
      ELSE IF code.state = "redeemed" THEN "used"
      ELSE IF stale THEN IF tombstone /\ WasRedeemed(sw, code.grantId) THEN "used" ELSE "expired"
      ELSE IF gone THEN IF WasRedeemed(sw, code.grantId) THEN "used" ELSE "expired"
      ELSE "ok"

(* Mutants of Redeem: the grant is not consumed; the code is not marked.   *)
RedeemAgain(s, c, t) ==
  LET sw == Sweep(s, t)
      g == sw.codes[c].grantId
  IN  IF RedeemAnswer(s, c, t) # "ok" THEN sw ELSE [sw EXCEPT !.handed = @ \cup {<<g, c>>}]

RedeemUnmarked(s, c, t) ==
  LET sw == Sweep(s, t)
      g == sw.codes[c].grantId
  IN  IF RedeemAnswer(s, c, t) # "ok" THEN sw ELSE
      [sw EXCEPT !.grants[g].grant = "wiped", !.handed = @ \cup {<<g, c>>}]

Redeem(s, c, t) ==
  LET sw == Sweep(s, t)
      g == sw.codes[c].grantId
  IN  IF RedeemAnswer(s, c, t) # "ok" THEN sw ELSE
      [sw EXCEPT
        !.grants[g].grant = "wiped",
        !.codes = [d \in Codes |->
           IF d = c THEN [sw.codes[d] EXCEPT !.state = "redeemed"]
           ELSE IF d \in CodesOf(sw, g) /\ sw.codes[d].state = "pending"
                THEN [sw.codes[d] EXCEPT !.state = "superseded"]
           ELSE sw.codes[d]],
        !.handed = @ \cup {<<g, c>>}]

(* What getPairingStatus would tell the desktop about c's QR at time t.    *)
PairingStatus(s, c, t) ==
  LET sw == Sweep(s, t)
      code == sw.codes[c]
  IN  IF c \notin sw.statusIndex \/ ~ Known(sw.codes, c) THEN "unknown"
      ELSE IF code.state = "redeemed" THEN "redeemed"
      ELSE IF code.state = "superseded" \/ code.expiresAt <= t THEN "expired"
      ELSE IF ~ Held(sw, code.grantId) THEN "expired"
      ELSE "pending"

-----------------------------------------------------------------------------
VARIABLES store, now
vars == <<store, now>>

Init == store = EmptyStore /\ now = 0

(* stashGrant.  Bound: only grants that can still expire within MaxTime.   *)
StashGrant(g, o) ==
  /\ g \notin store.minted
  /\ now + GrantTTL <= MaxTime
  /\ store' = Stash(store, g, o, now)
  /\ UNCHANGED now

DiscardGrant(g) == g \in store.minted /\ store' = Discard(store, g, now) /\ UNCHANGED now

CreatePairingCode(g, o) ==
  /\ g \in store.minted
  /\ store.issued < MaxCodes
  /\ store' = CreateCode(store, g, o, now)
  /\ UNCHANGED now

RedeemPairingCode(c) ==
  c <= store.issued /\ store' = Redeem(store, c, now) /\ UNCHANGED now

(* isGrantAvailable and getPairingStatus change nothing but what sweep does. *)
Query == store' = Sweep(store, now) /\ UNCHANGED now

Tick == now < MaxTime /\ now' = now + 1 /\ UNCHANGED store

Next ==
  \/ \E g \in Grants, o \in Owners : StashGrant(g, o) \/ CreatePairingCode(g, o)
  \/ \E g \in Grants : DiscardGrant(g)
  \/ \E c \in Codes : RedeemPairingCode(c)
  \/ Query
  \/ Tick

Spec == Init /\ [][Next]_vars

(* Time passes on its own; requests come only if somebody makes them.      *)
TimedSpec == Spec /\ WF_vars(Tick)

(* A webmail in use: some request keeps reaching the store.                *)
BusySpec == TimedSpec /\ WF_vars(Query)

-----------------------------------------------------------------------------
(* Properties.                                                             *)

(* The Maps hold well-formed records and every remembered code can be      *)
(* found by its status id, and no other.                                   *)
TypeOK ==
  /\ store \in StoreType
  /\ now \in Nat
  /\ store.statusIndex = {c \in Codes : Known(store.codes, c)}

(* A grant is handed out at most once, whatever codes, new QRs and late    *)
(* scans are mixed ("redeeming any of its codes consumes it").             *)
HandedOutAtMostOnce ==
  \A g \in Grants, c, d \in Codes :
    <<g, c>> \in store.handed /\ <<g, d>> \in store.handed => c = d

(* Every grant ever minted is in exactly one place: still held, handed to  *)
(* a phone, or passed to the disposer.  So an app password a phone uses is *)
(* never deleted under it, and one no phone got is not dropped silently.   *)
EveryGrantAccountedFor ==
  \A g \in Grants :
    /\ g \in store.minted <=> Held(store, g) \/ HandedOut(store, g) \/ g \in store.disposed
    /\ Held(store, g) => ~ HandedOut(store, g) /\ g \notin store.disposed
    /\ HandedOut(store, g) => g \notin store.disposed

(* Only the QR on screen can be redeemed: no code remembered for a grant   *)
(* is newer than the one that got it, and every code but the newest is dead. *)
OnlyNewestCodeWorks ==
  \A g \in Grants : \A c, d \in CodesOf(store, g) :
    c < d => /\ <<g, c>> \notin store.handed
             /\ RedeemAnswer(store, c, now) # "ok"

(* A code never outlives its grant: sweep forgets a grant's record only    *)
(* together with, or after, the records of its codes.                      *)
CodesHaveTheirGrant ==
  \A c \in Codes : Known(store.codes, c) =>
    LET g == store.codes[c].grantId IN
    /\ Known(store.grants, g)
    /\ store.codes[c].expiresAt <= store.grants[g].expiresAt

(* A scan of any code that is still remembered is told the truth: "used"   *)
(* exactly when a phone got the grant, although the redeemed code's own    *)
(* tombstone could have been forgotten first.                              *)
LateScanToldUsed ==
  \A c \in Codes : RedeemAnswer(store, c, now) \in {"used", "expired"} =>
    (RedeemAnswer(store, c, now) = "used" <=> HandedOut(store, store.codes[c].grantId))

(* Every grant ends with a phone or with the disposer ("an app password    *)
(* minted for the phone must not stay valid on the server").               *)
EveryGrantSettled ==
  \A g \in Grants : g \in store.minted ~> (HandedOut(store, g) \/ g \in store.disposed)
-----------------------------------------------------------------------------
(* What the store implements: the life of a grant, without its codes.  One *)
(* that is dropped with nobody told would be "lost", which no life allows. *)
FateOf(s, g) ==
  IF g \notin s.minted THEN "unminted"
  ELSE IF g \in s.disposed THEN "withdrawn"
  ELSE IF HandedOut(s, g) THEN "phone"
  ELSE IF Held(s, g) THEN "held"
  ELSE "lost"

Lifecycle == INSTANCE GrantLifecycle WITH fate <- [g \in Grants |-> FateOf(store, g)]

(* Whatever a request does to the Maps, each grant takes at most one step  *)
(* of its life, at most one phone is served, and no grant comes back after *)
(* a phone or the disposer had it.                                         *)
ImplementsLifecycle == Lifecycle!Spec
=============================================================================
