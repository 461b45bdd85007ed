------------------------- MODULE SettingsSyncProofs -------------------------
(***************************************************************************)
(* Proofs about SettingsSync, for any accounts and bounds.                 *)
(*                                                                         *)
(* `crossed` marks the runs in which settings were edited that were not    *)
(* the active account's, or a load was answered late.  In all others what  *)
(* is in the tab is the owner's, sync is on for the owner or for nobody,   *)
(* and the one load that is not late knows whose settings it replaces.     *)
(***************************************************************************)
EXTENDS SettingsSync, TLAPS

(* Only one push is awaited.                                               *)
OneAwaited == \A p, q \in pushes : p.awaited /\ q.awaited => p = q

(* What waits, travels or is stored for an account is its own.             *)
OwnEverywhere ==
  /\ local.from \subseteq {owner}
  /\ owner # Nobody /\ sync # Nobody => sync = owner
  /\ pending # Nobody => pending.settings.from \subseteq {pending.account}
  /\ \A p \in pushes : p.job.settings.from \subseteq {p.job.account}
  /\ \A a \in Accounts : server[a].from \subseteq {a}

(* The load that is not late is the active account's, and the only one.    *)
FreshLoad ==
  \A l \in loads : ~ l.late =>
    /\ l.account = active /\ blocked = Nobody
    /\ l.held = HeldByOther(active)
    /\ l.reply # Nobody => l.reply.from \subseteq {active}
    /\ \A k \in loads : ~ k.late => k = l

SignedOutClean == active = Nobody => owner = Nobody /\ loads = {}

(* The account's last due edit travels, or is stored.                      *)
Covered(a) ==
  /\ \A p \in pushes : p.job.account = a => p.job.settings.edit >= due[a]
  /\ ~ OnItsWay(a) => server[a].edit >= due[a]

(* The account's last due edit waits, travels or is stored; a change of    *)
(* account has sent on what waited.                                        *)
EditKept(a) ==
  /\ Waits(a) => pending.settings.edit >= due[a]
  /\ \A p, q \in pushes : p.job.account = a /\ q.job.account = a => p = q
  /\ change # Nobody \/ ~ Waits(a) => Covered(a)
  /\ \A l \in loads : l.account = a /\ ~ l.late /\ l.reply # Nobody => l.reply.edit >= due[a]

DueMade == \A a \in Accounts : due[a] =< edits
OwnInv == ~ crossed => OwnEverywhere /\ FreshLoad /\ SignedOutClean
KeptInv == ~ crossed => \A a \in Accounts \ troubled : EditKept(a)

IInv == TypeOK /\ OneAwaited /\ DueMade /\ OwnInv /\ KeptInv

-----------------------------------------------------------------------------
(* Types.                                                                  *)

(* The sets the actions build keep to their types.                         *)
LEMMA Typed ==
  ASSUME TypeOK
  PROVE  /\ NowLate \subseteq Load
         /\ \A l \in NowLate : l.late
         /\ \A a \in Accounts : Started(a, NowLate) \subseteq Load /\ Started(a, {}) \subseteq Load
         /\ \A job \in Job, awaited \in BOOLEAN :
              /\ Pushed(job, awaited) \subseteq Push
              /\ OvertakenBy(job) \subseteq Accounts
         /\ {[p EXCEPT !.awaited = FALSE] : p \in pushes} \subseteq Push
         /\ \A p \in {[p EXCEPT !.awaited = FALSE] : p \in pushes} : ~ p.awaited
<1>1. \A l \in loads : [l EXCEPT !.late = TRUE] \in Load /\ [l EXCEPT !.late = TRUE].late
  BY DEF TypeOK, Load
<1>2. \A p \in pushes : [p EXCEPT !.awaited = FALSE] \in Push /\ ~ [p EXCEPT !.awaited = FALSE].awaited
  BY DEF TypeOK, Push
<1>3. NowLate \subseteq Load /\ \A l \in NowLate : l.late
  BY <1>1 DEF NowLate
<1>4. \A a \in Accounts :
        [account |-> a, held |-> HeldByOther(a), reply |-> Nobody, late |-> FALSE] \in Load
  BY DEF Load, HeldByOther
<1>5. \A a \in Accounts : Started(a, NowLate) \subseteq Load /\ Started(a, {}) \subseteq Load
  BY <1>3, <1>4 DEF Started
<1>6. ASSUME NEW job \in Job, NEW awaited \in BOOLEAN
      PROVE  Pushed(job, awaited) \subseteq Push /\ OvertakenBy(job) \subseteq Accounts
  <2>1. [job |-> job, retries |-> 1, awaited |-> awaited] \in Push
    BY <1>6 DEF Push
  <2>2. job.account \in Accounts
    BY <1>6 DEF Job
  <2>3. QED
    BY <2>1, <2>2 DEF Pushed, OvertakenBy, TypeOK
<1>7. QED
  BY <1>2, <1>3, <1>5, <1>6

(* Every action keeps the variables in their types, and awaits one push at *)
(* a time: a change of account begins only when none is under way.         *)
LEMMA TypeNext ==
  ASSUME TypeOK, OneAwaited, [Next]_vars
  PROVE  TypeOK' /\ OneAwaited'
<1> USE SettingsAssumption DEF TypeOK, OneAwaited, Settings, Job, Push, Load, Change
<1>1. CASE Edit
  BY <1>1 DEF Edit, Replaces
<1>2. CASE Timer
  <2>1. pending \in Job
    BY <1>2 DEF Timer
  <2>2. pushes' \subseteq Push /\ OvertakenBy(pending) \subseteq Accounts
    BY <1>2, <2>1, Typed DEF Timer
  <2>3. \A p \in pushes' : p.awaited => p \in pushes
    BY <1>2 DEF Timer, Pushed
  <2>4. QED
    BY <1>2, <2>2, <2>3 DEF Timer
<1>3. ASSUME NEW p \in pushes, PushSaved(p) PROVE TypeOK' /\ OneAwaited'
  BY <1>3 DEF PushSaved, MergedInto, syncVars
<1>4. ASSUME NEW p \in pushes, PushRetried(p) PROVE TypeOK' /\ OneAwaited'
  BY <1>4 DEF PushRetried, syncVars
<1>5. ASSUME NEW p \in pushes, PushRefused(p) PROVE TypeOK' /\ OneAwaited'
  BY <1>5 DEF PushRefused, Troubled
<1>6. ASSUME NEW p \in pushes, PushGivenUp(p) PROVE TypeOK' /\ OneAwaited'
  BY <1>6 DEF PushGivenUp, Troubled, syncVars
<1>7. ASSUME NEW p \in pushes, PushThrows(p) PROVE TypeOK' /\ OneAwaited'
  BY <1>7 DEF PushThrows, Troubled, syncVars
<1>8. ASSUME NEW l \in loads, LoadServed(l) PROVE TypeOK' /\ OneAwaited'
  BY <1>8 DEF LoadServed, syncVars
<1>9. ASSUME NEW l \in loads, LoadAnswered(l) PROVE TypeOK' /\ OneAwaited'
  BY <1>9 DEF LoadAnswered, LoadDone, Imported, WithoutCopy, MergedInto, Defaults, Enable, Replaces
<1>10. ASSUME NEW l \in loads, LoadFailed(l) PROVE TypeOK' /\ OneAwaited'
  BY <1>10 DEF LoadFailed, LoadDone, DropsForeignState, Defaults
<1>11. ASSUME NEW a \in Accounts, SignIn(a) PROVE TypeOK' /\ OneAwaited'
  BY <1>11, Typed DEF SignIn, MayLoad
<1>12. ASSUME NEW kind, NEW to, [kind |-> kind, to |-> to] \in Change, BeginChange(kind, to)
       PROVE  TypeOK' /\ OneAwaited'
  <2>1. pushes' \subseteq Push /\ troubled' \subseteq Accounts
    BY <1>12, Typed DEF BeginChange, Flushed
  <2>2. ~ \E p \in pushes : p.awaited
    BY <1>12 DEF BeginChange
  <2>3. \A p, q \in pushes' : p.awaited /\ q.awaited => p = q
    BY <1>12, <2>2 DEF BeginChange, Flushed, Pushed
  <2>4. change' \in Change /\ change' # Nobody
    BY <1>12 DEF BeginChange
  <2>5. QED
    BY <1>12, <2>1, <2>3, <2>4 DEF BeginChange
<1>13. CASE SwitchTo
  <2>1. change.to \in Accounts
    BY <1>13 DEF SwitchTo, Settled
  <2>2. loads' \subseteq Load
    BY <1>13, <2>1, Typed DEF SwitchTo
  <2>3. QED
    BY <1>13, <2>1, <2>2 DEF SwitchTo, MayLoad, Settled, SyncOff
<1>14. CASE SwitchRefused
  BY <1>14, Typed DEF SwitchRefused, Settled, SyncOff
<1>15. CASE SignedOut
  BY <1>15 DEF SignedOut, Settled, SyncOff, Forget, Defaults
<1>16. CASE Reload
  BY <1>16, Typed DEF Reload, MayLoad, SyncOff
<1>17. CASE UNCHANGED vars
  BY <1>17 DEF vars
<1>18. \A a \in Accounts \cup {Nobody}, k \in {"switch", "refused", "sign_out"} :
         [kind |-> k, to |-> a] \in Change
  OBVIOUS
<1> HIDE SettingsAssumption DEF TypeOK, OneAwaited, Settings, Job, Push, Load, Change
<1>19. active \in Accounts \cup {Nobody}
  BY DEF TypeOK
<1>20. QED
  BY <1>18, <1>19, <1>1, <1>2, <1>3, <1>4, <1>5, <1>6, <1>7, <1>8, <1>9, <1>10, <1>11, <1>12, <1>13,
     <1>14, <1>15, <1>16, <1>17 DEF Next

-----------------------------------------------------------------------------
(* Whose settings are where.                                               *)

(* Settings that are not another account's hold nobody else's.             *)
LEMMA OwnersOnly ==
  ASSUME TypeOK, OwnEverywhere, NEW a, owner = Nobody \/ owner = a
  PROVE  local.from \subseteq {a}
<1>1. local.from \subseteq Accounts /\ Nobody \notin Accounts
  BY SettingsAssumption DEF TypeOK, Settings
<1>2. QED
  BY <1>1 DEF OwnEverywhere

(* The load a sign-in, a switch or a page load starts is the only one that *)
(* is not late.                                                            *)
LEMMA FreshlyStarted ==
  ASSUME TypeOK, NEW a \in Accounts, active' = a, blocked' = Nobody, owner' = owner,
         loads' = Started(a, NowLate) \/ loads' = Started(a, {})
  PROVE  FreshLoad'
<1> DEFINE fresh == [account |-> a, held |-> HeldByOther(a), reply |-> Nobody, late |-> FALSE]
<1>1. \A l \in loads' : ~ l.late => l = fresh
  BY Typed DEF Started
<1>2. HeldByOther(active)' = HeldByOther(a)
  BY DEF HeldByOther
<1>3. fresh.account = a /\ fresh.held = HeldByOther(a) /\ fresh.reply = Nobody
  OBVIOUS
<1> HIDE DEF fresh
<1>4. QED
  BY <1>1, <1>2, <1>3 DEF FreshLoad

(* Unless `crossed`, a step keeps everybody's settings apart.              *)
LEMMA OwnNext ==
  ASSUME TypeOK, OwnInv, [Next]_vars
  PROVE  OwnInv'
<1> SUFFICES ASSUME ~ crossed' PROVE OwnEverywhere' /\ FreshLoad' /\ SignedOutClean'
  BY DEF OwnInv
<1>1. CASE Edit
  <2>1. ~ crossed /\ owner = active /\ loads = {} /\ active # Nobody
    BY <1>1 DEF Edit
  <2>2. OwnEverywhere /\ local'.from = local.from \cup {active}
    BY <1>1, <2>1 DEF Edit, OwnInv
  <2>3. QED
    BY <1>1, <2>1, <2>2, SettingsAssumption DEF Edit, OwnEverywhere, FreshLoad, SignedOutClean, TypeOK
<1>2. CASE Timer
  BY <1>2 DEF Timer, Pushed, OwnInv, OwnEverywhere, FreshLoad, SignedOutClean, HeldByOther
<1>3. ASSUME NEW p \in pushes, PushSaved(p) PROVE OwnInv'
  <2>1. ~ crossed /\ p.job.account \in Accounts
    BY <1>3 DEF PushSaved, TypeOK, Push, Job
  <2>2. \A a \in Accounts : server'[a].from \subseteq {a}
    BY <1>3, <2>1 DEF PushSaved, MergedInto, OwnInv, OwnEverywhere, TypeOK
  <2>3. QED
    BY <1>3, <2>1, <2>2 DEF PushSaved, syncVars, OwnInv, OwnEverywhere, FreshLoad, SignedOutClean, HeldByOther
<1>4. ASSUME NEW p \in pushes, PushRetried(p) PROVE OwnInv'
  BY <1>4 DEF PushRetried, syncVars, OwnInv, OwnEverywhere, FreshLoad, SignedOutClean, HeldByOther, TypeOK, Push
<1>5. ASSUME NEW p \in pushes, PushRefused(p) PROVE OwnInv'
  BY <1>5 DEF PushRefused, OwnInv, OwnEverywhere, FreshLoad, SignedOutClean, HeldByOther
<1>6. ASSUME NEW p \in pushes, PushGivenUp(p) PROVE OwnInv'
  BY <1>6 DEF PushGivenUp, syncVars, OwnInv, OwnEverywhere, FreshLoad, SignedOutClean, HeldByOther
<1>7. ASSUME NEW p \in pushes, PushThrows(p) PROVE OwnInv'
  BY <1>7 DEF PushThrows, syncVars, OwnInv, OwnEverywhere, FreshLoad, SignedOutClean, HeldByOther
<1>8. ASSUME NEW l \in loads, LoadServed(l) PROVE OwnInv'
  <2>1. ~ crossed /\ l \in Load
    BY <1>8 DEF LoadServed, TypeOK
  <2> DEFINE m == [l EXCEPT !.reply = server[l.account]]
  <2>2. /\ m.account = l.account /\ m.held = l.held /\ m.late = l.late
        /\ m.reply = server[l.account]
    BY <2>1 DEF Load
  <2>3. loads' = (loads \ {l}) \cup {m}
    BY <1>8 DEF LoadServed
  <2>4. OwnEverywhere' /\ SignedOutClean'
    BY <1>8, <2>1 DEF LoadServed, syncVars, OwnInv, OwnEverywhere, SignedOutClean
  <2>5. FreshLoad'
    <3>1. FreshLoad /\ OwnEverywhere /\ UNCHANGED <<active, blocked, owner>> /\ l.account \in Accounts
      BY <1>8, <2>1 DEF LoadServed, syncVars, OwnInv, Load
    <3> HIDE DEF m
    <3>2. QED
      BY <2>2, <2>3, <3>1 DEF FreshLoad, OwnEverywhere, HeldByOther
  <2>6. QED
    BY <2>4, <2>5 DEF OwnInv
<1>9. ASSUME NEW l \in loads, LoadAnswered(l) PROVE OwnInv'
  <2>1. ~ crossed /\ ~ l.late /\ OwnEverywhere /\ FreshLoad /\ SignedOutClean
    BY <1>9 DEF LoadAnswered, LoadDone, OwnInv
  <2>2. /\ l.account = active /\ blocked = Nobody /\ active \in Accounts
        /\ l.held = HeldByOther(active) /\ l.reply.from \subseteq {active}
        /\ loads' = loads \ {l} /\ \A k \in loads' : k.late
    BY <1>9, <2>1 DEF LoadAnswered, LoadDone, FreshLoad, TypeOK, Load
  <2>3. local'.from \subseteq {active}
    <3>1. ~ l.held => local.from \subseteq {active}
      BY <2>1, <2>2, OwnersOnly DEF HeldByOther
    <3>2. Imported(l).from \subseteq {active} /\ WithoutCopy(l).from \subseteq {active}
      BY <2>2, <3>1 DEF Imported, WithoutCopy, MergedInto, Defaults
    <3>3. QED
      BY <1>9, <3>2 DEF LoadAnswered
  <2>4. owner' = active /\ sync' = active
    BY <1>9, <2>2, SettingsAssumption DEF LoadAnswered, Enable
  <2>5. pending' # Nobody => pending'.settings.from \subseteq {pending'.account}
    BY <1>9, <2>1, <2>2, <2>3 DEF LoadAnswered, Enable, OwnEverywhere
  <2>6. QED
    BY <1>9, <2>1, <2>2, <2>3, <2>4, <2>5, SettingsAssumption
    DEF LoadAnswered, OwnInv, OwnEverywhere, FreshLoad, SignedOutClean
<1>10. ASSUME NEW l \in loads, LoadFailed(l) PROVE OwnInv'
  <2>1. ~ crossed /\ ~ l.late /\ OwnEverywhere /\ FreshLoad /\ SignedOutClean
    BY <1>10 DEF LoadFailed, LoadDone, OwnInv
  <2>2. /\ l.account = active /\ blocked = Nobody /\ active \in Accounts
        /\ l.held = HeldByOther(active)
        /\ loads' = loads \ {l} /\ \A k \in loads' : k.late
    BY <1>10, <2>1 DEF LoadFailed, LoadDone, FreshLoad, TypeOK, Load
  <2>3. OwnEverywhere'
    <3>1. CASE l.held
      BY <1>10, <2>1, <2>2, <3>1 DEF LoadFailed, DropsForeignState, Defaults, OwnEverywhere
    <3>2. CASE ~ l.held
      <4>1. local.from \subseteq {active}
        BY <2>1, <2>2, <3>2, OwnersOnly DEF HeldByOther
      <4>2. owner' = active /\ sync' = active /\ UNCHANGED <<local, pending, pushes, server>>
        BY <1>10, <2>2, <3>2, SettingsAssumption DEF LoadFailed, DropsForeignState
      <4>3. QED
        BY <2>1, <4>1, <4>2 DEF OwnEverywhere
    <3>3. QED
      BY <3>1, <3>2
  <2>4. QED
    BY <1>10, <2>2, <2>3, SettingsAssumption DEF LoadFailed, OwnInv, FreshLoad, SignedOutClean
<1>11. ASSUME NEW a \in Accounts, SignIn(a) PROVE OwnInv'
  <2>1. ~ crossed /\ OwnEverywhere
    BY <1>11 DEF SignIn, OwnInv
  <2>2. OwnEverywhere' /\ SignedOutClean'
    BY <1>11, <2>1, SettingsAssumption DEF SignIn, OwnEverywhere, SignedOutClean
  <2>3. FreshLoad'
    BY <1>11, FreshlyStarted DEF SignIn
  <2>4. QED
    BY <2>2, <2>3 DEF OwnInv
<1>12. ASSUME NEW kind, NEW to, [kind |-> kind, to |-> to] \in Change, BeginChange(kind, to)
       PROVE  OwnInv'
  BY <1>12 DEF BeginChange, Flushed, Pushed, OwnInv, OwnEverywhere, FreshLoad, SignedOutClean, HeldByOther
<1>13. CASE SwitchTo
  <2>1. ~ crossed /\ OwnEverywhere /\ change.to \in Accounts
    BY <1>13 DEF SwitchTo, Settled, OwnInv, TypeOK, Change
  <2>2. OwnEverywhere' /\ SignedOutClean'
    BY <1>13, <2>1, SettingsAssumption DEF SwitchTo, SyncOff, OwnEverywhere, SignedOutClean
  <2>3. FreshLoad'
    BY <1>13, <2>1, FreshlyStarted DEF SwitchTo
  <2>4. QED
    BY <2>2, <2>3 DEF OwnInv
<1>14. CASE SwitchRefused
  BY <1>14, Typed DEF SwitchRefused, SyncOff, NowLate, OwnInv, OwnEverywhere, FreshLoad, SignedOutClean
<1>15. CASE SignedOut
  BY <1>15 DEF SignedOut, SyncOff, Forget, Defaults, OwnInv, OwnEverywhere, FreshLoad, SignedOutClean
<1>16. CASE Reload
  <2>1. ~ crossed /\ OwnEverywhere /\ active \in Accounts
    BY <1>16 DEF Reload, OwnInv, TypeOK
  <2>2. \A p \in pushes : [p EXCEPT !.awaited = FALSE].job = p.job
    BY DEF TypeOK, Push
  <2>3. OwnEverywhere' /\ SignedOutClean'
    <3>1. \A q \in pushes' : \E p \in pushes : q.job = p.job
      BY <1>16, <2>2 DEF Reload
    <3>2. QED
      BY <1>16, <2>1, <3>1, SettingsAssumption DEF Reload, SyncOff, OwnEverywhere, SignedOutClean
  <2>4. FreshLoad'
    BY <1>16, <2>1, FreshlyStarted DEF Reload
  <2>5. QED
    BY <2>3, <2>4 DEF OwnInv
<1>17. CASE UNCHANGED vars
  BY <1>17 DEF vars, syncVars, OwnInv, OwnEverywhere, FreshLoad, SignedOutClean, HeldByOther
<1>18. \A a \in Accounts \cup {Nobody}, k \in {"switch", "refused", "sign_out"} :
         [kind |-> k, to |-> a] \in Change
  BY DEF Change
<1>19. active \in Accounts \cup {Nobody}
  BY DEF TypeOK
<1>20. QED
  BY <1>18, <1>19, <1>1, <1>2, <1>3, <1>4, <1>5, <1>6, <1>7, <1>8, <1>9, <1>10, <1>11, <1>12,
     <1>13, <1>14, <1>15, <1>16, <1>17 DEF Next, OwnInv

-----------------------------------------------------------------------------
(* No edit is lost.                                                        *)

(* A push under way keeps its job when it is retried or no longer awaited. *)
LEMMA JobKept ==
  ASSUME TypeOK, NEW p \in pushes
  PROVE  [p EXCEPT !.retries = 0].job = p.job /\ [p EXCEPT !.awaited = FALSE].job = p.job
BY DEF TypeOK, Push

(* A job that becomes a request carries on what its account's edits are    *)
(* covered by.                                                             *)
LEMMA SentOn ==
  ASSUME TypeOK, NEW a \in Accounts, EditKept(a), pending # Nobody,
         NEW awaited \in BOOLEAN, pushes' = Pushed(pending, awaited), pending' = Nobody,
         UNCHANGED <<server, due>>, a \notin OvertakenBy(pending)
  PROVE  Covered(a)' /\ \A p, q \in pushes' : p.job.account = a /\ q.job.account = a => p = q
<1> DEFINE sent == [job |-> pending, retries |-> 1, awaited |-> awaited]
<1>1. pushes' = pushes \cup {sent} /\ sent.job = pending
  BY DEF Pushed
<1> HIDE DEF sent
<1>2. CASE pending.account = a
  <2>1. ~ \E p \in pushes : p.job.account = a
    BY <1>2 DEF OvertakenBy, OnItsWay
  <2>2. pending.settings.edit >= due[a]
    BY <1>2 DEF EditKept, Waits
  <2>3. QED
    BY <1>1, <1>2, <2>1, <2>2 DEF Covered, OnItsWay
<1>3. CASE pending.account # a
  BY <1>1, <1>3 DEF EditKept, Waits, Covered, OnItsWay
<1>4. QED
  BY <1>2, <1>3

(* Unless `crossed`, an edit that is due stays on its way until it is on   *)
(* the server.                                                             *)
LEMMA KeptNext ==
  ASSUME TypeOK, DueMade, OwnInv, KeptInv, [Next]_vars
  PROVE  KeptInv'
<1> SUFFICES ASSUME ~ crossed', NEW a \in Accounts, a \notin troubled' PROVE EditKept(a)'
  BY DEF KeptInv
<1> USE DEF EditKept, Covered, Waits, OnItsWay
<1>1. CASE Edit
  <2>1. ~ crossed /\ loads = {} /\ a \notin troubled /\ EditKept(a)
    BY <1>1 DEF Edit, KeptInv
  <2>2. edits \in Nat /\ due[a] \in Nat /\ due[a] =< edits /\ local'.edit = edits + 1
    BY <1>1, SettingsAssumption DEF Edit, TypeOK, DueMade
  <2>3. UNCHANGED <<pushes, loads, server, change>>
    BY <1>1 DEF Edit
  <2>4. CASE sync = Nobody
    BY <1>1, <2>1, <2>3, <2>4 DEF Edit
  <2>5. CASE sync # Nobody /\ sync = a
    <3>1. pending' = [account |-> a, settings |-> local']
      BY <1>1, <2>5 DEF Edit
    <3>2. due'[a] = IF change = Nobody THEN edits + 1 ELSE due[a]
      BY <1>1, <2>5 DEF Edit, TypeOK
    <3>3. change # Nobody => Covered(a)' /\ due'[a] = due[a]
      BY <2>1, <2>3, <3>2
    <3>4. pending' # Nobody /\ pending'.account = a /\ pending'.settings.edit >= due'[a]
      <4>1. local' \in Settings
        BY <1>1, SettingsAssumption DEF Edit, TypeOK, Settings
      <4>2. pending' \in Job
        BY <3>1, <4>1 DEF Job
      <4>3. QED
        BY <2>2, <3>1, <3>2, <4>2, SettingsAssumption
    <3>5. QED
      BY <2>1, <2>3, <3>3, <3>4
  <2>6. CASE sync # Nobody /\ sync # a
    <3>1. pending' = [account |-> sync, settings |-> local'] /\ due'[a] = due[a]
      BY <1>1, <2>6 DEF Edit, TypeOK
    <3>2. ~ Waits(a) /\ ~ Waits(a)'
      BY <1>1, <2>6, <3>1 DEF Edit, Replaces
    <3>3. QED
      BY <2>1, <2>3, <3>1, <3>2
  <2>7. QED
    BY <2>4, <2>5, <2>6
<1>2. CASE Timer
  <2>1. ~ crossed /\ EditKept(a) /\ a \notin OvertakenBy(pending) /\ loads' = loads /\ due' = due
    BY <1>2 DEF Timer, KeptInv
  <2>2. Covered(a)' /\ \A p, q \in pushes' : p.job.account = a /\ q.job.account = a => p = q
    BY <1>2, <2>1, SentOn DEF Timer
  <2>3. QED
    BY <1>2, <2>1, <2>2 DEF Timer
<1>3. ASSUME NEW p \in pushes, PushSaved(p) PROVE EditKept(a)'
  <2>1. EditKept(a) /\ pushes' = pushes \ {p} /\ UNCHANGED <<pending, change, due, loads>>
    BY <1>3 DEF PushSaved, syncVars, KeptInv
  <2>2. CASE p.job.account = a
    <3>1. server'[a].edit = p.job.settings.edit
      BY <1>3, <2>2 DEF PushSaved, MergedInto, TypeOK
    <3>2. QED
      BY <2>1, <2>2, <3>1
  <2>3. CASE p.job.account # a
    <3>1. server'[a] = server[a]
      BY <1>3, <2>3 DEF PushSaved, TypeOK
    <3>2. QED
      BY <2>1, <2>3, <3>1
  <2>4. QED
    BY <2>2, <2>3
<1>4. ASSUME NEW p \in pushes, PushRetried(p) PROVE EditKept(a)'
  <2> DEFINE q == [p EXCEPT !.retries = 0]
  <2>1. q.job = p.job /\ pushes' = (pushes \ {p}) \cup {q}
    BY <1>4, JobKept DEF PushRetried
  <2>2. EditKept(a) /\ UNCHANGED <<pending, change, due, loads, server>>
    BY <1>4 DEF PushRetried, syncVars, KeptInv
  <2> HIDE DEF q
  <2>3. QED
    BY <2>1, <2>2
<1>5. ASSUME NEW p \in pushes, PushRefused(p) PROVE EditKept(a)'
  BY <1>5 DEF PushRefused, Troubled, KeptInv
<1>6. ASSUME NEW p \in pushes, PushGivenUp(p) PROVE EditKept(a)'
  BY <1>6 DEF PushGivenUp, Troubled, syncVars, KeptInv
<1>7. ASSUME NEW p \in pushes, PushThrows(p) PROVE EditKept(a)'
  BY <1>7 DEF PushThrows, Troubled, syncVars, KeptInv
<1>8. ASSUME NEW l \in loads, LoadServed(l) PROVE EditKept(a)'
  <2> DEFINE m == [l EXCEPT !.reply = server[l.account]]
  <2>1. m.account = l.account /\ m.late = l.late /\ m.reply = server[l.account]
    BY <1>8 DEF TypeOK, Load
  <2>2. loads' = (loads \ {l}) \cup {m} /\ UNCHANGED <<pending, change, due, pushes, server>>
    BY <1>8 DEF LoadServed, syncVars
  <2>3. EditKept(a) /\ (l.account = a => ~ Waits(a) /\ ~ OnItsWay(a))
    BY <1>8 DEF LoadServed, KeptInv
  <2> HIDE DEF m
  <2>4. QED
    BY <2>1, <2>2, <2>3
<1>9. ASSUME NEW l \in loads, LoadAnswered(l) PROVE EditKept(a)'
  <2>1. /\ EditKept(a) /\ ~ l.late /\ l.reply # Nobody
        /\ loads' = loads \ {l} /\ UNCHANGED <<pushes, change, due, server>>
        /\ l.account \in Accounts
    BY <1>9 DEF LoadAnswered, LoadDone, Enable, KeptInv, TypeOK, Load
  <2>2. CASE pending' = pending
    BY <2>1, <2>2
  <2>3. CASE pending' # pending /\ l.account = a
    <3>1. pending' = [account |-> a, settings |-> local']
      BY <1>9, <2>3 DEF LoadAnswered, Enable
    <3>2. local'.edit >= due[a]
      <4>1. l.reply.edit >= due[a] /\ due[a] \in Nat /\ l.reply.edit \in Nat
        BY <2>1, <2>3, SettingsAssumption DEF TypeOK, Load, Settings
      <4>2. CASE l.reply = Defaults
        <5>1. due[a] = 0 /\ local'.edit \in Nat
          BY <1>9, <4>1, <4>2, SettingsAssumption
          DEF LoadAnswered, WithoutCopy, Defaults, TypeOK, Settings
        <5>2. QED
          BY <5>1
      <4>3. CASE l.reply # Defaults
        BY <1>9, <4>1, <4>3 DEF LoadAnswered, Imported, MergedInto
      <4>4. QED
        BY <4>2, <4>3
    <3>3. pending' # Nobody
      <4>1. local' \in Settings
        BY <1>9 DEF LoadAnswered, WithoutCopy, Imported, MergedInto, Defaults, TypeOK, Load, Settings
      <4>2. QED
        BY <3>1, <4>1, SettingsAssumption DEF Job
    <3>4. pending'.settings.edit >= due'[a]
      BY <2>1, <3>1, <3>2
    <3>5. \A k \in loads' : k \in loads
      BY <2>1
    <3>6. change' # Nobody \/ ~ Waits(a)' => Covered(a)'
      BY <2>1, <2>3, <3>1, <3>3 DEF Job
    <3>7. QED
      BY <2>1, <3>4, <3>5, <3>6
  <2>4. CASE pending' # pending /\ l.account # a
    <3>1. pending' = [account |-> l.account, settings |-> local'] /\ ~ Waits(a)
      BY <1>9, <2>4 DEF LoadAnswered, Enable, Replaces
    <3>2. QED
      BY <2>1, <2>4, <3>1
  <2>5. QED
    BY <2>2, <2>3, <2>4
<1>10. ASSUME NEW l \in loads, LoadFailed(l) PROVE EditKept(a)'
  BY <1>10 DEF LoadFailed, LoadDone, KeptInv
<1>11. ASSUME NEW b \in Accounts, SignIn(b) PROVE EditKept(a)'
  <2>1. EditKept(a) /\ UNCHANGED <<pending, pushes, change, due, server>>
    BY <1>11 DEF SignIn, KeptInv
  <2>2. \A l \in loads' : ~ l.late => l.reply = Nobody
    BY <1>11, Typed DEF SignIn, Started
  <2>3. QED
    BY <2>1, <2>2
<1>12. ASSUME NEW kind, NEW to, [kind |-> kind, to |-> to] \in Change, BeginChange(kind, to)
       PROVE  EditKept(a)'
  <2>1. EditKept(a) /\ change = Nobody /\ pending' = Nobody /\ UNCHANGED <<loads, due, server>>
    BY <1>12 DEF BeginChange, KeptInv
  <2>2. CASE pending = Nobody
    BY <1>12, <2>1, <2>2 DEF BeginChange, Flushed
  <2>3. CASE pending # Nobody
    <3>1. Covered(a)' /\ \A p, q \in pushes' : p.job.account = a /\ q.job.account = a => p = q
      BY <1>12, <2>1, <2>3, SentOn DEF BeginChange, Flushed
    <3>2. QED
      BY <2>1, <3>1
  <2>4. QED
    BY <2>2, <2>3
<1>13. CASE SwitchTo
  <2>1. /\ EditKept(a) /\ change # Nobody /\ pending' = Nobody
        /\ UNCHANGED <<pushes, due, server>> /\ change.to \in Accounts
    BY <1>13 DEF SwitchTo, Settled, SyncOff, KeptInv, TypeOK, Change
  <2>2. \A l \in loads' : ~ l.late => l.reply = Nobody
    BY <1>13, <2>1, Typed DEF SwitchTo, Started
  <2>3. QED
    BY <2>1, <2>2
<1>14. CASE SwitchRefused
  BY <1>14, Typed DEF SwitchRefused, Settled, SyncOff, KeptInv
<1>15. CASE SignedOut
  BY <1>15 DEF SignedOut, Settled, SyncOff, KeptInv
<1>16. CASE Reload
  <2>1. EditKept(a) /\ ~ Waits(a) /\ pending' = Nobody /\ UNCHANGED <<due, server>>
    BY <1>16 DEF Reload, SyncOff, KeptInv
  <2>2. \A l \in loads' : l.reply = Nobody
    BY <1>16 DEF Reload, Started
  <2>3. pushes' = {[p EXCEPT !.awaited = FALSE] : p \in pushes}
    BY <1>16 DEF Reload
  <2>4. /\ \A q \in pushes' : \E p \in pushes : q = [p EXCEPT !.awaited = FALSE] /\ q.job = p.job
        /\ \A p \in pushes : \E q \in pushes' : q.job = p.job
    BY <2>3, JobKept
  <2>5. Covered(a)'
    BY <2>1, <2>4
  <2>6. ASSUME NEW q \in pushes', NEW r \in pushes', q.job.account = a, r.job.account = a
        PROVE  q = r
    <3>1. PICK p \in pushes : q = [p EXCEPT !.awaited = FALSE] /\ q.job = p.job
      BY <2>4
    <3>2. PICK o \in pushes : r = [o EXCEPT !.awaited = FALSE] /\ r.job = o.job
      BY <2>4
    <3>3. p = o
      BY <2>1, <2>6, <3>1, <3>2
    <3>4. QED
      BY <3>1, <3>2, <3>3
  <2>7. QED
    BY <2>1, <2>2, <2>5, <2>6
<1>17. CASE UNCHANGED vars
  BY <1>17 DEF vars, syncVars, KeptInv
<1>18. \A b \in Accounts \cup {Nobody}, k \in {"switch", "refused", "sign_out"} :
         [kind |-> k, to |-> b] \in Change
  BY DEF Change
<1>19. active \in Accounts \cup {Nobody}
  BY DEF TypeOK
<1> HIDE DEF EditKept, Covered, Waits, OnItsWay
<1>20. QED
  BY <1>18, <1>19, <1>1, <1>2, <1>3, <1>4, <1>5, <1>6, <1>7, <1>8, <1>9, <1>10, <1>11, <1>12,
     <1>13, <1>14, <1>15, <1>16, <1>17 DEF Next

-----------------------------------------------------------------------------
(* The invariant, and what follows from it.                                *)

(* Before anybody has signed in nothing is known, nothing travels, and a   *)
(* copy on the server is its account's.                                    *)
LEMMA Initially == Init => IInv
<1> SUFFICES ASSUME Init PROVE IInv
  OBVIOUS
<1>1. TypeOK
  <2>1. {Defaults} \cup {[from |-> {a}, edit |-> 0] : a \in Accounts} \subseteq Settings
    BY SettingsAssumption DEF Settings, Defaults
  <2>2. server \in [Accounts -> Settings]
    BY <2>1 DEF Init
  <2>3. local \in Settings /\ 0 \in 0 .. MaxEdits /\ 0 \in 0 .. MaxLoads
    BY SettingsAssumption DEF Init, Settings, Defaults
  <2>4. QED
    BY <2>2, <2>3 DEF Init, TypeOK
<1>2. OneAwaited /\ DueMade
  BY DEF Init, OneAwaited, DueMade
<1>3. OwnInv
  BY DEF Init, OwnInv, OwnEverywhere, FreshLoad, SignedOutClean, Defaults
<1>4. KeptInv
  <2> SUFFICES ASSUME NEW a \in Accounts PROVE EditKept(a)
    BY DEF KeptInv
  <2>1. server[a].edit \in Nat /\ due[a] = 0
    BY <1>1, SettingsAssumption DEF Init, TypeOK, Settings
  <2>2. QED
    BY <2>1 DEF Init, EditKept, Covered, Waits
<1>5. QED
  BY <1>1, <1>2, <1>3, <1>4 DEF IInv

(* An edit is due only once it was made.                                   *)
LEMMA DueNext ==
  ASSUME TypeOK, DueMade, [Next]_vars
  PROVE  DueMade'
<1>1. CASE Edit
  BY <1>1, SettingsAssumption DEF Edit, DueMade, TypeOK
<1>2. CASE ~ Edit
  BY <1>2 DEF Next, vars, syncVars, DueMade, Timer, PushSaved, PushRetried, PushRefused, PushGivenUp,
     PushThrows, LoadServed, LoadAnswered, LoadFailed, SignIn, BeginChange, SwitchTo,
     SwitchRefused, SignedOut, Reload
<1>3. QED
  BY <1>1, <1>2

(* The invariant holds whatever loads, pushes and changes of account       *)
(* overtake each other.                                                    *)
THEOREM Invariance == Spec => []IInv
<1>1. IInv /\ [Next]_vars => IInv'
  BY TypeNext, OwnNext, KeptNext, DueNext DEF IInv
<1>2. QED
  BY <1>1, Initially, PTL DEF Spec

(* The variables keep to their types, and only a change of account under   *)
(* way awaits a push.                                                      *)
THEOREM TypeCorrect == Spec => []TypeOK
<1>1. IInv => TypeOK
  BY DEF IInv
<1>2. QED
  BY <1>1, Invariance, PTL

(* Unless an edit or a late answer crossed a change of account, nobody's   *)
(* settings end up in another account's copy.                              *)
THEOREM OwnOnly == Spec => []OwnSettingsOnly
<1>1. IInv => OwnSettingsOnly
  BY DEF IInv, OwnInv, OwnEverywhere, OwnSettingsOnly, NoForeignSettings
<1>2. QED
  BY <1>1, Invariance, PTL

(* An edit made with sync on reaches the server, unless a push failed or   *)
(* was overtaken.                                                          *)
THEOREM Saved == Spec => []EditsSaved
<1>1. IInv => EditsSaved
  BY DEF IInv, KeptInv, EditKept, Covered, EditsSaved
<1>2. QED
  BY <1>1, Invariance, PTL

(* Signed out, the browser holds nobody's settings.                        *)
THEOREM Forgets == Spec => []SignedOutForgets
<1>1. IInv => SignedOutForgets
  <2> SUFFICES ASSUME IInv, active = Nobody, ~ crossed PROVE owner = Nobody /\ local.from = {}
    BY DEF SignedOutForgets
  <2>1. owner = Nobody /\ OwnEverywhere /\ TypeOK
    BY DEF IInv, OwnInv, SignedOutClean
  <2>2. Nobody \notin Accounts /\ local.from \subseteq Accounts
    BY <2>1, SettingsAssumption DEF TypeOK, Settings
  <2>3. QED
    BY <2>1, <2>2 DEF OwnEverywhere
<1>2. QED
  BY <1>1, Invariance, PTL
=============================================================================
