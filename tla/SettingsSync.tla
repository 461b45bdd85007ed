---------------------------- MODULE SettingsSync ----------------------------
(***************************************************************************)
(* Settings sync in one tab (stores/settings-store.ts) as the sign-in,     *)
(* switch and sign-out of stores/auth-store.ts drive it.  The browser has  *)
(* one set of settings for all its accounts; "settings-sync-owner" names   *)
(* the account whose server copy it mirrors.  A change is pushed 2 seconds *)
(* later; becoming active loads the account's copy.  Loads and pushes are  *)
(* requests, which other loads, pushes and changes of account overtake.    *)
(*                                                                         *)
(* Settings are abstracted to whose they are (the accounts whose copy or   *)
(* edits they hold) and to the last edit in them.                          *)
(***************************************************************************)
EXTENDS Integers, FiniteSets

CONSTANTS
  Accounts,
  MaxEdits,   \* bound: edits
  MaxLoads,   \* bound: loads started
  MaxPushes,  \* bound: pushes on their way together
  Nobody      \* no account, no job, no change of account

Settings == [from : SUBSET Accounts, edit : 0 .. MaxEdits]
Defaults == [from |-> {}, edit |-> 0]
Job == [account : Accounts, settings : Settings]

(* A POST on its way: `retries` left, and whether a change of account      *)
(* awaits it (flushSync).                                                  *)
Push == [job : Job, retries : 0 .. 1, awaited : BOOLEAN]

(* A GET on its way: what it read of the server, whether the settings were *)
(* another account's when it began, and (history) whether another account  *)
(* came on screen or sync was switched off since.                          *)
Load == [account : Accounts, held : BOOLEAN, reply : Settings \cup {Nobody}, late : BOOLEAN]

(* A switch or sign-out that waits for its flush, and what comes next.     *)
Change == [kind : {"switch", "refused", "sign_out"}, to : Accounts \cup {Nobody}]

ASSUME SettingsAssumption ==
  /\ Nobody \notin Accounts \cup Settings \cup Job \cup Change
  /\ {MaxEdits, MaxLoads, MaxPushes} \subseteq Nat

VARIABLES
  active,   \* the account on screen
  owner,    \* settings-sync-owner
  local,    \* the settings in the tab
  sync,     \* the account changes are pushed for (syncEnabled, syncUsername)
  pending,  \* pendingSync, with its timer running
  pushes, loads,
  loaded,   \* how many loads were started
  blocked,  \* blockedSyncAccountId
  change,
  server,   \* the accounts' copies; Defaults if there is none
  edits,    \* how many edits were made
  due,      \* history: the last edit made with sync on and no change under way
  troubled, \* history: accounts with a push that failed or was overtaken
  crossed   \* history: an edit was made in settings that were not the account's
            \*   or still being loaded, or a load was answered late

syncVars == <<owner, local, sync, pending, blocked>>
vars == <<active, owner, local, sync, pending, pushes, loads, loaded, blocked, change,
          server, edits, due, troubled, crossed>>

Init ==
  /\ active = Nobody /\ owner = Nobody /\ local = Defaults
  /\ sync = Nobody /\ pending = Nobody /\ blocked = Nobody /\ change = Nobody
  /\ pushes = {} /\ loads = {} /\ loaded = 0
  /\ server \in [Accounts -> {Defaults} \cup {[from |-> {a}, edit |-> 0] : a \in Accounts}]
  /\ \A a \in Accounts : server[a].from \subseteq {a}
  /\ edits = 0 /\ due = [a \in Accounts |-> 0] /\ troubled = {} /\ crossed = FALSE

-----------------------------------------------------------------------------
(* A job that takes the place of another account's waiting one.            *)
Replaces(a) == IF pending = Nobody THEN {} ELSE {pending.account} \ {a}

(* The user edits a setting; triggerSync, if sync is on, takes a snapshot  *)
(* and (re)starts the timer.                                               *)
Edit ==
  /\ active # Nobody /\ edits < MaxEdits
  /\ edits' = edits + 1
  /\ local' = [from |-> local.from \cup {active}, edit |-> edits + 1]
  /\ IF sync = Nobody THEN UNCHANGED <<pending, due, troubled>>
     ELSE /\ pending' = [account |-> sync, settings |-> local']
          /\ troubled' = troubled \cup Replaces(sync)
          /\ due' = IF change = Nobody THEN [due EXCEPT ![sync] = edits + 1] ELSE due
  /\ crossed' = (crossed \/ owner # active \/ loads # {})
  /\ UNCHANGED <<active, owner, sync, pushes, loads, loaded, blocked, change, server>>

(* A job becomes a request.                                                *)
Pushed(job, awaited) == pushes \cup {[job |-> job, retries |-> 1, awaited |-> awaited]}
OnItsWay(a) == \E p \in pushes : p.job.account = a
OvertakenBy(job) == {a \in {job.account} : OnItsWay(a)}
Waits(a) == pending # Nobody /\ pending.account = a

Timer ==
  /\ pending # Nobody /\ Cardinality(pushes) < MaxPushes
  /\ pushes' = Pushed(pending, FALSE)
  /\ troubled' = troubled \cup OvertakenBy(pending)
  /\ pending' = Nobody
  /\ UNCHANGED <<active, owner, local, sync, loads, loaded, blocked, change, server, edits, due, crossed>>

(* The server merges templates and calendar subscriptions into its copy.   *)
MergedInto(copy, settings) == [from |-> copy.from \cup settings.from, edit |-> settings.edit]

PushSaved(p) ==
  /\ pushes' = pushes \ {p}
  /\ server' = [server EXCEPT ![p.job.account] = MergedInto(@, p.job.settings)]
  /\ UNCHANGED <<active, syncVars, loads, loaded, change, edits, due, troubled, crossed>>

(* 5xx: once more, 2 seconds later.                                        *)
PushRetried(p) ==
  /\ p.retries > 0
  /\ pushes' = (pushes \ {p}) \cup {[p EXCEPT !.retries = 0]}
  /\ UNCHANGED <<active, syncVars, loads, loaded, change, server, edits, due, troubled, crossed>>

Troubled(p) == troubled' = troubled \cup {p.job.account}

(* 404 and 403 switch sync off, whoever's it is by now.                    *)
PushRefused(p) ==
  /\ pushes' = pushes \ {p}
  /\ sync' = Nobody
  /\ Troubled(p)
  /\ UNCHANGED <<active, owner, local, pending, loads, loaded, blocked, change, server, edits, due, crossed>>

(* A second 5xx, or another refusal, is only logged.                       *)
PushGivenUp(p) ==
  /\ pushes' = pushes \ {p}
  /\ Troubled(p)
  /\ UNCHANGED <<active, syncVars, loads, loaded, change, server, edits, due, crossed>>

(* No connection: fetch throws.  The timer catches it; flushSync does not, *)
(* and neither do its callers.                                             *)
PushThrows(p) ==
  /\ pushes' = pushes \ {p}
  /\ Troubled(p)
  /\ change' = IF p.awaited THEN Nobody ELSE change
  /\ UNCHANGED <<active, syncVars, loads, loaded, server, edits, due, crossed>>

-----------------------------------------------------------------------------
(* Becoming active: loadFromServer, which finds out at once whether the    *)
(* settings are another account's.                                         *)
HeldByOther(a) == owner # Nobody /\ owner # a

Started(a, since) ==
  since \cup {[account |-> a, held |-> HeldByOther(a), reply |-> Nobody, late |-> FALSE]}

(* The account changes while a load is on its way: it answers late.        *)
NowLate == {[l EXCEPT !.late = TRUE] : l \in loads}

(* The server reads the copy, and the answer travels back.                 *)
LoadServed(l) ==
  /\ l.reply = Nobody
  /\ loads' = (loads \ {l}) \cup {[l EXCEPT !.reply = server[l.account]]}
  /\ troubled' = troubled \cup {a \in {l.account} : Waits(a) \/ OnItsWay(a)}
  /\ UNCHANGED <<active, syncVars, pushes, loaded, change, server, edits, due, crossed>>

(* Mutant: another account's settings are left in place.                   *)
ImportedOver(l) == MergedInto(local, l.reply)

(* importSettings leaves what the copy lacks as it is.                     *)
Imported(l) == MergedInto(IF l.held THEN Defaults ELSE local, l.reply)

(* Mutant: a new account without a copy adopts what is there.              *)
AdoptedWithoutCopy(l) == local

(* What is left without a copy: a new account starts from the defaults.    *)
WithoutCopy(l) == IF l.held THEN Defaults ELSE local

LoadDone(l) ==
  /\ loads' = loads \ {l}
  /\ crossed' = (crossed \/ l.late)

(* enableSync, and the push of templates the copy lacks.                   *)
Enable(a, settings) ==
  /\ owner' = a
  /\ IF blocked = a THEN UNCHANGED <<sync, pending, troubled>>
     ELSE /\ sync' = a
          /\ \E ahead \in BOOLEAN :
               /\ ahead => settings # server[a]
               /\ pending' = IF ahead THEN [account |-> a, settings |-> settings] ELSE pending
               /\ troubled' = IF ahead THEN troubled \cup Replaces(a) ELSE troubled

LoadAnswered(l) ==
  /\ l.reply # Nobody
  /\ LoadDone(l)
  /\ local' = IF l.reply = Defaults THEN WithoutCopy(l) ELSE Imported(l)
  /\ Enable(l.account, local')
  /\ UNCHANGED <<active, pushes, loaded, blocked, change, server, edits, due>>

(* Mutant: the settings of another account stay when a load fails.         *)
KeepsForeignState(l) == FALSE

(* Whether failWithoutForeignState drops the settings in the tab.          *)
DropsForeignState(l) == l.held

LoadFailed(l) ==
  /\ LoadDone(l)
  /\ IF DropsForeignState(l)
     THEN local' = Defaults /\ owner' = Nobody /\ blocked' = l.account /\ UNCHANGED sync
     ELSE /\ IF blocked = l.account THEN UNCHANGED <<owner, sync>>
             ELSE owner' = l.account /\ sync' = l.account
          /\ UNCHANGED <<local, blocked>>
  /\ UNCHANGED <<active, pending, pushes, loaded, change, server, edits, due, troubled>>

-----------------------------------------------------------------------------
(* The paths of auth-store.                                                *)

MayLoad == loaded < MaxLoads

(* A sign-in, from the login page or beside the accounts signed in.        *)
SignIn(a) ==
  /\ change = Nobody /\ a # active /\ MayLoad
  /\ active' = a
  /\ loads' = Started(a, NowLate) /\ loaded' = loaded + 1 /\ blocked' = Nobody
  /\ UNCHANGED <<owner, local, sync, pending, pushes, change, server, edits, due, troubled, crossed>>

(* Mutant: a switch does not wait for the last edits to be saved.          *)
NothingToFlush == pushes

(* flushSync: the waiting job goes out now.                                *)
Flushed == IF pending = Nobody THEN pushes ELSE Pushed(pending, TRUE)

(* A switch of account, one that the target refuses, or a sign-out, begins *)
(* with the last edits.                                                    *)
BeginChange(kind, to) ==
  /\ change = Nobody /\ active # Nobody
  /\ kind # "refused" /\ to # Nobody => MayLoad
  /\ pending = Nobody \/ Cardinality(pushes) < MaxPushes
  /\ change' = [kind |-> kind, to |-> to]
  /\ pushes' = Flushed
  /\ pending' = Nobody
  /\ troubled' = IF pending = Nobody THEN troubled ELSE troubled \cup OvertakenBy(pending)
  /\ UNCHANGED <<active, owner, local, sync, loads, loaded, blocked, server, edits, due, crossed>>

Settled == change # Nobody /\ ~ \E p \in pushes : p.awaited

(* disableSync *)
SyncOff == sync' = Nobody /\ pending' = Nobody

(* ... then the other account is on screen and its settings are loaded.    *)
SwitchTo ==
  /\ Settled /\ change.kind \in {"switch", "sign_out"} /\ change.to # Nobody
  /\ MayLoad
  /\ SyncOff
  /\ active' = change.to
  /\ loads' = Started(change.to, NowLate) /\ loaded' = loaded + 1 /\ blocked' = Nobody
  /\ change' = Nobody
  /\ UNCHANGED <<owner, local, pushes, server, edits, due, troubled, crossed>>

(* The target cannot be reached: the previous account is put back, without *)
(* resumeSettingsSync.                                                     *)
SwitchRefused ==
  /\ Settled /\ change.kind = "refused"
  /\ SyncOff
  /\ loads' = NowLate
  /\ change' = Nobody
  /\ UNCHANGED <<active, owner, local, pushes, loaded, blocked, server, edits, due, troubled, crossed>>

(* Mutant: the signed-out account's settings stay.                         *)
ForgetOwnerOnly == owner' = Nobody /\ local' = local

(* forgetSyncedSettings: settings that never synced are the device's own.  *)
Forget ==
  /\ owner' = Nobody
  /\ local' = IF owner = Nobody THEN local ELSE Defaults

(* performFullLogout; the page is left for the login page.                 *)
SignedOut ==
  /\ Settled /\ change.kind = "sign_out" /\ change.to = Nobody
  /\ SyncOff
  /\ Forget
  /\ active' = Nobody /\ blocked' = Nobody
  /\ loads' = {}
  /\ change' = Nobody
  /\ UNCHANGED <<pushes, loaded, server, edits, due, troubled, crossed>>

(* The page is reloaded; what waited in it is gone.                        *)
Reload ==
  /\ active # Nobody /\ MayLoad
  /\ SyncOff
  /\ loads' = Started(active, {}) /\ loaded' = loaded + 1 /\ blocked' = Nobody
  /\ change' = Nobody
  /\ pushes' = {[p EXCEPT !.awaited = FALSE] : p \in pushes}
  /\ troubled' = IF pending = Nobody THEN troubled ELSE troubled \cup {pending.account}
  /\ UNCHANGED <<active, owner, local, server, edits, due, crossed>>

Next ==
  \/ Edit \/ Timer
  \/ \E p \in pushes :
       PushSaved(p) \/ PushRetried(p) \/ PushRefused(p) \/ PushGivenUp(p) \/ PushThrows(p)
  \/ \E l \in loads : LoadServed(l) \/ LoadAnswered(l) \/ LoadFailed(l)
  \/ \E a \in Accounts : SignIn(a) \/ (a # active /\ BeginChange("switch", a))
  \/ \E to \in (Accounts \cup {Nobody}) \ {active} : BeginChange("sign_out", to)
  \/ BeginChange("refused", active)
  \/ SwitchTo \/ SwitchRefused \/ SignedOut \/ Reload

Spec == Init /\ [][Next]_vars

-----------------------------------------------------------------------------
(* Properties.                                                             *)

(* Only a switch or sign-out under way awaits a push.                      *)
TypeOK ==
  /\ active \in Accounts \cup {Nobody} /\ owner \in Accounts \cup {Nobody}
  /\ sync \in Accounts \cup {Nobody} /\ blocked \in Accounts \cup {Nobody}
  /\ local \in Settings
  /\ pending \in Job \cup {Nobody}
  /\ pushes \subseteq Push /\ loads \subseteq Load
  /\ change \in Change \cup {Nobody}
  /\ (\E p \in pushes : p.awaited) => change # Nobody
  /\ server \in [Accounts -> Settings]
  /\ loaded \in 0 .. MaxLoads /\ edits \in 0 .. MaxEdits /\ due \in [Accounts -> 0 .. MaxEdits]
  /\ troubled \subseteq Accounts /\ crossed \in BOOLEAN

(* Nobody's settings end up in another account's copy on the server: not   *)
(* by switching back and forth, not through a copy that is missing or      *)
(* cannot be read, not by signing out (#1185).                             *)
NoForeignSettings == \A a \in Accounts : server[a].from \subseteq {a}

(* The same, but for the exceptions that `crossed` names.                  *)
OwnSettingsOnly == ~ crossed => NoForeignSettings

(* "save the last edits first": an edit made with sync on is on the server *)
(* once nothing waits or travels, whatever the user does after it, unless  *)
(* a push of the account failed or was overtaken by another request, or    *)
(* another account's change took its place (or `crossed`).                 *)
EditsSaved ==
  ~ crossed => \A a \in Accounts \ troubled :
    ~ Waits(a) /\ ~ OnItsWay(a) => server[a].edit >= due[a]

(* Once everybody is signed out, the browser holds nobody's settings.      *)
SignedOutForgets ==
  active = Nobody /\ ~ crossed => owner = Nobody /\ local.from = {}

(* A sign-out under way goes through: nothing that it waits for stops it   *)
(* ("they cannot stop it or hold it up, or a plugin could keep the user    *)
(* signed in on a shared computer").                                       *)
SignOutGoesThrough ==
  [][change # Nobody /\ change.kind = "sign_out" /\ change' = Nobody /\ ~ Reload
     => active' # active]_vars
=============================================================================
