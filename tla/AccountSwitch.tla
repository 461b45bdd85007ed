--------------------------- MODULE AccountSwitch ---------------------------
(***************************************************************************)
(* stores/auth-store.ts, lib/account-state-manager.ts, lib/store-epoch.ts: *)
(* one browser tab with several signed-in accounts.  One account is on     *)
(* screen; its mail fills global stores.  Switching snapshots the stores,  *)
(* empties them and fills them with the target's snapshot or with a fetch. *)
(*                                                                         *)
(* JavaScript runs an async function to its next `await` at once, so each  *)
(* action below is the code between two awaits.                            *)
(***************************************************************************)
EXTENDS Integers, FiniteSets

CONSTANTS
  Accounts,     \* AccountEntry.id of the logins of this browser
  Awaiting,     \* accounts with `awaitingSignIn`: listed, never signed in here
  MaxSwitches,  \* bound: switchAccount calls
  MaxOthers,    \* bound: sign-outs, removals and sign-ins
  MaxFetches,   \* bound: the mail page starts no fetch beside that many
  Overlapping,  \* TRUE: those may also run while a switch is under way
  None          \* null: no account, no snapshot

ASSUME AccountsAssumption == None \notin Accounts /\ Awaiting \subseteq Accounts
ASSUME BoundAssumption == MaxSwitches \in Nat /\ MaxOthers \in Nat /\ MaxFetches \in Nat
ASSUME OverlappingAssumption == Overlapping \in BOOLEAN

(* What the account-scoped stores hold, by owner: `mail` for everything    *)
(* whose fetches check the store epoch, `ids` for the identity store.      *)
Stores == [mail : SUBSET Accounts, ids : Accounts \cup {None}]
EmptyStores == [mail |-> {}, ids |-> None]

ASSUME NoneAssumption == None \notin Stores

(* A fetch under way: whose client sent it, and whether clearAllStores has *)
(* bumped the epoch since.                                                 *)
Fetch == [owner : Accounts, epoch : {"current", "past"}]

(* A call of switchAccount: `prev` is state.activeAccountId as it began,   *)
(* `path` whether the target was connected then.                           *)
Ended == {"done", "failed", "threw"}
Phases == {"connect", "verify", "flush", "identities"} \cup Ended
Switch == [target : Accounts, prev : Accounts \cup {None},
           path : {"network", "seamless"}, phase : Phases]
Calls == 1 .. MaxSwitches

ASSUME NoSwitchAssumption == None \notin Switch

VARIABLES
  accounts,    \* the registry (account-store)
  clients,     \* accounts with a connected client in the `clients` Map
  active,      \* activeAccountId
  client,      \* whose client is bound (`client`), or None
  stores,      \* the account-scoped stores
  fetches,     \* fetches that will write to them
  cache,       \* account-state-manager's snapshots
  cleared,     \* storesClearedForSwitch
  switches,    \* the calls of switchAccount
  generation,  \* switchGeneration
  page,        \* "mail", "login", or "left" (another document is loading)
  signOut,     \* the logout() under way
  signIn,      \* the login() under way
  idLoads,     \* identity requests of logout() that nothing cancels
  renewals,    \* refreshAccessToken per account: isActive as it began
  halted,      \* history: accounts whose last sign-out ended at its flush
  others       \* sign-outs, removals and sign-ins so far

screen == <<active, client, stores, fetches, cache>>
calls == <<switches, generation, cleared>>
rest == <<signOut, signIn, idLoads, renewals, halted, others>>
vars == <<accounts, clients, screen, calls, page, rest>>

NoSignOut == [phase |-> "idle", account |-> None, refused |-> None]
NoSignIn == [phase |-> "idle", account |-> None]

Init ==
  /\ \E a \in Accounts \ Awaiting : active = a
  /\ client = active
  /\ accounts = Accounts
  /\ \E pool \in SUBSET (Accounts \ Awaiting) : clients = pool \cup {active}
  /\ stores = [mail |-> {active}, ids |-> active]
  /\ fetches = {}
  /\ cache = [a \in Accounts |-> None]
  /\ cleared = FALSE
  /\ switches = [i \in Calls |-> None]
  /\ generation = 0
  /\ page = "mail"
  /\ signOut = NoSignOut
  /\ signIn = NoSignIn
  /\ idLoads = {}
  /\ renewals = [a \in Accounts |-> "idle"]
  /\ halted = {}
  /\ others = 0

-----------------------------------------------------------------------------
(* lib/account-state-manager.ts and lib/store-epoch.ts, as functions.      *)

(* bumpStoreEpoch: every fetch under way now belongs to the past.          *)
Past(fs) == {[f EXCEPT !.epoch = "past"] : f \in fs}

StartFetch(fs, a) == fs \cup {[owner |-> a, epoch |-> "current"]}

(* Mutant: the snapshot does not look at storesClearedForSwitch.           *)
SwitchSnapshotAlways ==
  IF active # None THEN [cache EXCEPT ![active] = stores] ELSE cache

(* snapshotAndClearForSwitch, the snapshot: not of emptied stores.         *)
SwitchSnapshot ==
  IF ~ cleared /\ active # None THEN [cache EXCEPT ![active] = stores] ELSE cache

Running(i) == switches[i] # None /\ switches[i].phase \notin Ended
Switching == \E i \in Calls : Running(i)
(* Mutant: a switch never notices a newer one.                             *)
SupersededNever(i) == i > generation

Superseded(i) == i # generation
GoTo(i, phase) == switches' = [switches EXCEPT ![i].phase = phase]

-----------------------------------------------------------------------------
(* switchAccount                                                           *)

NewCall(t, path, phase) ==
  /\ generation' = generation + 1
  /\ switches' = [switches EXCEPT ![generation + 1] =
                    [target |-> t, prev |-> active, path |-> path, phase |-> phase]]

(* Every caller offers the registered accounts that are not active.        *)
MaySwitchTo(t) ==
  /\ page = "mail"
  /\ generation < MaxSwitches
  /\ t \in accounts /\ t # active
  /\ Overlapping \/ (signOut = NoSignOut /\ signIn = NoSignIn)

(* Listed but never signed in here: off to the login page.                 *)
SwitchToAwaiting(t) ==
  /\ MaySwitchTo(t) /\ t \in Awaiting \ clients
  /\ NewCall(t, "network", "failed")
  /\ page' = "left"
  /\ UNCHANGED <<accounts, clients, screen, cleared, rest>>

(* Connected already: the outgoing account stays on screen for now.        *)
SwitchSeamless(t) ==
  /\ MaySwitchTo(t) /\ t \in clients
  /\ NewCall(t, "seamless", "verify")
  /\ UNCHANGED <<accounts, clients, screen, cleared, page, rest>>

(* Not connected: drop the client, snapshot and empty the stores, connect. *)
SwitchNetwork(t) ==
  /\ MaySwitchTo(t) /\ t \notin clients /\ t \notin Awaiting
  /\ NewCall(t, "network", "connect")
  /\ client' = None
  /\ cache' = SwitchSnapshot
  /\ stores' = EmptyStores
  /\ fetches' = Past(fetches)
  /\ cleared' = TRUE
  /\ UNCHANGED <<accounts, clients, active, page, rest>>

At(i, phase) == page # "left" /\ switches[i] # None /\ switches[i].phase = phase

(* The session came back and connected: its client joins the pool, whether *)
(* or not a newer switch owns the screen.                                  *)
SwitchConnected(i) ==
  /\ At(i, "connect")
  /\ clients' = clients \cup {switches[i].target}
  /\ GoTo(i, "verify")
  /\ UNCHANGED <<accounts, screen, cleared, generation, page, rest>>

(* connect() threw: the error is caught with `targetClient` already set,   *)
(* so the switch goes on with a client that is not connected.              *)
SwitchBroken(i) ==
  /\ At(i, "connect")
  /\ GoTo(i, "verify")
  /\ UNCHANGED <<accounts, clients, screen, cleared, generation, page, rest>>

(* flushSync() is awaited outside any try, and throws if a settings edit   *)
(* was pending and cannot be sent: the switch ends here as it stands, the  *)
(* network path (which flushes before it connects) over emptied stores.    *)
SwitchThrows(i) ==
  /\ At(i, "connect") \/ At(i, "flush")
  /\ ~ Superseded(i)
  /\ GoTo(i, "threw")
  /\ UNCHANGED <<accounts, clients, screen, cleared, generation, page, rest>>

(* A newer switch owns the screen: give up at the next await, or throw.    *)
SwitchGivesUp(i) ==
  /\ Superseded(i)
  /\ \E phase \in {"connect", "verify", "flush"} : At(i, phase)
  /\ GoTo(i, "done")
  /\ UNCHANGED <<accounts, clients, screen, cleared, generation, page, rest>>

(* Mutant: storesClearedForSwitch is left set.                             *)
RestoreKeepsFlag(a, saved, st, fs) ==
  /\ cache' = saved
  /\ stores' = IF saved[a] # None THEN saved[a] ELSE st
  /\ fetches' = IF saved[a] # None THEN Past(fs) ELSE fs
  /\ active' = a
  /\ client' = a
  /\ UNCHANGED cleared

(* restoreAccount(a), given the snapshots and what the stores hold before. *)
Restore(a, saved, st, fs) ==
  /\ cache' = saved
  /\ stores' = IF saved[a] # None THEN saved[a] ELSE st
  /\ fetches' = IF saved[a] # None THEN Past(fs) ELSE fs
  /\ cleared' = FALSE
  /\ active' = a
  /\ client' = a

(* Mutant: the account is forgotten, nothing is shown in its place.        *)
SwitchRefusedStays(i) ==
  LET t == switches[i].target IN
  /\ At(i, "connect") /\ ~ Superseded(i)
  /\ accounts' = accounts \ {t}
  /\ cache' = [cache EXCEPT ![t] = None]
  /\ GoTo(i, "failed")
  /\ UNCHANGED <<clients, active, client, stores, fetches, cleared, generation, page, rest>>

(* No session to resume: forget the account and show the one the switch    *)
(* started from, if it is still there, or the login page.                  *)
SwitchRefused(i) ==
  LET t == switches[i].target
      prev == switches[i].prev
      left == accounts \ {t}
      evicted == [cache EXCEPT ![t] = None]
  IN  /\ At(i, "connect") /\ ~ Superseded(i)
      /\ accounts' = left
      /\ GoTo(i, "failed")
      /\ IF prev # t /\ prev \in clients \cap left
         THEN Restore(prev, evicted, stores, fetches) /\ UNCHANGED page
         ELSE /\ page' = "left"
              /\ cache' = evicted
              /\ UNCHANGED <<active, client, stores, fetches, cleared>>
      /\ UNCHANGED <<clients, generation, rest>>

(* The session belongs to somebody else: drop it and sign in again.        *)
SwitchRejected(i) ==
  LET t == switches[i].target IN
  /\ At(i, "verify") /\ ~ Superseded(i) /\ t \in clients
  /\ clients' = clients \ {t}
  /\ active' = switches[i].prev
  /\ page' = "left"
  /\ GoTo(i, "failed")
  /\ UNCHANGED <<accounts, client, stores, fetches, cache, cleared, generation, rest>>

(* Verified; the seamless path saves the settings before it goes on.       *)
SwitchVerified(i) ==
  /\ At(i, "verify") /\ ~ Superseded(i) /\ switches[i].path = "seamless"
  /\ GoTo(i, "flush")
  /\ UNCHANGED <<accounts, clients, screen, cleared, generation, page, rest>>

(* The target gets the screen; without a snapshot it must load identities. *)
Bind(i, saved, st, fs) ==
  LET t == switches[i].target IN
  /\ ~ Superseded(i)
  /\ Restore(t, saved, st, fs)
  /\ GoTo(i, IF saved[t] # None THEN "done" ELSE "identities")
  /\ UNCHANGED <<accounts, clients, generation, page, rest>>

BindNetwork(i) ==
  /\ At(i, "verify") /\ switches[i].path = "network"
  /\ Bind(i, cache, stores, fetches)

BindSeamless(i) ==
  /\ At(i, "flush")
  /\ Bind(i, SwitchSnapshot, EmptyStores, Past(fetches))

(* The identities arrived: they are stored first, and only then does the   *)
(* switch look whether a newer one has started.                            *)
SwitchIdentities(i) ==
  LET t == switches[i].target IN
  /\ At(i, "identities")
  /\ stores' = [stores EXCEPT !.ids = IF t \in clients THEN t ELSE None]
  /\ fetches' = IF Superseded(i) THEN fetches ELSE StartFetch(fetches, t)
  /\ GoTo(i, "done")
  /\ UNCHANGED <<accounts, clients, active, client, cache, cleared, generation, page, rest>>

-----------------------------------------------------------------------------
(* Fetches of the account on screen: started by the mail page, landing     *)
(* any time later, dropped if the stores have been emptied since.          *)

FetchStart ==
  /\ page = "mail" /\ client \in clients
  /\ Cardinality(fetches) < MaxFetches
  /\ fetches' = StartFetch(fetches, client)
  /\ UNCHANGED <<accounts, clients, active, client, stores, cache, calls, page, rest>>

(* Mutant: the epoch is not compared.                                      *)
FetchLandAnyway(f) ==
  /\ page # "left" /\ f \in fetches
  /\ fetches' = fetches \ {f}
  /\ stores' = [stores EXCEPT !.mail = @ \cup {f.owner}]
  /\ UNCHANGED <<accounts, clients, active, client, cache, calls, page, rest>>

FetchLand(f) ==
  /\ page # "left" /\ f \in fetches
  /\ fetches' = fetches \ {f}
  /\ stores' = IF f.epoch = "current" THEN [stores EXCEPT !.mail = @ \cup {f.owner}] ELSE stores
  /\ UNCHANGED <<accounts, clients, active, client, cache, calls, page, rest>>

-----------------------------------------------------------------------------
(* Sign-outs, removals, sign-ins.  Nothing in the code keeps them apart    *)
(* from a switch: none of them takes a generation or looks at one.         *)

Quiet == ~ Switching /\ signOut = NoSignOut /\ signIn = NoSignIn
Interfere == others < MaxOthers /\ (Overlapping \/ Quiet) /\ others' = others + 1

(* logout() and logoutAll() capture the active account, then give plugins  *)
(* up to LOGOUT_HOOK_BUDGET_MS.  `refused` is the account whose renewal    *)
(* was refused, when that is why.                                          *)
BeginSignOut(phase, refused) ==
  /\ Interfere
  /\ signOut = NoSignOut
  /\ signOut' = [phase |-> phase, account |-> active, refused |-> refused]

Logout ==
  /\ page = "mail"
  /\ BeginSignOut("hooks", None)
  /\ UNCHANGED <<accounts, clients, screen, calls, page, signIn, idLoads, renewals, halted>>

LogoutAll ==
  /\ page = "mail"
  /\ BeginSignOut("hooks all", None)
  /\ UNCHANGED <<accounts, clients, screen, calls, page, signIn, idLoads, renewals, halted>>

(* Mutant: the snapshot is not evicted.                                    *)
LogoutTeardownKeepsSnapshot ==
  LET a == signOut.account IN
  /\ page # "left" /\ signOut.phase = "hooks"
  /\ client' = None
  /\ clients' = clients \ {a}
  /\ accounts' = accounts \ {a}
  /\ signOut' = [signOut EXCEPT !.phase = "flush"]
  /\ UNCHANGED <<active, stores, fetches, cache, calls, page, signIn, idLoads, renewals, halted, others>>

(* The hooks are over: disconnect, forget the account, save the settings.  *)
LogoutTeardown ==
  LET a == signOut.account IN
  /\ page # "left" /\ signOut.phase = "hooks"
  /\ client' = None
  /\ clients' = clients \ {a}
  /\ cache' = IF a = None THEN cache ELSE [cache EXCEPT ![a] = None]
  /\ accounts' = accounts \ {a}
  /\ signOut' = [signOut EXCEPT !.phase = "flush"]
  /\ halted' = halted \ {a}
  /\ UNCHANGED <<active, stores, fetches, calls, page, signIn, idLoads, renewals, others>>

(* Saving them may throw (see SwitchThrows): logout() ends here, with the  *)
(* account forgotten and still the active one.                             *)
LogoutThrows ==
  /\ page # "left" /\ signOut.phase = "flush"
  /\ signOut' = NoSignOut
  /\ halted' = halted \cup ({signOut.account} \ {None})
  /\ UNCHANGED <<accounts, clients, screen, calls, page, signIn, idLoads, renewals, others>>

(* logoutAll() saves them before it takes anything down, and may end there.*)
LogoutAllThrows ==
  /\ page # "left" /\ signOut.phase = "hooks all"
  /\ signOut' = NoSignOut
  /\ UNCHANGED <<accounts, clients, screen, calls, page, signIn, idLoads, renewals, halted, others>>

LogoutAllTeardown ==
  /\ page # "left" /\ signOut.phase = "hooks all"
  /\ client' = None
  /\ clients' = {}
  /\ cache' = [a \in Accounts |-> None]
  /\ signOut' = [signOut EXCEPT !.phase = "cleanup"]
  /\ UNCHANGED <<accounts, active, stores, fetches, calls, page, signIn,
                 idLoads, renewals, halted, others>>

(* Stay in the app with a connected account (the first in the user's order *)
(* of the list); without a snapshot its stores and identities are loaded.  *)
LogoutShowNext(n) ==
  /\ page # "left" /\ signOut.phase = "flush"
  /\ n \in accounts \cap clients
  /\ active' = n
  /\ client' = n
  /\ IF cache[n] # None
     THEN stores' = cache[n] /\ fetches' = Past(fetches) /\ UNCHANGED idLoads
     ELSE /\ stores' = EmptyStores
          /\ fetches' = StartFetch(Past(fetches), n)
          /\ idLoads' = idLoads \cup {n}
  /\ signOut' = NoSignOut
  /\ UNCHANGED <<accounts, clients, cache, calls, page, signIn, renewals, halted, others>>

(* The next account is not connected: reload the page to restore it.       *)
LogoutReload(n) ==
  /\ page # "left" /\ signOut.phase = "flush"
  /\ accounts \cap clients = {} /\ n \in accounts \ Awaiting
  /\ active' = n
  /\ stores' = EmptyStores
  /\ fetches' = Past(fetches)
  /\ signOut' = NoSignOut
  /\ page' = "left"
  /\ UNCHANGED <<accounts, clients, client, cache, calls, signIn, idLoads, renewals, halted, others>>

(* Nobody is left to show (or can be): performFullLogout and leave.        *)
FullLogout ==
  /\ page # "left"
  /\ \/ signOut.phase = "cleanup"
     \/ signOut.phase = "flush" /\ accounts \cap clients = {}
  /\ accounts' = {}
  /\ clients' = {}
  /\ active' = None
  /\ client' = None
  /\ stores' = EmptyStores
  /\ fetches' = Past(fetches)
  /\ cache' = [a \in Accounts |-> None]
  /\ signOut' = NoSignOut
  /\ page' = "left"
  /\ UNCHANGED <<calls, signIn, idLoads, renewals, halted, others>>

(* logout()'s identity request for the account it showed: it stores what   *)
(* it gets, whoever is on screen by then.                                  *)
LogoutIdentities(a) ==
  /\ page # "left" /\ a \in idLoads
  /\ idLoads' = idLoads \ {a}
  /\ stores' = [stores EXCEPT !.ids = a]
  /\ UNCHANGED <<accounts, clients, active, client, fetches, cache, calls, page,
                 signOut, signIn, renewals, halted, others>>

(* removeAccount of an account in the background; forgetAccountRows takes  *)
(* its rows out of a list that mixes accounts.                             *)
Forget(a) ==
  /\ clients' = clients \ {a}
  /\ cache' = [cache EXCEPT ![a] = None]
  /\ stores' = [stores EXCEPT !.mail = @ \ {a}]
  /\ accounts' = accounts \ {a}
  /\ UNCHANGED <<active, client, fetches, signOut>>

RemoveAccount(a) ==
  /\ page = "mail" /\ a \in accounts \ {active}
  /\ Interfere
  /\ Forget(a)
  /\ UNCHANGED <<calls, page, signIn, idLoads, renewals, halted>>

(* refreshAccessToken: one renewal per account; whether the account is the *)
(* active one is read as it starts.  Bound: one renewal at a time.         *)
RenewStart(a) ==
  /\ page # "left" /\ a \in clients
  /\ \A b \in Accounts : renewals[b] = "idle"
  /\ renewals' = [renewals EXCEPT ![a] = IF a = active THEN "active" ELSE "background"]
  /\ UNCHANGED <<accounts, clients, screen, calls, page, signOut, signIn, idLoads, halted, others>>

RenewOk(a) ==
  /\ page # "left" /\ renewals[a] # "idle"
  /\ renewals' = [renewals EXCEPT ![a] = "idle"]
  /\ UNCHANGED <<accounts, clients, screen, calls, page, signOut, signIn, idLoads, halted, others>>

(* The refresh token was refused: a background account is removed, for the *)
(* active one logout() is called - which signs out whoever is active now.  *)
RenewRefused(a) ==
  /\ page # "left" /\ renewals[a] # "idle"
  /\ renewals' = [renewals EXCEPT ![a] = "idle"]
  /\ IF renewals[a] = "active" \/ a = active
     THEN /\ BeginSignOut("hooks", a)
          /\ UNCHANGED <<accounts, clients, screen>>
     ELSE Interfere /\ Forget(a)
  /\ UNCHANGED <<calls, page, signIn, idLoads, halted>>

(* "Add account": the login page, in the same document.                    *)
OpenLogin ==
  /\ page = "mail" /\ others < MaxOthers
  /\ page' = "login"
  /\ UNCHANGED <<accounts, clients, screen, calls, rest>>

BackToMail ==
  /\ page = "login" /\ client # None /\ (signIn = NoSignIn \/ Overlapping)
  /\ page' = "mail"
  /\ UNCHANGED <<accounts, clients, screen, calls, rest>>

Login(a) ==
  /\ page = "login" /\ signIn = NoSignIn
  /\ Interfere
  /\ signIn' = [phase |-> "connecting", account |-> a]
  /\ UNCHANGED <<accounts, clients, screen, calls, page, signOut, idLoads, renewals, halted>>

LoginFailed ==
  /\ page # "left" /\ signIn.phase \in {"connecting", "loading"}
  /\ client' = None
  /\ signIn' = NoSignIn
  /\ UNCHANGED <<accounts, clients, active, stores, fetches, cache, calls, page,
                 signOut, idLoads, renewals, halted, others>>

(* Connected: snapshot the active account and empty the stores - without a *)
(* look at storesClearedForSwitch.                                         *)
LoginConnected ==
  /\ page # "left" /\ signIn.phase = "connecting"
  /\ signIn' = [signIn EXCEPT !.phase = "loading"]
  /\ IF active \in Accounts \ {signIn.account}
     THEN /\ cache' = [cache EXCEPT ![active] = stores]
          /\ stores' = EmptyStores
          /\ fetches' = Past(fetches)
     ELSE UNCHANGED <<cache, stores, fetches>>
  /\ UNCHANGED <<accounts, clients, active, client, calls, page, signOut,
                 idLoads, renewals, halted, others>>

LoginFinished ==
  LET a == signIn.account IN
  /\ page # "left" /\ signIn.phase = "loading"
  /\ accounts' = accounts \cup {a}
  /\ clients' = clients \cup {a}
  /\ active' = a
  /\ client' = a
  /\ stores' = [stores EXCEPT !.ids = a]
  /\ fetches' = StartFetch(fetches, a)
  /\ page' = "mail"
  /\ signIn' = NoSignIn
  /\ halted' = halted \ {a}
  /\ UNCHANGED <<cache, calls, signOut, idLoads, renewals, others>>

-----------------------------------------------------------------------------
SwitchStep(i) ==
  \/ SwitchConnected(i) \/ SwitchBroken(i) \/ SwitchRefused(i) \/ SwitchGivesUp(i)
  \/ SwitchVerified(i) \/ SwitchRejected(i) \/ BindNetwork(i) \/ BindSeamless(i)
  \/ SwitchIdentities(i) \/ SwitchThrows(i)

SwitchNext ==
  \/ \E t \in Accounts : SwitchToAwaiting(t) \/ SwitchSeamless(t) \/ SwitchNetwork(t)
  \/ \E i \in Calls : SwitchStep(i)
  \/ FetchStart
  \/ \E f \in fetches : FetchLand(f)

OtherNext ==
  \/ Logout \/ LogoutAll \/ LogoutTeardown \/ LogoutAllTeardown \/ FullLogout
  \/ LogoutThrows \/ LogoutAllThrows
  \/ \E a \in Accounts : LogoutShowNext(a) \/ LogoutReload(a) \/ LogoutIdentities(a)
  \/ \E a \in Accounts : RemoveAccount(a) \/ RenewStart(a) \/ RenewOk(a) \/ RenewRefused(a)
  \/ OpenLogin \/ BackToMail \/ LoginFailed \/ LoginConnected \/ LoginFinished
  \/ \E a \in Accounts : Login(a)

Next == SwitchNext \/ OtherNext

Spec == Init /\ [][Next]_vars

(* Nothing but switches and fetches; requests are answered, and code after *)
(* an await runs.                                                          *)
SwitchSpec == Init /\ [][SwitchNext]_vars
FairSwitchSpec == SwitchSpec /\ \A i \in Calls : WF_vars(SwitchStep(i))

-----------------------------------------------------------------------------
(* Properties.                                                             *)

(* Values of the right kinds; one record per call so far.                  *)
TypeOK ==
  /\ accounts \subseteq Accounts /\ clients \subseteq Accounts
  /\ active \in Accounts \cup {None} /\ client \in Accounts \cup {None}
  /\ stores \in Stores
  /\ fetches \subseteq Fetch
  /\ cache \in [Accounts -> Stores \cup {None}]
  /\ cleared \in BOOLEAN
  /\ switches \in [Calls -> Switch \cup {None}]
  /\ generation \in 0 .. MaxSwitches
  /\ \A i \in Calls : switches[i] # None <=> i <= generation
  /\ page \in {"mail", "login", "left"}

(* Only the active account's data is in the stores: showing it would let   *)
(* the user act on one account's folders or mail in another.               *)
OnlyActiveMailShown == page # "left" => stores.mail \subseteq {active}

(* A snapshot restores nobody else's data.                                 *)
SnapshotsHoldOwnMail ==
  \A a \in Accounts : cache[a] # None => cache[a].mail \subseteq {a}

(* The bound client is the active account's, whatever overlaps: what the   *)
(* user does on screen goes to the account shown there.                    *)
ClientMatchesActive == page # "left" /\ client # None => client = active

(* Accounts do not mix: on screen, in the snapshots that will be shown     *)
(* later, and where the next action of the user goes.                      *)
AccountsKeptApart == OnlyActiveMailShown /\ SnapshotsHoldOwnMail /\ ClientMatchesActive

(* Only the last click is applied: once the newest switch has bound its    *)
(* target that stays on screen, however late the older ones come back.     *)
LastClickWins ==
  (generation > 0 /\ switches[generation].phase \in {"identities", "done"})
    => active = switches[generation].target

(* Emptied stores are on their way to be filled, or wait for the next      *)
(* switch: the newest is still going to bind or has thrown at its flush,   *)
(* no client is bound meanwhile, and nobody's mail is shown.               *)
StoresRefilled ==
  (cleared /\ page # "left") =>
    /\ client = None /\ stores.mail = {} /\ generation > 0
    /\ switches[generation].phase \in {"connect", "verify", "flush", "threw"}

(* What the comment on storesClearedForSwitch says: a switch has emptied    *)
(* the stores and is yet to fill them.  A flush that throws never does.    *)
SomeoneRefills ==
  (cleared /\ page # "left") => switches[generation].phase \notin Ended

(* A signed-out account leaves no snapshot behind: signing in to it again  *)
(* cannot bring back what it showed before.  Unless the sign-out ended at  *)
(* its flush: its account stays active, and the next switch snapshots it.  *)
SignedOutForgotten == \A a \in Accounts \ (accounts \cup halted) : cache[a] = None

(* However switches overlap, a snapshot with mail in it is never replaced  *)
(* by one of emptied stores, nor dropped while its account is signed in.   *)
MailNotLost ==
  [][\A a \in accounts' :
       (cache[a] # None /\ cache[a].mail # {}) => (cache'[a] # None /\ cache'[a].mail # {})]_vars

(* The loading screen ends, with an account or with a login page: however  *)
(* the switches overlap and however their requests end, but for a newest   *)
(* switch that has thrown at its flush.                                    *)
NewestThrew == generation > 0 /\ switches[generation].phase = "threw"
LoadingEnds == client = None ~> client # None \/ page = "left" \/ NewestThrew

(* "Switched on again while these loaded: they belong to this account, not *)
(* the one now active."                                                    *)
IdentitiesOfActive == page # "left" => stores.ids \in {None, active}

(* Once everything has settled the account on screen has identities; it is *)
(* not stuck with a snapshot taken before they came.                       *)
IdentitiesArrive ==
  (page = "mail" /\ ~ Switching /\ client \in clients) => stores.ids # None

(* A refused renewal signs out the account it was for, and no other.       *)
OnlyRefusedAccountSignedOut == signOut.refused \in {None, signOut.account}
=============================================================================
