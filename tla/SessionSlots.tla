---------------------------- MODULE SessionSlots ----------------------------
(***************************************************************************)
(* The cookie slots of one browser tab: the refresh-token cookie of each   *)
(* signed-in account, the renewals that rewrite it, and the sign-outs that *)
(* clear it (src/stores/auth-store.ts, "Sign-out ordering (#905)", and the *)
(* route src/app/api/auth/token/route.ts).                                 *)
(*                                                                         *)
(* A login is one sign-in: a cookie or a token is that of the login it     *)
(* descends from, so a renewal that rotates the token keeps                *)
(* the login.  Every account here signed in with password and code for a   *)
(* token (login() with `totp`); Lite, remembered passwords, the provider's *)
(* redirect and a page load's restore are not part of this module.         *)
(***************************************************************************)
EXTENDS Naturals, FiniteSets

CONSTANTS Accounts, Logins,
          LoginAccount,   \* the account each login signs in to
          MaxSlots,       \* MAX_ACCOUNT_SLOTS
          Requests,       \* bound: renewals in flight at once
          Cleanups,       \* bound: credential cleanups running at once
          SignInsHalted,  \* bound: sign-ins beside a sign-out that ends at its flush
          None,
          Mishaps         \* the rare events of this instance, see Rare

Slots == 0 .. MaxSlots - 1

\* "straggler": a signed-out account still asks for a token - its client, for a
\* request that was out and is answered 401, or a timer armed too late; "refusal": a renewal is refused, or
\* fails with 500 or 502 for the fifth time in a row; "slow": a wait of the
\* sign-out reaches its limit; "failure": a DELETE fails, or a sign-in after its
\* exchange; "crossing": a sign-out overlaps a sign-in, a switch or another
\* sign-out; "offline": a settings edit is pending that a sign-out cannot save.
Rare == {"straggler", "refusal", "slow", "failure", "crossing", "offline"}

ASSUME SlotsAssumption ==
  /\ MaxSlots \in Nat \ {0}
  /\ LoginAccount \in [Logins -> Accounts]
  /\ None \notin Accounts \cup Logins \cup Requests \cup Cleanups
  /\ Mishaps \subseteq Rare
  /\ SignInsHalted \in Nat

VARIABLES
  entry,      \* the registry: the slot and the login of each account, or None
  active,     \* activeAccountId
  token,      \* the login behind each account's latest client's access token
  timers,     \* accounts with a renewal scheduled
  promises,   \* refreshPromises: the renewal an account joins
  renewal,    \* the renewals in flight
  closing,    \* closingSlots
  logouts,    \* calls of logout() under way
  cleanup,    \* calls of clearSlotCredentials() under way
  signIn,     \* the sign-in under way
  cookie,     \* the browser's refresh-token cookie of each slot
  cleared,    \* logins whose cookie a sign-out cleared
  spent,      \* logins already used
  halted      \* history: the slots of sign-outs that ended at their flush

page == <<entry, active, token, timers, promises, renewal, closing, logouts, signIn>>
vars == <<page, cleanup, cookie, cleared, spent, halted>>

Registered(a) == entry[a] # None
RegisteredAccounts == {a \in Accounts : Registered(a)}
FreeSlots == Slots \ {entry[a].slot : a \in RegisteredAccounts}

\* Mutant: the slot is a count of the accounts.
CountedSlot == Cardinality(RegisteredAccounts)

NextCookieSlot == CHOOSE s \in FreeSlots : \A t \in FreeSlots : s <= t

\* Mutants: the slot of whatever account is shown; always the first slot.
ActiveSlotOf(a) == IF active # None /\ Registered(active) THEN entry[active].slot ELSE 0
FirstSlotOf(a) == 0

\* `account?.cookieSlot ?? 0`
SlotOf(a) == IF Registered(a) THEN entry[a].slot ELSE 0

Renewals == [account : Accounts, slot : Slots, wasActive : BOOLEAN, known : BOOLEAN,
             asked : BOOLEAN, carried : Logins \cup {None},
             phase : {"sent", "served", "cut", "context", "unsynced", "drafts"},
             outcome : {"none", "renewed", "refused", "broken", "outage"}]
\* Mutant: a sign-out waits for context syncs only.
PendingSync(r) == renewal[r] # None /\ renewal[r].phase = "context"

\* A write a sign-out waits for: a renewal not answered, or its context sync.
Pending(r) == renewal[r] # None /\ renewal[r].phase \in {"sent", "served", "context"}
Served(r, outcomes) == /\ renewal[r] # None
                       /\ renewal[r].phase = "served" /\ renewal[r].outcome \in outcomes

Wipes == [slot : Slots, waits : SUBSET Requests, carried : Logins \cup {None},
          phase : {"settling", "sent", "served", "failed"}, late : BOOLEAN]

Entries == [slot : Slots, login : Logins]

\* What is absent is no object.
ASSUME NoneAssumption == None \notin Entries \cup Renewals \cup Wipes

\* An identifier is used again once nothing refers to its last use.
FreeRequests == {r \in Requests : renewal[r] = None
                  /\ \A c \in Cleanups : cleanup[c] # None => r \notin cleanup[c].waits}
FreeCleanups == {c \in Cleanups : cleanup[c] = None /\ \A o \in logouts : o.wipe # c}

\* Where the instance leaves crossings out, these steps wait for their turn.
Undisturbed ==
  \/ "crossing" \in Mishaps
  \/ /\ signIn = None /\ logouts = {}
     /\ \A r \in Requests : renewal[r] # None => renewal[r].phase # "drafts"

Init ==
  /\ entry = [a \in Accounts |-> None]
  /\ active = None
  /\ token = [a \in Accounts |-> None]
  /\ timers = {}
  /\ promises = [a \in Accounts |-> None]
  /\ renewal = [r \in Requests |-> None]
  /\ closing = {}
  /\ logouts = {}
  /\ cleanup = [c \in Cleanups |-> None]
  /\ signIn = None
  /\ cookie = [s \in Slots |-> None]
  /\ cleared = {}
  /\ spent = {}
  /\ halted = {}

-----------------------------------------------------------------------------
(***************************************************************************)
(* Signing in.  The slot is chosen before the exchange, which writes the   *)
(* slot's cookie; the registry chooses again when the account is added.    *)
(* Neither looks at closingSlots.                                          *)
(***************************************************************************)

\* The account shown is registered, unless its sign-out ended at the flush: a full
\* sign-out leaves the page by itself.
Shown == Registered(active) \/ halted # {}

\* An account's logins are alike: whichever is left is the next one.
NextLogin(a) == CHOOSE l \in Logins \ spent : LoginAccount[l] = a

\* The login page is reached while nobody, or somebody still there, is shown.
StartSignIn(l) ==
  LET a == LoginAccount[l] IN
  /\ signIn = None
  /\ l \notin spent /\ l = NextLogin(a)
  /\ active # None => Shown
  /\ halted # {} => Cardinality(spent) < SignInsHalted
  /\ Undisturbed
  /\ "crossing" \in Mishaps \/ \A c \in Cleanups : cleanup[c] = None
  /\ Registered(a) \/ FreeSlots # {}
  /\ signIn' = [login |-> l, phase |-> "asked",
                slot |-> IF Registered(a) THEN entry[a].slot ELSE NextCookieSlot]
  /\ spent' = spent \cup {l}
  /\ UNCHANGED <<entry, active, token, timers, promises, renewal, closing, logouts,
                 cleanup, cookie, cleared, halted>>

\* Mutant: the exchange writes the first slot.
RedeemedInFirstSlot ==
  /\ signIn # None /\ signIn.phase = "asked"
  /\ cookie' = [cookie EXCEPT ![0] = signIn.login]
  /\ signIn' = [signIn EXCEPT !.phase = "redeemed"]
  /\ UNCHANGED <<entry, active, token, timers, promises, renewal, closing, logouts,
                 cleanup, cleared, spent, halted>>

\* The exchange's answer stores the refresh token of the new login.
Redeemed ==
  /\ signIn # None /\ signIn.phase = "asked"
  /\ cookie' = [cookie EXCEPT ![signIn.slot] = signIn.login]
  /\ signIn' = [signIn EXCEPT !.phase = "redeemed"]
  /\ UNCHANGED <<entry, active, token, timers, promises, renewal, closing, logouts,
                 cleanup, cleared, spent, halted>>

\* addAccount() keeps the slot of a registered account and takes the next free
\* one for a new account; then the account is shown and its renewal scheduled.
Register ==
  /\ signIn # None /\ signIn.phase = "redeemed"
  /\ LET a == LoginAccount[signIn.login] IN
     /\ Registered(a) \/ FreeSlots # {}
     /\ entry' = [entry EXCEPT ![a] =
          [slot |-> IF Registered(a) THEN entry[a].slot ELSE NextCookieSlot,
           login |-> signIn.login]]
     /\ token' = [token EXCEPT ![a] = signIn.login]
     /\ timers' = timers \cup {a}
     /\ active' = a
  /\ signIn' = None
  /\ UNCHANGED <<promises, renewal, closing, logouts, cleanup, cookie, cleared, spent, halted>>

\* The sign-in fails: the code was wrong, or the new session could not be used.
SignInFails ==
  /\ signIn # None
  /\ signIn.phase = "redeemed" => "failure" \in Mishaps
  /\ signIn' = None
  /\ UNCHANGED <<entry, active, token, timers, promises, renewal, closing, logouts,
                 cleanup, cookie, cleared, spent, halted>>

\* A switch to an account already connected, as one step.
Switch(a) ==
  /\ Registered(a) /\ active # a /\ active # None
  /\ Undisturbed
  /\ active' = a
  /\ UNCHANGED <<entry, token, timers, promises, renewal, closing, logouts, signIn,
                 cleanup, cookie, cleared, spent, halted>>

-----------------------------------------------------------------------------
(***************************************************************************)
(* Renewing.  refreshAccessToken({ accountId: a }): joined when one is in  *)
(* flight, nothing while the slot is closing, else a PUT that carries the  *)
(* slot's cookie of the moment.                                            *)
(***************************************************************************)

\* `known`: the account was registered, `asked`: a client waits for the token.
Refresh(a, asked) ==
  \/ /\ promises[a] # None
     /\ renewal' = [renewal EXCEPT ![promises[a]].asked = @ \/ asked]
     /\ UNCHANGED promises
  \/ /\ promises[a] = None /\ SlotOf(a) \in closing
     /\ UNCHANGED <<renewal, promises>>
  \/ /\ promises[a] = None /\ SlotOf(a) \notin closing
     /\ \E r \in FreeRequests :
          /\ renewal' = [renewal EXCEPT ![r] =
               [account |-> a, slot |-> SlotOf(a), wasActive |-> a = active,
                known |-> Registered(a), asked |-> asked, carried |-> cookie[SlotOf(a)],
                phase |-> "sent", outcome |-> "none"]]
          /\ promises' = [promises EXCEPT ![a] = r]

TimerFires(a) ==
  /\ a \in timers
  /\ Registered(a) \/ "straggler" \in Mishaps
  /\ timers' = timers \ {a}
  /\ Refresh(a, FALSE)
  /\ UNCHANGED <<entry, active, token, closing, logouts, signIn,
                 cleanup, cookie, cleared, spent, halted>>

\* A client's request is answered 401 and the client asks for a new token.  A
\* client that was disconnected still does, for a request already out.
ClientRejected(a) ==
  /\ token[a] # None
  /\ Registered(a) \/ "straggler" \in Mishaps
  /\ Refresh(a, TRUE)
  /\ UNCHANGED <<entry, active, token, timers, closing, logouts, signIn,
                 cleanup, cookie, cleared, spent, halted>>

\* The route: without a cookie the renewal is refused; else the provider renews,
\* is out of order, or refuses, as it does a revoked token.
Serve(r) ==
  /\ renewal[r] # None /\ renewal[r].phase = "sent"
  /\ \E o \in {"renewed", "refused", "broken", "outage"} :
       /\ IF renewal[r].carried = None THEN o = "refused"
          ELSE o \in {"refused", "broken"} => "refusal" \in Mishaps
       /\ renewal' = [renewal EXCEPT ![r].phase = "served", ![r].outcome = o]
  /\ UNCHANGED <<entry, active, token, timers, promises, closing, logouts, signIn,
                 cleanup, cookie, cleared, spent, halted>>

\* What the answer does to the browser's cookies, by the slot's name.
AnswerCookies(r) ==
  cookie' = CASE renewal[r].outcome = "renewed" ->
                   [cookie EXCEPT ![renewal[r].slot] = renewal[r].carried]
              [] renewal[r].outcome = "refused" /\ renewal[r].carried # None ->
                   [cookie EXCEPT ![renewal[r].slot] = None]
              [] OTHER -> cookie

\* `finally`: the promise an account joins is forgotten, whoever's it is.
Done(r) ==
  /\ renewal' = [renewal EXCEPT ![r] = None]
  /\ promises' = [promises EXCEPT ![renewal[r].account] = None]

\* After an outage the renewal is tried again, unless shouldRetryRefresh() finds
\* the slot closing or the account gone.
RetryLater(r) ==
  timers' = IF renewal[r].slot \notin closing /\ Registered(renewal[r].account)
            THEN timers \cup {renewal[r].account} ELSE timers

\* The request fails on the network, served or not, or the sign-out cut it off.
LoseRenewal(r) ==
  /\ renewal[r] # None /\ renewal[r].phase \in {"sent", "served", "cut"}
  /\ RetryLater(r)
  /\ Done(r)
  /\ UNCHANGED <<entry, active, token, closing, logouts, signIn,
                 cleanup, cookie, cleared, spent, halted>>

FinishOutage(r) ==
  /\ Served(r, {"outage"})
  /\ RetryLater(r)
  /\ Done(r)
  /\ UNCHANGED <<entry, active, token, closing, logouts, signIn,
                 cleanup, cookie, cleared, spent, halted>>

\* Whose client gets the token: the account's, or if it has none any more and was
\* shown, the client shown; and the client that asked.
Owners(r) ==
  LET a == renewal[r].account IN
  {b \in RegisteredAccounts : b = IF Registered(a) \/ ~ renewal[r].wasActive THEN a ELSE active}
  \cup IF renewal[r].asked THEN {a} ELSE {}

\* Renewed, and the slot is not closing: the token goes to its owners, and the
\* context is synced before the next renewal is scheduled.
Renewed(r) ==
  /\ Served(r, {"renewed"})
  /\ AnswerCookies(r)
  /\ \/ /\ renewal[r].slot \in closing
        /\ Done(r)
        /\ UNCHANGED <<token, timers>>
     \/ /\ renewal[r].slot \notin closing
        /\ token' = [a \in Accounts |-> IF a \in Owners(r) THEN renewal[r].carried ELSE token[a]]
        /\ IF renewal[r].known
           THEN /\ renewal' = [renewal EXCEPT ![r].phase = "context"]
                /\ UNCHANGED <<timers, promises>>
           ELSE Done(r) /\ timers' = timers \cup {renewal[r].account}
  /\ UNCHANGED <<entry, active, closing, logouts, signIn, cleanup, cleared, spent, halted>>

\* The context sync is over, one way or another: the next renewal is scheduled.
ContextSynced(r) ==
  /\ renewal[r] # None /\ renewal[r].phase \in {"context", "unsynced"}
  /\ timers' = timers \cup {renewal[r].account}
  /\ Done(r)
  /\ UNCHANGED <<entry, active, token, closing, logouts, signIn,
                 cleanup, cookie, cleared, spent, halted>>

-----------------------------------------------------------------------------
(***************************************************************************)
(* Signing out.                                                            *)
(***************************************************************************)

\* clearSlotCredentials(s): the slot closes and the cleanup waits for the writes
\* pending now; with none, the DELETE leaves at once, with the cookies in `jar`.
ClearSlot(s, c, jar) ==
  LET pending == {r \in Requests : Pending(r) /\ renewal[r].slot = s} IN
  /\ cleanup' = [cleanup EXCEPT ![c] =
       IF pending = {}
       THEN [slot |-> s, waits |-> {}, carried |-> jar[s], phase |-> "sent", late |-> FALSE]
       ELSE [slot |-> s, waits |-> pending, carried |-> None, phase |-> "settling", late |-> FALSE]]
  /\ closing' = closing \cup {s}

\* The registry, the timer and the joined renewal of an account signed out.
Forget(a) ==
  /\ entry' = [entry EXCEPT ![a] = None]
  /\ timers' = timers \ {a}

\* logout() up to its first await: what it will sign out is fixed here.
CallLogout ==
  logouts' = logouts \cup {[account |-> active, slot |-> SlotOf(active), phase |-> "hooks",
                            wipe |-> None]}

Logout ==
  /\ active # None /\ Shown
  /\ Undisturbed
  /\ CallLogout
  /\ UNCHANGED <<entry, active, token, timers, promises, renewal, closing, signIn,
                 cleanup, cookie, cleared, spent, halted>>

\* After the hooks: the slot closes, the account leaves the registry.
TearDown(o) ==
  /\ o \in logouts /\ o.phase = "hooks"
  /\ closing' = closing \cup {o.slot}
  /\ Forget(o.account)
  /\ promises' = [promises EXCEPT ![o.account] = None]
  /\ logouts' = (logouts \ {o}) \cup {[o EXCEPT !.phase = "flush"]}
  /\ UNCHANGED <<active, token, renewal, signIn, cleanup, cookie, cleared, spent, halted>>

\* After the settings flush: another account is shown and the cleanup runs by
\* itself, or nobody is left and the page waits for the cleanup.
Leave(o) ==
  /\ o \in logouts /\ o.phase = "flush"
  /\ \E c \in FreeCleanups :
       /\ ClearSlot(o.slot, c, cookie)
       /\ \/ /\ active' \in RegisteredAccounts
             /\ logouts' = logouts \ {o}
          \/ /\ RegisteredAccounts = {}
             /\ logouts' = (logouts \ {o}) \cup {[o EXCEPT !.phase = "leaving", !.wipe = c]}
             /\ UNCHANGED active
  /\ UNCHANGED <<entry, token, timers, promises, renewal, signIn, cookie, cleared, spent, halted>>

\* flushSync() rejects, and the sign-out ends there: its slot stays closed and its
\* cookie in place, and the account, out of the registry, is still the one shown.
FlushThrows(o) ==
  /\ "offline" \in Mishaps
  /\ Cardinality(spent) <= SignInsHalted
  /\ o \in logouts /\ o.phase = "flush"
  /\ logouts' = logouts \ {o}
  /\ halted' = halted \cup {o.slot}
  /\ UNCHANGED <<entry, active, token, timers, promises, renewal, closing, signIn,
                 cleanup, cookie, cleared, spent>>

\* The page leaves once the cleanup is over or took too long: what was in memory
\* is gone, a DELETE under way goes on (keepalive), other requests are cancelled.
Navigate(o) ==
  /\ o \in logouts /\ o.phase = "leaving"
  /\ cleanup[o.wipe] # None => cleanup[o.wipe].late
  /\ active' = None
  /\ token' = [a \in Accounts |-> None]
  /\ timers' = {}
  /\ promises' = [a \in Accounts |-> None]
  /\ renewal' = [r \in Requests |-> None]
  /\ closing' = {}
  /\ logouts' = {}
  /\ signIn' = None
  /\ cleanup' = [c \in Cleanups |->
       IF cleanup[c] # None /\ cleanup[c].phase = "settling" THEN None ELSE cleanup[c]]
  /\ UNCHANGED <<entry, cookie, cleared, spent, halted>>

\* removeAccount(a), which is logout() of the account shown and nothing for one
\* no longer registered.
Remove(a, jar) ==
  \/ /\ a = active
     /\ CallLogout
     /\ UNCHANGED <<entry, timers, closing, cleanup>>
  \/ /\ a # active /\ Registered(a)
     /\ \E c \in FreeCleanups : ClearSlot(entry[a].slot, c, jar)
     /\ Forget(a)
     /\ UNCHANGED logouts
  \/ /\ a # active /\ ~ Registered(a)
     /\ UNCHANGED <<entry, timers, closing, cleanup, logouts>>

\* The user removes an account not shown.
RemoveAccount(a) ==
  /\ Registered(a) /\ a # active
  /\ Undisturbed
  /\ Remove(a, cookie)
  /\ promises' = [promises EXCEPT ![a] = None]
  /\ UNCHANGED <<active, token, renewal, signIn, cookie, cleared, spent, halted>>

\* A renewal refused, or broken once too often.  An account that is not shown is
\* removed - a refusal goes by what was shown when the renewal began - else the
\* slot closes while the open drafts are saved.
FinishRefused(r) ==
  LET a == renewal[r].account
      shown == IF renewal[r].outcome = "refused" THEN renewal[r].wasActive ELSE a = active IN
  /\ Served(r, {"refused", "broken"})
  /\ Undisturbed
  /\ "crossing" \in Mishaps \/ (renewal[r].wasActive => a = active)
  /\ AnswerCookies(r)
  /\ \/ /\ ~ shown
        /\ Remove(a, cookie')
        /\ Done(r)
     \/ /\ shown
        /\ closing' = closing \cup {renewal[r].slot}
        /\ renewal' = [renewal EXCEPT ![r].phase = "drafts"]
        /\ UNCHANGED <<entry, timers, promises, logouts, cleanup>>
  /\ UNCHANGED <<active, token, signIn, cleared, spent, halted>>

\* The drafts are saved: logout() of whatever account is shown now.
DraftsSaved(r) ==
  /\ renewal[r] # None /\ renewal[r].phase = "drafts"
  /\ active # None
  /\ CallLogout
  /\ Done(r)
  /\ UNCHANGED <<entry, active, token, timers, closing, signIn,
                 cleanup, cookie, cleared, spent, halted>>

-----------------------------------------------------------------------------
(***************************************************************************)
(* The cleanup of a slot: settleSessionWrites, then the DELETEs, the slot  *)
(* reopened at the end or when they take too long.                         *)
(***************************************************************************)

SendDelete(c) == [cleanup[c] EXCEPT !.phase = "sent", !.carried = cookie[cleanup[c].slot],
                                    !.waits = {}]

Settled(c) ==
  /\ cleanup[c] # None /\ cleanup[c].phase = "settling"
  /\ \A r \in cleanup[c].waits : ~ Pending(r)
  /\ cleanup' = [cleanup EXCEPT ![c] = SendDelete(c)]
  /\ UNCHANGED <<page, cookie, cleared, spent, halted>>

\* Three seconds are over: the writes still pending are aborted.
AbortWrites(c) ==
  /\ "slow" \in Mishaps
  /\ cleanup[c] # None /\ cleanup[c].phase = "settling"
  /\ LET hung == {r \in cleanup[c].waits : Pending(r)} IN
     /\ hung # {}
     /\ renewal' = [r \in Requests |->
          IF r \notin hung THEN renewal[r]
          ELSE [renewal[r] EXCEPT !.phase = IF @ = "context" THEN "unsynced" ELSE "cut"]]
  /\ cleanup' = [cleanup EXCEPT ![c] = SendDelete(c)]
  /\ UNCHANGED <<entry, active, token, timers, promises, closing, logouts, signIn,
                 cookie, cleared, spent, halted>>

\* The route answers, having asked the provider to revoke the refresh token it was
\* sent, or the request fails.
ServeDelete(c) ==
  /\ cleanup[c] # None /\ cleanup[c].phase = "sent"
  /\ \E o \in {"served"} \cup (IF "failure" \in Mishaps THEN {"failed"} ELSE {}) :
       cleanup' = [cleanup EXCEPT ![c].phase = o]
  /\ UNCHANGED <<page, cookie, cleared, spent, halted>>

\* Mutant: a failed DELETE does not reopen the slot.
DeletedReopensOnSuccess(c) ==
  /\ cleanup[c] # None /\ cleanup[c].phase \in {"served", "failed"}
  /\ IF cleanup[c].phase = "served" /\ cleanup[c].carried # None
     THEN /\ cookie' = [cookie EXCEPT ![cleanup[c].slot] = None]
          /\ cleared' = cleared \cup {cleanup[c].carried}
     ELSE UNCHANGED <<cookie, cleared>>
  /\ cleanup' = [cleanup EXCEPT ![c] = None]
  /\ closing' = IF cleanup[c].late \/ cleanup[c].phase = "failed"
                THEN closing ELSE closing \ {cleanup[c].slot}
  /\ UNCHANGED <<entry, active, token, timers, promises, renewal, logouts, signIn, spent, halted>>

\* The answer deletes the cookies the request carried, by name.
Deleted(c) ==
  /\ cleanup[c] # None /\ cleanup[c].phase \in {"served", "failed"}
  /\ IF cleanup[c].phase = "served" /\ cleanup[c].carried # None
     THEN /\ cookie' = [cookie EXCEPT ![cleanup[c].slot] = None]
          /\ cleared' = cleared \cup {cleanup[c].carried}
     ELSE UNCHANGED <<cookie, cleared>>
  /\ cleanup' = [cleanup EXCEPT ![c] = None]
  /\ closing' = IF cleanup[c].late THEN closing ELSE closing \ {cleanup[c].slot}
  /\ UNCHANGED <<entry, active, token, timers, promises, renewal, logouts, signIn, spent, halted>>

\* Eight seconds are over: the slot reopens, the DELETE goes on.
GiveUpWaiting(c) ==
  /\ "slow" \in Mishaps
  /\ cleanup[c] # None /\ cleanup[c].phase \in {"sent", "served"} /\ ~ cleanup[c].late
  /\ cleanup' = [cleanup EXCEPT ![c].late = TRUE]
  /\ closing' = closing \ {cleanup[c].slot}
  /\ UNCHANGED <<entry, active, token, timers, promises, renewal, logouts, signIn,
                 cookie, cleared, spent, halted>>

-----------------------------------------------------------------------------
RenewalStep(r) ==
  \/ Serve(r) \/ LoseRenewal(r) \/ FinishOutage(r)
  \/ Renewed(r) \/ ContextSynced(r) \/ FinishRefused(r) \/ DraftsSaved(r)

SignInStep == Redeemed \/ Register \/ SignInFails

LogoutStep == \E o \in logouts : TearDown(o) \/ Leave(o) \/ FlushThrows(o) \/ Navigate(o)

CleanupStep(c) == Settled(c) \/ AbortWrites(c) \/ ServeDelete(c) \/ Deleted(c) \/ GiveUpWaiting(c)

Next ==
  \/ \E l \in Logins : StartSignIn(l)
  \/ SignInStep
  \/ \E a \in Accounts : Switch(a) \/ TimerFires(a) \/ ClientRejected(a) \/ RemoveAccount(a)
  \/ Logout
  \/ \E r \in Requests : RenewalStep(r)
  \/ LogoutStep
  \/ \E c \in Cleanups : CleanupStep(c)

Spec == Init /\ [][Next]_vars

\* Requests are answered, fail or are cut off, and code after an await runs.
Fairness ==
  /\ WF_vars(SignInStep)
  /\ \A r \in Requests : WF_vars(RenewalStep(r))
  /\ WF_vars(LogoutStep)
  /\ \A c \in Cleanups : WF_vars(CleanupStep(c))

FairSpec == Spec /\ Fairness

-----------------------------------------------------------------------------
LoginOrNone == Logins \cup {None}

TypeOK ==
  /\ entry \in [Accounts -> Entries \cup {None}]
  /\ active \in Accounts \cup {None}
  /\ token \in [Accounts -> LoginOrNone]
  /\ timers \subseteq Accounts
  /\ promises \in [Accounts -> Requests \cup {None}]
  /\ renewal \in [Requests -> Renewals \cup {None}]
  /\ closing \subseteq Slots
  /\ logouts \subseteq [account : Accounts, slot : Slots, phase : {"hooks", "flush", "leaving"},
                        wipe : Cleanups \cup {None}]
  /\ cleanup \in [Cleanups -> Wipes \cup {None}]
  /\ signIn \in [login : Logins, slot : Slots, phase : {"asked", "redeemed"}] \cup {None}
  /\ cookie \in [Slots -> LoginOrNone]
  /\ cleared \subseteq Logins
  /\ spent \subseteq Logins
  /\ halted \subseteq Slots

\* No sign-out has ended at its flush.  One that has leaves a slot that is closed,
\* free to be given and still holding a cookie, and with its account gone the next
\* sign-out of what is shown takes slot 0: the next four do not hold after it.
AllFlushed == halted = {}

\* No client is ever handed another account's token (auth-store.ts:2134-2136).
OwnToken ==
  AllFlushed => \A a \in Accounts : token[a] # None => LoginAccount[token[a]] = a

\* The cookie in a registered account's slot is that account's, so its renewals
\* and its sign-out act on its own credentials.
OwnCookie ==
  AllFlushed => \A a \in RegisteredAccounts :
    LET l == cookie[entry[a].slot] IN l # None => LoginAccount[l] = a

\* Two accounts never share a slot.
SlotsDistinct ==
  \A a, b \in RegisteredAccounts : entry[a].slot = entry[b].slot => a = b

\* A cookie that a sign-out cleared does not come back: no renewal in flight
\* revives the session (auth-store.ts:290-302).
NotRevived == AllFlushed => \A s \in Slots : cookie[s] \notin cleared

\* Signing an account out leaves the cookie of an account that stays: that goes
\* only with a refusal of its own renewal.
Spared(a) ==
  LET s == entry[a].slot IN
  /\ cookie[s] = entry[a].login
  /\ entry'[a] = entry[a]
  /\ cookie'[s] = None
  => \E r \in Requests : FinishRefused(r) /\ renewal[r].account = a

SparesOthers == [][AllFlushed => \A a \in RegisteredAccounts : Spared(a)]_vars

\* Nothing renews an account signed out: no timer is left for it (#588).
NoLostTimer == timers \subseteq RegisteredAccounts

\* A slot that a sign-out closed is opened again, unless a sign-out of it ended at
\* its flush.
SlotsReopen == \A s \in Slots : s \in closing ~> s \notin closing \/ s \in halted

\* Every slot that a sign-out closed is opened again: not one whose drafts of
\* settings could not be sent.
EverySlotReopens == \A s \in Slots : s \in closing ~> s \notin closing
=============================================================================
